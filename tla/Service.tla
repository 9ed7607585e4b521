------------------------------- MODULE Service -------------------------------
(***************************************************************************)
(* The service as a process: it starts from its environment, serves the    *)
(* control-plane calls and sign on the engine it was built with, is asked  *)
(* to stop, crashes and is started again.  The in-house engine keeps its   *)
(* keys in memory, so they live as long as the process.                    *)
(***************************************************************************)
EXTENDS Startup, ThresholdEngine

vars == <<processVars, engineVars>>

Init == StartupInit /\ EngineInit

-----------------------------------------------------------------------------
(* Calls.                                                                  *)

\* What callers have been told of a key: the epochs in the answers so far.
ToldEpochs(k) ==
    {reply[c].epoch : c \in {d \in Call :
        \/ reply[d].kind = "created" /\ d = k
        \/ reply[d].kind \in {"rotated", "metadata"} /\ op[d].key = k}}

Invoke(c, q) ==
    LET told == IF q.name = "dkg" THEN {} ELSE ToldEpochs(q.key)
    IN  /\ main = "serving" /\ pc[c] = "idle"
        /\ pc' = [pc EXCEPT ![c] = "start"]
        /\ op' = [op EXCEPT ![c] = q]
        /\ known' = IF told # {} THEN known \cup {c} ELSE known
        /\ seen' = [seen EXCEPT ![c] = CHOOSE e \in told \cup {0} :
                                           \A f \in told : f <= e]
        /\ UNCHANGED <<reply, keyVars, processVars>>

\* A call on a custody engine: how those answer is in CustodyEngines.
CustodyStep(c) ==
    \/ /\ pc[c] = "start" /\ ~Invalid(op[c])
       /\ Goto(c, "provider") /\ UNCHANGED keyVars
    \/ /\ pc[c] = "provider"
       /\ \E r \in {[kind |-> "custody"], Err("ProviderUnavailable")} : Answer(c, r)
       /\ UNCHANGED keyVars

Step(c) ==
    /\ \/ Rejects(c)
       \/ service.engine = "in_house" /\ EngineStep(c)
       \/ service.engine # "in_house" /\ CustodyStep(c)
    /\ UNCHANGED processVars

\* The caller goes away while the handler awaits.
DropCall(c) ==
    /\ AwaitsRound(c) \/ pc[c] = "provider"
    /\ Goto(c, "dropped")
    /\ UNCHANGED <<keyVars, processVars>>

-----------------------------------------------------------------------------
(* The process.                                                            *)

ProcessStep(step) ==
    /\ step
    /\ IF main' = "exited" THEN EngineLost ELSE UNCHANGED engineVars

Next ==
    \/ \E c \in Call :
           (\E q \in Operation[c] : Invoke(c, q)) \/ Step(c) \/ DropCall(c)
    \/ ProcessStep(Main(InFlight))
    \/ ProcessStep(HttpTask)
    \/ ProcessStep(Clients)
    \/ ProcessStep(Signal)
    \/ ProcessStep(Crash)
    \/ ProcessStep(Start)

Spec == Init /\ [][Next]_vars

\* main runs on, and a handler's awaits are bounded (a round by its timeout, a
\* custody call as CustodyEngines shows).  Connections, of HTTP and of gRPC,
\* stay open as long as their clients like.
FairSpec ==
    /\ Spec
    /\ WF_vars(ProcessStep(Main(InFlight)))
    /\ \A c \in Call : WF_vars(Step(c))

-----------------------------------------------------------------------------
(* Correctness.                                                            *)

TypeOK ==
    /\ env \in Environment
    /\ main \in {"verifier", "wallet", "engine", "audit", "http", "tls", "bind",
                 "serving", "draining", "exited"}
    /\ http \in {"none", "spawned", "listening", "draining", "down"}
    /\ service.engine \in {"none", "in_house", "fireblocks", "dfns", "turnkey"}
    /\ peers \in BOOLEAN
    /\ keys \in [Call -> Scheme \cup {"none"}]
    /\ published \in [Scheme -> SUBSET Call]
    /\ epoch \in [Call -> 0..Cardinality(Call)]
    /\ \A c \in Call : (pc[c] = "done") <=> (reply[c] # NoReply)

\* The engine's map and the clusters' agree: a key id is in the map with a
\* scheme exactly if that scheme's cluster, and no other, has published it.
\* The one exception is a dkg between the two inserts, which nothing can
\* interrupt but the end of the process: no key is left that nobody can use.
KeyMapMatchesClusters ==
    \A k \in Call, s \in Scheme :
        pc[k] # "record" => (keys[k] = s <=> k \in published[s])

\* A key the service has reported is found: a call that begins afterwards, in
\* the same process, is never told that the key does not exist.
KnownKeyIsFound ==
    \A c \in known : reply[c] # Err("KeyNotFound")

\* Epochs never run backwards for a caller, whatever rotations overlap: a
\* rotation reports an epoch nobody was told before it began and no other
\* rotation reports, and metadata at least the last one told.
EpochsAdvance ==
    \A c \in Call :
        /\ reply[c].kind = "rotated" =>
               /\ reply[c].epoch > seen[c]
               /\ \A d \in Call \ {c} :
                      (reply[d].kind = "rotated" /\ op[d].key = op[c].key) =>
                          reply[d].epoch # reply[c].epoch
        /\ reply[c].kind = "metadata" => reply[c].epoch >= seen[c]

\* A service asked to stop while it serves does stop once its gRPC clients have
\* let go of their connections, whatever calls are still running then and
\* whatever its HTTP connections do.
ShutdownCompletes == (main = "draining" /\ ~peers) ~> (main = "exited")
=============================================================================
