-------------------------- MODULE ManagedConversion --------------------------
(***************************************************************************)
(* The conversion pipeline of internal/service (core_pipeline.go,          *)
(* managed_conversion_source.go, managed_template_store.go) over the       *)
(* subconverter client of internal/subconverter.                           *)
(*                                                                         *)
(* A request publishes documents in the in-memory template store under     *)
(* fresh ids, asks the upstream converter for one pass after another, and  *)
(* removes the documents when it ends, however it ends.  While a pass runs *)
(* the upstream calls back for the documents the pass names                *)
(* (GET /internal/templates/<id>.ini).  Passes of all requests share       *)
(* MaxInFlight slots, and a pass that finds none free fails at once.       *)
(***************************************************************************)
EXTENDS Integers, Sequences, FiniteSets

CONSTANTS
  Requests,      \* request goroutines
  MaxInFlight    \* capacity of Client.maxInFlight

ASSUME ConstantsAssumption ==
  /\ IsFiniteSet(Requests)
  /\ MaxInFlight \in Nat \ {0}

VARIABLES
  pc,      \* where each request stands
  kind,    \* its endpoint: convert, render (generate and subscription) or resolve
  round,   \* 2 in the second pipeline run of a resolve, 1 otherwise
  stage,   \* discovery passes, or the passes over the managed documents
  todo,    \* passes of the stage not yet answered
  looked,  \* documents the upstream asked for in the pass under way
  found,   \* those it was given
  reply,   \* what the request's last call answered
  store,   \* InMemoryTemplateContentStore.content
  slots    \* len(Client.maxInFlight)

request == <<pc, kind, round, stage, todo, looked, found, reply>>
vars    == <<request, store, slots>>

-----------------------------------------------------------------------------

Kinds == {"convert", "render", "resolve"}

DiscoveryPasses == <<"landing", "transit">>
ManagedPasses   == <<"landing", "transit", "full">>
Passes          == {"landing", "transit", "full"}

\* A document is known by the request that saved it and the part it plays:
\* an id is 128 random bits and is never issued twice.
Roles     == {"template", "landing", "transit"}
Documents == Requests \X Roles

Failures ==
  {"template",      \* TEMPLATE_CONFIG_UNAVAILABLE, or a stage1_field error on config
   "landing_fetch", "transit_fetch",   \* source_fetch_failed
   "unavailable",   \* any other SUBCONVERTER_UNAVAILABLE
   "refused",       \* SUBCONVERTER_UNAVAILABLE: no slot
   "conflict",      \* a code of isRestoreConflictCode
   "invalid"}       \* anything else

Reply == [status : {"none", "ok", "replayable", "conflicted"} \cup Failures,
          catalog : BOOLEAN]

Init ==
  /\ pc = [r \in Requests |-> "idle"]
  /\ kind = [r \in Requests |-> "convert"]
  /\ round = [r \in Requests |-> 1]
  /\ stage = [r \in Requests |-> "discovery"]
  /\ todo = [r \in Requests |-> <<>>]
  /\ looked = [r \in Requests |-> {}]
  /\ found = [r \in Requests |-> {}]
  /\ reply = [r \in Requests |-> [status |-> "none", catalog |-> FALSE]]
  /\ store = {}
  /\ slots = 0

\* The documents the request URL of r's next pass names.
Named(r) ==
  {<<r, "template">>} \cup
    IF stage[r] = "discovery" THEN {}
    ELSE CASE Head(todo[r]) = "landing" -> {<<r, "landing">>}
           [] Head(todo[r]) = "transit" -> {<<r, "transit">>}
           [] OTHER -> {<<r, "landing">>, <<r, "transit">>}

\* release: a receive that never blocks.
Release == slots' = IF slots > 0 THEN slots - 1 ELSE 0

\* PreparedConversion.Cleanup and the deferred Deletes of RenderManagedPass3.
Cleanup(r) == store' = store \ ({r} \X Roles)

Answer(r, status, catalog) ==
  /\ pc' = [pc EXCEPT ![r] = "idle"]
  /\ reply' = [reply EXCEPT ![r] = [status |-> status, catalog |-> catalog]]
  /\ UNCHANGED round

\* ResolveURLFromSource: failures of the first run that are answered with 200
\* and a read-only restore.
Downgraded == {"template", "landing_fetch", "transit_fetch", "conflict"}

\* The pipeline run of r ends without a result.
Abort(r, why) ==
  /\ CASE kind[r] # "resolve" -> Answer(r, why, FALSE)
       [] kind[r] = "resolve" /\ round[r] = 1 ->
            Answer(r, IF why \in Downgraded THEN "conflicted" ELSE why, FALSE)
       [] OTHER -> Answer(r, "replayable", FALSE)
  /\ UNCHANGED <<kind, stage>>
  /\ todo' = [todo EXCEPT ![r] = <<>>]
  /\ looked' = [looked EXCEPT ![r] = {}]
  /\ found' = [found EXCEPT ![r] = {}]

\* It ends with one; a resolve runs the pipeline again for the catalog.
Succeed(r) ==
  /\ IF kind[r] = "resolve" /\ round[r] = 1
       THEN /\ pc' = [pc EXCEPT ![r] = "prepare"]
            /\ round' = [round EXCEPT ![r] = 2]
            /\ UNCHANGED reply
       ELSE Answer(r, IF kind[r] = "resolve" THEN "replayable" ELSE "ok", kind[r] # "render")
  /\ UNCHANGED <<kind, stage, todo, looked, found>>

-----------------------------------------------------------------------------
(* PrepareConversion *)

Arrive(r, k) ==
  /\ pc[r] = "idle"
  /\ pc' = [pc EXCEPT ![r] = "prepare"]
  /\ kind' = [kind EXCEPT ![r] = k]
  /\ round' = [round EXCEPT ![r] = 1]
  /\ reply' = [reply EXCEPT ![r] = [status |-> "none", catalog |-> FALSE]]
  /\ UNCHANGED <<stage, todo, looked, found, store, slots>>

\* The input is over a limit, or its template is not to be had.
PrepareFails(r) ==
  /\ pc[r] = "prepare"
  /\ \E why \in {"invalid", "template"} : Abort(r, why)
  /\ UNCHANGED <<store, slots>>

Prepare(r) ==
  /\ pc[r] = "prepare"
  /\ store' = store \cup {<<r, "template">>}
  /\ pc' = [pc EXCEPT ![r] = "pass"]
  /\ stage' = [stage EXCEPT ![r] = "discovery"]
  /\ todo' = [todo EXCEPT ![r] = DiscoveryPasses]
  /\ UNCHANGED <<kind, round, looked, found, reply, slots>>

-----------------------------------------------------------------------------
(* executePass *)

\* A bug: one slot too many.
Acquire_OffByOne(r) ==
  /\ pc[r] = "pass" /\ slots <= MaxInFlight
  /\ slots' = slots + 1
  /\ pc' = [pc EXCEPT ![r] = "upstream"]
  /\ UNCHANGED <<kind, round, stage, todo, looked, found, reply, store>>

Acquire(r) ==
  /\ pc[r] = "pass" /\ slots < MaxInFlight
  /\ slots' = slots + 1
  /\ pc' = [pc EXCEPT ![r] = "upstream"]
  /\ UNCHANGED <<kind, round, stage, todo, looked, found, reply, store>>

\* A bug: the pass waits for a slot.
Refused_Waits(r) == FALSE /\ Cleanup(r) /\ UNCHANGED <<request, slots>>

\* acquire finds the channel full: no queue.
Refused(r) ==
  /\ pc[r] = "pass" /\ slots = MaxInFlight
  /\ Abort(r, "refused")
  /\ Cleanup(r)
  /\ UNCHANGED slots

\* The upstream calls back for a document: handleManagedTemplate loads it or
\* answers 404.
UpstreamLoads(r, d) ==
  /\ pc[r] = "upstream"
  /\ d \in Named(r) \ looked[r]
  /\ looked' = [looked EXCEPT ![r] = @ \cup {d}]
  /\ found' = [found EXCEPT ![r] = @ \cup ({d} \cap store)]
  /\ UNCHANGED <<pc, kind, round, stage, todo, reply, store, slots>>

\* A 2xx answer with a body, which the upstream can only give after it has
\* asked for every document (it may give one although a document was missing).
PassAnswers(r) ==
  /\ pc[r] = "upstream" /\ looked[r] = Named(r)
  /\ Release
  /\ todo' = [todo EXCEPT ![r] = Tail(@)]
  /\ looked' = [looked EXCEPT ![r] = {}]
  /\ found' = [found EXCEPT ![r] = {}]
  /\ pc' = [pc EXCEPT ![r] =
              IF Len(todo[r]) > 1 THEN "pass"
              ELSE IF stage[r] = "discovery" THEN "discovered" ELSE "rendered"]
  /\ UNCHANGED <<kind, round, stage, reply, store>>

\* Unreachable, an error status, an empty body, the timeout, or the client is
\* gone; an error status or a timeout blames the source of the pass.
PassFails(r) ==
  /\ pc[r] = "upstream"
  /\ \E why \in {"unavailable"} \cup
       (CASE Head(todo[r]) = "landing" -> {"landing_fetch"}
          [] Head(todo[r]) = "transit" -> {"transit_fetch"}
          [] OTHER -> {}) : Abort(r, why)
  /\ Release
  /\ Cleanup(r)

-----------------------------------------------------------------------------
(* prepareManagedPass3Render after discovery, and BuildStage1ConvertResponse *)

\* A bug: this error path forgets the template.
DiscoveryFails_KeepsTemplate(r) ==
  /\ pc[r] = "discovered"
  /\ \E why \in {"unavailable", "conflict", "invalid"} : Abort(r, why)
  /\ UNCHANGED <<store, slots>>

\* The results do not parse, or (past stage 1) the snapshot does not fit them.
DiscoveryFails(r) ==
  /\ pc[r] = "discovered"
  /\ \E why \in {"unavailable", "invalid"} \cup (IF kind[r] = "convert" THEN {} ELSE {"conflict"}) :
       Abort(r, why)
  /\ Cleanup(r)
  /\ UNCHANGED slots

Converted(r) ==
  /\ pc[r] = "discovered" /\ kind[r] = "convert"
  /\ Succeed(r)
  /\ Cleanup(r)
  /\ UNCHANGED slots

\* A bug: the helper cleans up when it returns, before the managed passes.
HostManaged_CleansUp(r) ==
  /\ pc[r] = "discovered" /\ kind[r] # "convert"
  /\ store' = (store \ {<<r, "template">>}) \cup {<<r, "landing">>, <<r, "transit">>}
  /\ pc' = [pc EXCEPT ![r] = "pass"]
  /\ stage' = [stage EXCEPT ![r] = "managed"]
  /\ todo' = [todo EXCEPT ![r] = ManagedPasses]
  /\ UNCHANGED <<kind, round, looked, found, reply, slots>>

\* RenderManagedPass3 saves both managed documents and runs three passes.
HostManaged(r) ==
  /\ pc[r] = "discovered" /\ kind[r] # "convert"
  /\ store' = store \cup {<<r, "landing">>, <<r, "transit">>}
  /\ pc' = [pc EXCEPT ![r] = "pass"]
  /\ stage' = [stage EXCEPT ![r] = "managed"]
  /\ todo' = [todo EXCEPT ![r] = ManagedPasses]
  /\ UNCHANGED <<kind, round, looked, found, reply, slots>>

\* It returns: its deferred Deletes run, the template stays.
RenderReturns(r) ==
  /\ pc[r] = "rendered"
  /\ store' = store \ {<<r, "landing">>, <<r, "transit">>}
  /\ pc' = [pc EXCEPT ![r] = "post"]
  /\ UNCHANGED <<kind, round, stage, todo, looked, found, reply, slots>>

\* renderManagedPass3CompleteConfig, or BuildStage2Bundle in the second run.
PostProcess(r) ==
  /\ pc[r] = "post"
  /\ Succeed(r) \/ \E why \in {"conflict", "invalid"} : Abort(r, why)
  /\ Cleanup(r)
  /\ UNCHANGED slots

-----------------------------------------------------------------------------

Step(r) ==
  \/ PrepareFails(r) \/ Prepare(r)
  \/ Acquire(r) \/ Refused(r)
  \/ PassAnswers(r) \/ PassFails(r)
  \/ DiscoveryFails(r) \/ Converted(r) \/ HostManaged(r)
  \/ RenderReturns(r) \/ PostProcess(r)

Next ==
  \/ \E r \in Requests, k \in Kinds : Arrive(r, k)
  \/ \E r \in Requests : Step(r)
  \/ \E r \in Requests, d \in Documents : UpstreamLoads(r, d)

Spec == Init /\ [][Next]_vars

\* Goroutines run, and the timeout of a pass ends it whatever the upstream does.
FairSpec == Spec /\ \A r \in Requests : WF_vars(Step(r))

-----------------------------------------------------------------------------
(* Properties *)

\* Every variable stays within the types of the program.
TypeOK ==
  /\ pc \in [Requests -> {"idle", "prepare", "pass", "upstream", "discovered", "rendered", "post"}]
  /\ kind \in [Requests -> Kinds]
  /\ round \in [Requests -> {1, 2}]
  /\ stage \in [Requests -> {"discovery", "managed"}]
  /\ todo \in [Requests -> Seq(Passes)]
  /\ looked \in [Requests -> SUBSET Documents]
  /\ found \in [Requests -> SUBSET Documents]
  /\ reply \in [Requests -> Reply]
  /\ store \in SUBSET Documents
  /\ slots \in 0 .. MaxInFlight

\* The upstream never asks in vain: as long as a pass is under way, every
\* document its URL names can be loaded (Cleanup and the deferred Deletes run
\* after the last pass that needs them).
NoDocumentMissed ==
  \A r \in Requests : pc[r] = "upstream" => looked[r] \subseteq found[r]

\* A request that has ended leaves nothing behind: no document in the store,
\* and a slot is taken only by a pass that is under way (every error path of
\* prepareManagedPass3Render calls Cleanup; release is deferred).
UnderWay == {r \in Requests : pc[r] = "upstream"}

NothingLeftBehind ==
  /\ \A d \in store : pc[d[1]] \notin {"idle", "prepare"}
  /\ slots = Cardinality(UnderWay)

\* A pass is refused only while MaxInFlight others are under way
\* (05-tech-stack.md:60-61).
RefusedOnlyWhenFull ==
  [][\A r \in Requests :
       reply[r].status = "none" /\ reply'[r].status = "refused"
         => Cardinality(UnderWay) = MaxInFlight]_vars

\* Every request ends: no pass queues for a slot, and no upstream answer is
\* waited for beyond the timeout (05-tech-stack.md:59-61).
EveryRequestEnds == \A r \in Requests : pc[r] # "idle" ~> pc[r] = "idle"

\* What 03-backend-api.md:631 says of a restored state: replayable means it can
\* be edited and generated from at once, which takes the catalog of candidates.
ReplayableIsEditable ==
  \A r \in Requests : reply[r].status = "replayable" => reply[r].catalog

=============================================================================
