------------------------- MODULE CalibrationRegistry -------------------------
(* The registry of calibration artifacts in the live warehouse               *)
(* (calibration/registry.py over orchestration/calibration_store.py): an     *)
(* artifact is registered, validated, approved and promoted to the champion  *)
(* of its compatibility key; it may be invalidated or retired at any time;   *)
(* prediction resolves the champion again on every use.  Two callers: a      *)
(* training run that registers a challenger (challenger_registration.py) and *)
(* the operator's command that installs the certified calibrator of the      *)
(* release and promotes it (production_install.py).                          *)
(*                                                                           *)
(* A call runs alone: the install command holds the writer lock, and so, by  *)
(* the discipline of that lock, must everybody else who writes these tables. *)
(* But it writes one row at a time and can be killed between two of them;    *)
(* the next call finds what it left.  A row is never taken away.             *)
EXTENDS Integers, Sequences, FiniteSets

CONSTANTS
    Offered,        \* artifacts: [id, science, key, object, payload]
    Evidence,       \* validations: [id, artifact, approval, promotion]
    Certified,      \* the shipped pin: [artifact, validation]
    Enhanced,       \* the key of the profile that has no calibrator
    Troubles,       \* what may be wrong with the shipped bundle
    MaxTime, MaxCalls, MaxKills

ASSUME CertifiedShipped ==
    Certified.artifact \in Offered /\ Certified.validation \in Evidence
\* The scientific content hash covers every column that is ever compared.
ASSUME ScienceIsContent ==
    \A a, b \in Offered : a.id = b.id /\ a.science = b.science => a = b
ASSUME BoundsAreNatural == MaxTime \in Nat /\ MaxCalls \in Nat /\ MaxKills \in Nat

VARIABLES
    payloads,       \* object key -> bytes, or "missing"
    artifacts, validations, events, champions,
    bundle,         \* what is wrong with the shipped bundle, or "none"
    call,           \* [artifact, validation, at] of the call under way
    todo,           \* its remaining writes
    report,         \* how the last install ended
    now, calls, kills

vars == <<payloads, artifacts, validations, events, champions, bundle, call, todo,
          report, now, calls, kills>>
tables == <<artifacts, validations, events, champions>>

Ids == {a.id : a \in Offered}
Keys == {a.key : a \in Offered} \cup {Enhanced}
Objects == {a.object : a \in Offered}

Event(type, id, validation, at) ==
    [type |-> type, artifact |-> id, validation |-> validation, at |-> at]

(***************************************************************************)
(* Reading the tables                                                      *)
(***************************************************************************)
LoadArtifact(id) == {a \in artifacts : a.id = id}
LoadValidation(id) == {v \in validations : v.id = id}
EventsOf(id) == {e \in events : e.artifact = id}
LoadChampion(key) == {c \in champions : c.key = key}

EventTypes == {"REGISTERED", "APPROVED", "PROMOTED", "INVALIDATED", "RETIRED"}
TerminalTypes == {"INVALIDATED", "RETIRED"}

Terminal(id) == \E e \in EventsOf(id) : e.type \in TerminalTypes

\* Approved, and not closed since the latest approval.
HasApproved(id) ==
    \E e \in EventsOf(id) :
        /\ e.type = "APPROVED"
        /\ \A t \in EventsOf(id) : t.type \in TerminalTypes => t.at < e.at

\* The stored bytes are those the artifact was registered with.
PayloadIntact(a) == payloads[a.object] = a.payload

\* A validation of this artifact with what a decision asks of it.
Validates(id, vid, gate) ==
    \E v \in LoadValidation(vid) : v.artifact = id /\ v[gate]

\* resolve_calibration_champion: the ids the key resolves to, at most one.
ResolveWith(key, intact(_)) ==
    {a.id : a \in {b \in artifacts :
        /\ \E c \in LoadChampion(key) :
               /\ c.artifact = b.id
               /\ c.via \in EventsOf(b.id) /\ c.via.type = "PROMOTED"
               /\ Validates(b.id, c.via.validation, "promotion")
        /\ ~Terminal(b.id) /\ HasApproved(b.id)
        /\ b.key = key
        /\ intact(b)}}
Resolve(key) == ResolveWith(key, PayloadIntact)

(***************************************************************************)
(* Writing them: keep="first" everywhere but for the champion pointer      *)
(***************************************************************************)
InsertArtifact(a) ==
    artifacts' = IF LoadArtifact(a.id) = {} THEN artifacts \cup {a} ELSE artifacts
InsertValidation(v) ==
    validations' = IF LoadValidation(v.id) = {} THEN validations \cup {v}
                   ELSE validations
InsertEvent(e) == events' = events \cup {e}
\* Mutant: keep="first".
KeepChampion(c) ==
    champions' = IF LoadChampion(c.key) = {} THEN champions \cup {c} ELSE champions
UpsertChampion(c) ==
    champions' = (champions \ LoadChampion(c.key)) \cup {c}

NoCall == [artifact |-> Certified.artifact, validation |-> Certified.validation, at |-> 0]

Init ==
    /\ payloads = [o \in Objects |->
                      IF o = Certified.artifact.object THEN Certified.artifact.payload
                      ELSE "missing"]
    /\ artifacts = {} /\ validations = {} /\ events = {} /\ champions = {}
    /\ bundle \in {"none"} \cup Troubles
    /\ call = NoCall
    /\ todo = <<>>
    /\ report = "none"
    /\ now = 0 /\ calls = 0 /\ kills = 0

(***************************************************************************)
(* Calls                                                                   *)
(***************************************************************************)
Begin(a, v, writes) ==
    /\ todo = <<>> /\ calls < MaxCalls
    /\ calls' = calls + 1
    /\ todo' = writes
    /\ call' = IF writes = <<>> THEN NoCall
               ELSE [artifact |-> a, validation |-> v, at |-> now]
    /\ UNCHANGED <<payloads, tables, bundle, now, kills>>

\* The payload first, then the artifact, then its validation.
RegisterChallenger(a, v) ==
    /\ v.artifact = a.id
    /\ Begin(a, v, <<"put payload", "register", "record validation">>)
    /\ UNCHANGED report

Approve(a, v) == Begin(a, v, <<"approve">>) /\ UNCHANGED report
Promote(a, v) == Begin(a, v, <<"promote">>) /\ UNCHANGED report
Invalidate(a) ==
    Begin(a, Certified.validation, <<"invalidate">>) /\ UNCHANGED report
Retire(a) == Begin(a, Certified.validation, <<"retire">>) /\ UNCHANGED report

\* The shipped rows hash to the pin, the payload to the pinned bytes, and they
\* describe the pinned artifact and one validation with every promotion gate.
BundleVerifies ==
    bundle = "none" /\ PayloadIntact(Certified.artifact)

Install ==
    /\ Begin(Certified.artifact, Certified.validation,
             IF BundleVerifies THEN <<"install">> ELSE <<>>)
    /\ report' = IF BundleVerifies THEN "running" ELSE "refused"

(***************************************************************************)
(* The writes of a call, in order                                          *)
(***************************************************************************)
Doing(write) == todo # <<>> /\ Head(todo) = write
Done ==
    /\ todo' = Tail(todo)
    /\ call' = IF Tail(todo) = <<>> THEN NoCall ELSE call
\* An exception ends the call; an install reports it.
Refuse ==
    /\ todo' = <<>> /\ call' = NoCall
    /\ report' = IF report = "running" THEN "failed" ELSE report
    /\ UNCHANGED tables

Frame == UNCHANGED <<bundle, now, calls, kills>>

\* The same bytes may be stored again, other bytes never.
PutPayload ==
    /\ Doing("put payload") /\ Frame
    /\ LET a == call.artifact
       IN  IF payloads[a.object] \in {"missing", a.payload}
           THEN /\ payloads' = [payloads EXCEPT ![a.object] = a.payload]
                /\ Done /\ UNCHANGED <<report, tables>>
           ELSE Refuse /\ UNCHANGED payloads

\* An identical registration is a no-op, a different one a conflict.
Register ==
    /\ Doing("register") /\ Frame /\ UNCHANGED payloads
    /\ LET a == call.artifact
       IN  \/ /\ LoadArtifact(a.id) = {}
              /\ InsertArtifact(a)
              /\ todo' = [todo EXCEPT ![1] = "log registration"]
              /\ UNCHANGED <<call, report, validations, events, champions>>
           \/ /\ \E stored \in LoadArtifact(a.id) : stored.science = a.science
              /\ Done /\ UNCHANGED <<report, tables>>
           \/ /\ \E stored \in LoadArtifact(a.id) : stored.science # a.science
              /\ Refuse

LogRegistration ==
    /\ Doing("log registration") /\ Frame /\ Done
    /\ InsertEvent(Event("REGISTERED", call.artifact.id, "none", call.at))
    /\ UNCHANGED <<payloads, report, artifacts, validations, champions>>

RecordValidation ==
    /\ Doing("record validation") /\ Frame /\ UNCHANGED payloads
    /\ IF LoadArtifact(call.validation.artifact) # {}
       THEN /\ InsertValidation(call.validation) /\ Done
            /\ UNCHANGED <<report, artifacts, events, champions>>
       ELSE Refuse

\* The certified validation row, unless it is stored; another one under its id
\* is refused.
ShipValidation ==
    /\ Doing("ship validation") /\ Frame /\ UNCHANGED payloads
    /\ IF LoadValidation(call.validation.id) \subseteq {call.validation}
       THEN /\ InsertValidation(call.validation) /\ Done
            /\ UNCHANGED <<report, artifacts, events, champions>>
       ELSE Refuse

\* An artifact that is not closed, with a validation of its own that passes.
Approvable(id, vid) ==
    LoadArtifact(id) # {} /\ ~Terminal(id) /\ Validates(id, vid, "approval")

RecordApproval ==
    /\ Doing("approve") /\ Frame /\ UNCHANGED payloads
    /\ LET id == call.artifact.id
           vid == call.validation.id
       IN  IF Approvable(id, vid)
           THEN /\ InsertEvent(Event("APPROVED", id, vid, call.at)) /\ Done
                /\ UNCHANGED <<report, artifacts, validations, champions>>
           ELSE Refuse

\* Mutant: whoever may be approved may be promoted.
PromotableAnyway(id, vid) == Approvable(id, vid)

Promotable(id, vid) ==
    /\ LoadArtifact(id) # {} /\ ~Terminal(id) /\ HasApproved(id)
    /\ Validates(id, vid, "promotion")

Promotion == Event("PROMOTED", call.artifact.id, call.validation.id, call.at)

\* Mutant: the pointer is moved before the promotion is recorded.
PointFirst ==
    /\ Doing("promote") /\ Frame /\ UNCHANGED payloads
    /\ IF Promotable(call.artifact.id, call.validation.id)
       THEN /\ \E a \in LoadArtifact(call.artifact.id) :
                   UpsertChampion([key |-> a.key, artifact |-> a.id, via |-> Promotion])
            /\ todo' = [todo EXCEPT ![1] = "point"]
            /\ UNCHANGED <<call, report, artifacts, validations, events>>
       ELSE Refuse

\* The event first, then the pointer that names it.
RecordPromotion ==
    /\ Doing("promote") /\ Frame /\ UNCHANGED payloads
    /\ IF Promotable(call.artifact.id, call.validation.id)
       THEN /\ InsertEvent(Promotion)
            /\ todo' = [todo EXCEPT ![1] = "point"]
            /\ UNCHANGED <<call, report, artifacts, validations, champions>>
       ELSE Refuse

\* The stored artifact, not the caller's, names the key.
PointChampion ==
    /\ Doing("point") /\ Frame /\ Done
    /\ \E a \in LoadArtifact(call.artifact.id) :
           UpsertChampion([key |-> a.key, artifact |-> a.id, via |-> Promotion])
    /\ UNCHANGED <<payloads, report, artifacts, validations, events>>

Close(write, type) ==
    /\ Doing(write) /\ Frame /\ UNCHANGED payloads
    /\ IF LoadArtifact(call.artifact.id) # {}
       THEN /\ InsertEvent(Event(type, call.artifact.id, "none", call.at)) /\ Done
            /\ UNCHANGED <<report, artifacts, validations, champions>>
       ELSE Refuse

\* Under the lock: what is already the champion is left as it is.
PlanInstall ==
    /\ Doing("install") /\ Frame
    /\ todo' = IF Resolve(call.artifact.key) = {call.artifact.id} THEN <<"verify">>
               ELSE <<"register", "ship validation", "approve", "promote", "verify">>
    /\ UNCHANGED <<payloads, tables, call, report>>

\* The registry must now resolve this artifact, and nothing for the profile that
\* has no certified calibrator.
VerifyInstall ==
    /\ Doing("verify") /\ Frame /\ Done
    /\ report' = IF /\ Resolve(call.artifact.key) = {call.artifact.id}
                    /\ Resolve(Enhanced) = {}
                 THEN "installed" ELSE "failed"
    /\ UNCHANGED <<payloads, tables>>

(***************************************************************************)
(* The environment                                                         *)
(***************************************************************************)
Kill ==
    /\ todo # <<>> /\ kills < MaxKills
    /\ todo' = <<>> /\ call' = NoCall /\ kills' = kills + 1
    /\ report' = IF report = "running" THEN "killed" ELSE report
    /\ UNCHANGED <<payloads, tables, bundle, now, calls>>

\* Time passes between calls; two calls may share an instant.
Tick ==
    /\ todo = <<>> /\ now < MaxTime
    /\ now' = now + 1
    /\ UNCHANGED <<payloads, tables, bundle, call, todo, report, calls, kills>>

\* A stored payload is damaged.
Damage(o) ==
    /\ todo = <<>> /\ payloads[o] # "missing"
    /\ payloads' = [payloads EXCEPT ![o] = "damaged"]
    /\ UNCHANGED <<tables, bundle, call, todo, report, now, calls, kills>>

Calls ==
    \/ \E a \in Offered, v \in Evidence :
           RegisterChallenger(a, v) \/ Approve(a, v) \/ Promote(a, v)
    \/ \E a \in Offered : Invalidate(a) \/ Retire(a)
    \/ Install

Writes ==
    \/ PutPayload \/ Register \/ LogRegistration \/ RecordValidation \/ ShipValidation
    \/ RecordApproval \/ RecordPromotion \/ PointChampion
    \/ Close("invalidate", "INVALIDATED") \/ Close("retire", "RETIRED")
    \/ PlanInstall \/ VerifyInstall

Next == Calls \/ Writes \/ Kill \/ Tick \/ \E o \in Objects : Damage(o)

Spec == Init /\ [][Next]_vars

(***************************************************************************)
(* Properties                                                              *)
(***************************************************************************)
Bytes == {a.payload : a \in Offered} \cup {"missing", "damaged"}
EventRows ==
    [type : EventTypes, artifact : Ids, validation : {v.id : v \in Evidence} \cup {"none"},
     at : 0..MaxTime]
Steps == {"put payload", "register", "log registration", "record validation",
          "ship validation", "approve", "promote", "point", "invalidate", "retire",
          "install", "verify"}

\* The types of the variables; one row per primary key.
TypeOK ==
    /\ payloads \in [Objects -> Bytes]
    /\ artifacts \subseteq Offered /\ validations \subseteq Evidence
    /\ events \subseteq EventRows
    /\ champions \subseteq [key : Keys, artifact : Ids, via : EventRows]
    /\ todo \in Seq(Steps)
    /\ \A a, b \in artifacts : a.id = b.id => a = b
    /\ \A v, w \in validations : v.id = w.id => v = w
    /\ \A c, d \in champions : c.key = d.key => c = d

\* Every approval and promotion in the history rests on a stored validation of
\* the same artifact that passes what was asked of it, and a promotion on an
\* earlier approval, though the rows are written by calls that may be killed
\* half way and the validation may be offered again with other results
\* (registry.py, approve_calibration_artifact, promote_calibration_champion).
EventsAreBacked ==
    \A e \in events :
        /\ LoadArtifact(e.artifact) # {}
        /\ e.type = "APPROVED" => Validates(e.artifact, e.validation, "approval")
        /\ e.type = "PROMOTED" =>
               /\ Validates(e.artifact, e.validation, "promotion")
               /\ \E p \in EventsOf(e.artifact) : p.type = "APPROVED" /\ p.at <= e.at

\* A champion pointer always names a recorded promotion of an artifact of its
\* own key: a promotion killed half way leaves the previous champion, never a
\* pointer without its event (registry.py, promote_calibration_champion).
PointerIsRecorded ==
    \A c \in champions :
        /\ c.via \in events /\ c.via.type = "PROMOTED" /\ c.via.artifact = c.artifact
        /\ \E a \in LoadArtifact(c.artifact) : a.key = c.key

\* An install that got as far as its own verification does resolve: after any
\* history of killed installs, rival promotions and re-registrations only a
\* champion of the other profile or a damaged payload can fail it there
\* (production_install.install_and_promote: "Idempotent").
InstallResolves ==
    Doing("verify") =>
        \/ Resolve(call.artifact.key) = {call.artifact.id}
        \/ ~PayloadIntact(call.artifact)
=============================================================================
