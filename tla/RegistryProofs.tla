--------------------------- MODULE RegistryProofs ---------------------------
(***************************************************************************)
(* What the calibration registry promises whatever call is killed between  *)
(* which two of its writes: the history rests on stored validations        *)
(* (EventsAreBacked), a champion pointer on a recorded promotion           *)
(* (PointerIsRecorded), and an install that reaches its own verification   *)
(* resolves (InstallResolves).  No call overlaps another, so what a call   *)
(* established before its last write is still so at that write; the proofs *)
(* carry it along the writes that are left (todo).                         *)
(***************************************************************************)
EXTENDS CalibrationRegistry, TLAPS

\* What may be left to write, by the call it is left of.
Registration ==
    {<<"put payload", "register", "record validation">>, <<"register", "record validation">>,
     <<"log registration", "record validation">>, <<"record validation">>}
Decision == {<<"approve">>, <<"promote">>, <<"point">>, <<"invalidate">>, <<"retire">>}
Installation ==
    {<<"install">>, <<"register", "ship validation", "approve", "promote", "verify">>,
     <<"log registration", "ship validation", "approve", "promote", "verify">>,
     <<"ship validation", "approve", "promote", "verify">>,
     <<"approve", "promote", "verify">>, <<"promote", "verify">>, <<"point", "verify">>,
     <<"verify">>}
Plans == {<<>>} \cup Registration \cup Decision \cup Installation

\* An installation whose artifact is stored, and a registration to be logged.
Registered ==
    {<<"log registration", "record validation">>,
     <<"log registration", "ship validation", "approve", "promote", "verify">>,
     <<"ship validation", "approve", "promote", "verify">>,
     <<"approve", "promote", "verify">>, <<"promote", "verify">>, <<"point", "verify">>}

Rows ==
    /\ artifacts \subseteq Offered /\ validations \subseteq Evidence
    /\ \A a, b \in artifacts : a.id = b.id => a = b
    /\ \A v, w \in validations : v.id = w.id => v = w
    /\ \A c, d \in champions : c.key = d.key => c = d

Moments == now \in Nat /\ \A e \in events : e.at \in Nat /\ e.at <= now

Calling ==
    /\ todo \in Plans
    /\ todo # <<>> => call.at = now
    /\ call.artifact \in Offered /\ call.validation \in Evidence

\* What the call under way has established.
Established ==
    /\ todo \in Registered => call.artifact \in artifacts
    /\ Doing("point") => /\ Promotable(call.artifact.id, call.validation.id)
                         /\ Promotion \in events

RegistryInv ==
    /\ Rows /\ Moments /\ Calling /\ Established
    /\ EventsAreBacked /\ PointerIsRecorded /\ InstallResolves

-----------------------------------------------------------------------------
(* Sequences of up to five writes. *)

LEMMA Lead ==
    ASSUME NEW a, NEW b, NEW c, NEW d, NEW e
    PROVE  /\ Head(<<a>>) = a /\ <<a>> # <<>>
           /\ Head(<<a, b>>) = a /\ <<a, b>> # <<>>
           /\ Head(<<a, b, c>>) = a /\ <<a, b, c>> # <<>>
           /\ Head(<<a, b, c, d>>) = a /\ <<a, b, c, d>> # <<>>
           /\ Head(<<a, b, c, d, e>>) = a /\ <<a, b, c, d, e>> # <<>>
  OBVIOUS

LEMMA Rest1 == ASSUME NEW a PROVE Tail(<<a>>) = <<>>
  OBVIOUS
LEMMA Rest2 == ASSUME NEW a, NEW b PROVE Tail(<<a, b>>) = <<b>>
  OBVIOUS
LEMMA Rest3 == ASSUME NEW a, NEW b, NEW c PROVE Tail(<<a, b, c>>) = <<b, c>>
  OBVIOUS
LEMMA Rest4 ==
    ASSUME NEW a, NEW b, NEW c, NEW d PROVE Tail(<<a, b, c, d>>) = <<b, c, d>>
  OBVIOUS
LEMMA Rest5 ==
    ASSUME NEW a, NEW b, NEW c, NEW d, NEW e
    PROVE  Tail(<<a, b, c, d, e>>) = <<b, c, d, e>>
  OBVIOUS

LEMMA First1 == ASSUME NEW a, NEW x PROVE [<<a>> EXCEPT ![1] = x] = <<x>>
  OBVIOUS
LEMMA First2 == ASSUME NEW a, NEW b, NEW x PROVE [<<a, b>> EXCEPT ![1] = x] = <<x, b>>
  OBVIOUS
LEMMA First5 ==
    ASSUME NEW a, NEW b, NEW c, NEW d, NEW e, NEW x
    PROVE  [<<a, b, c, d, e>> EXCEPT ![1] = x] = <<x, b, c, d, e>>
  OBVIOUS

-----------------------------------------------------------------------------
(* A write under way says what is left. *)

LEMMA Heads ==
    /\ Head(<<"put payload", "register", "record validation">>) = "put payload"
    /\ Head(<<"register", "record validation">>) = "register"
    /\ Head(<<"log registration", "record validation">>) = "log registration"
    /\ Head(<<"record validation">>) = "record validation"
    /\ Head(<<"approve">>) = "approve" /\ Head(<<"promote">>) = "promote"
    /\ Head(<<"point">>) = "point" /\ Head(<<"install">>) = "install"
    /\ Head(<<"invalidate">>) = "invalidate" /\ Head(<<"retire">>) = "retire"
    /\ Head(<<"register", "ship validation", "approve", "promote", "verify">>) = "register"
    /\ Head(<<"log registration", "ship validation", "approve", "promote", "verify">>)
           = "log registration"
    /\ Head(<<"ship validation", "approve", "promote", "verify">>) = "ship validation"
    /\ Head(<<"approve", "promote", "verify">>) = "approve"
    /\ Head(<<"promote", "verify">>) = "promote" /\ Head(<<"point", "verify">>) = "point"
    /\ Head(<<"verify">>) = "verify"
  OBVIOUS

LEMMA Tails ==
    /\ Tail(<<"put payload", "register", "record validation">>)
           = <<"register", "record validation">>
    /\ Tail(<<"register", "record validation">>) = <<"record validation">>
    /\ Tail(<<"log registration", "record validation">>) = <<"record validation">>
    /\ Tail(<<"register", "ship validation", "approve", "promote", "verify">>)
           = <<"ship validation", "approve", "promote", "verify">>
    /\ Tail(<<"log registration", "ship validation", "approve", "promote", "verify">>)
           = <<"ship validation", "approve", "promote", "verify">>
    /\ Tail(<<"ship validation", "approve", "promote", "verify">>)
           = <<"approve", "promote", "verify">>
    /\ Tail(<<"approve", "promote", "verify">>) = <<"promote", "verify">>
    /\ Tail(<<"point", "verify">>) = <<"verify">>
    /\ \A a : Tail(<<a>>) = <<>>
  <1>1. Tail(<<"put payload", "register", "record validation">>)
            = <<"register", "record validation">>
        /\ Tail(<<"approve", "promote", "verify">>) = <<"promote", "verify">>
    BY Rest3, Zenon
  <1>2. /\ Tail(<<"register", "record validation">>) = <<"record validation">>
        /\ Tail(<<"log registration", "record validation">>) = <<"record validation">>
        /\ Tail(<<"point", "verify">>) = <<"verify">>
    BY Rest2, Zenon
  <1>3. /\ Tail(<<"register", "ship validation", "approve", "promote", "verify">>)
               = <<"ship validation", "approve", "promote", "verify">>
        /\ Tail(<<"log registration", "ship validation", "approve", "promote", "verify">>)
               = <<"ship validation", "approve", "promote", "verify">>
    <2>. DEFINE Drops(a, b, c, d, e) == Tail(<<a, b, c, d, e>>) = <<b, c, d, e>>
    <2>1. \A a, b, c, d, e : Drops(a, b, c, d, e)
      BY Rest5
    <2>. HIDE DEF Drops
    <2>2. /\ Drops("register", "ship validation", "approve", "promote", "verify")
          /\ Drops("log registration", "ship validation", "approve", "promote", "verify")
      BY <2>1
    <2>. QED
      BY <2>2 DEF Drops
  <1>4. Tail(<<"ship validation", "approve", "promote", "verify">>)
            = <<"approve", "promote", "verify">>
    BY Rest4, Zenon
  <1>. QED
    BY <1>1, <1>2, <1>3, <1>4, Rest1, Zenon

LEMMA Replaced ==
    /\ [<<"register", "record validation">> EXCEPT ![1] = "log registration"]
           = <<"log registration", "record validation">>
    /\ [<<"register", "ship validation", "approve", "promote", "verify">>
           EXCEPT ![1] = "log registration"]
           = <<"log registration", "ship validation", "approve", "promote", "verify">>
    /\ [<<"promote">> EXCEPT ![1] = "point"] = <<"point">>
    /\ [<<"promote", "verify">> EXCEPT ![1] = "point"] = <<"point", "verify">>
  <1>1. [<<"register", "ship validation", "approve", "promote", "verify">>
            EXCEPT ![1] = "log registration"]
            = <<"log registration", "ship validation", "approve", "promote", "verify">>
    <2>. DEFINE Turns(a, b, c, d, e, x) ==
             [<<a, b, c, d, e>> EXCEPT ![1] = x] = <<x, b, c, d, e>>
    <2>1. \A a, b, c, d, e, x : Turns(a, b, c, d, e, x)
      BY First5
    <2>. HIDE DEF Turns
    <2>2. Turns("register", "ship validation", "approve", "promote", "verify",
                "log registration")
      BY <2>1
    <2>. QED
      BY <2>2 DEF Turns
  <1>2. [<<"promote">> EXCEPT ![1] = "point"] = <<"point">>
    BY First1, Zenon
  <1>3. /\ [<<"register", "record validation">> EXCEPT ![1] = "log registration"]
               = <<"log registration", "record validation">>
        /\ [<<"promote", "verify">> EXCEPT ![1] = "point"] = <<"point", "verify">>
    BY First2, Zenon
  <1>. QED
    BY <1>1, <1>2, <1>3, Zenon

LEMMA Left ==
    ASSUME todo \in Plans
    PROVE  /\ Doing("put payload") =>
                todo = <<"put payload", "register", "record validation">>
           /\ Doing("register") =>
                \/ todo = <<"register", "record validation">>
                \/ todo = <<"register", "ship validation", "approve", "promote", "verify">>
           /\ Doing("log registration") =>
                \/ todo = <<"log registration", "record validation">>
                \/ todo = <<"log registration", "ship validation", "approve", "promote",
                            "verify">>
           /\ Doing("record validation") => todo = <<"record validation">>
           /\ Doing("ship validation") =>
                todo = <<"ship validation", "approve", "promote", "verify">>
           /\ Doing("approve") =>
                todo = <<"approve">> \/ todo = <<"approve", "promote", "verify">>
           /\ Doing("promote") => todo = <<"promote">> \/ todo = <<"promote", "verify">>
           /\ Doing("point") => todo = <<"point">> \/ todo = <<"point", "verify">>
           /\ Doing("invalidate") => todo = <<"invalidate">>
           /\ Doing("retire") => todo = <<"retire">>
           /\ Doing("install") => todo = <<"install">>
           /\ Doing("verify") => todo = <<"verify">>
  <1>1. CASE todo = <<>>
    BY <1>1 DEF Doing
  <1>2. CASE todo \in Registration
    BY <1>2, Heads, Zenon DEF Doing, Registration
  <1>3. CASE todo \in Decision
    BY <1>3, Heads, Zenon DEF Doing, Decision
  <1>4. CASE todo \in Installation
    BY <1>4, Heads, Zenon DEF Doing, Installation
  <1>. QED
    BY <1>1, <1>2, <1>3, <1>4, Zenon DEF Plans

\* Plans whose next write finds nothing it depends on but their artifact's row.
Unchecked ==
    {<<>>, <<"put payload", "register", "record validation">>,
     <<"register", "record validation">>, <<"log registration", "record validation">>,
     <<"record validation">>,
     <<"approve">>, <<"promote">>, <<"invalidate">>, <<"retire">>, <<"install">>,
     <<"register", "ship validation", "approve", "promote", "verify">>,
     <<"log registration", "ship validation", "approve", "promote", "verify">>,
     <<"ship validation", "approve", "promote", "verify">>,
     <<"approve", "promote", "verify">>, <<"promote", "verify">>}

LEMMA UncheckedHead ==
    ASSUME NEW s \in Unchecked
    PROVE  s \in Plans /\ ~(s # <<>> /\ Head(s) = "point") /\ ~(s # <<>> /\ Head(s) = "verify")
  <1>1. s \in Plans
    BY Zenon DEF Unchecked, Plans, Registration, Decision, Installation
  <1>. QED
    BY <1>1, Heads, Zenon DEF Unchecked
-----------------------------------------------------------------------------
(* Rows are only added, but for the champion pointer. *)

Backed(e) ==
    /\ LoadArtifact(e.artifact) # {}
    /\ e.type = "APPROVED" => Validates(e.artifact, e.validation, "approval")
    /\ e.type = "PROMOTED" =>
           /\ Validates(e.artifact, e.validation, "promotion")
           /\ \E p \in EventsOf(e.artifact) : p.type = "APPROVED" /\ p.at <= e.at

Grow ==
    artifacts \subseteq artifacts' /\ validations \subseteq validations' /\ events \subseteq events'

LEMMA BackedStays ==
    ASSUME Grow, NEW e, Backed(e)
    PROVE  Backed(e)'
  BY DEF Grow, Backed, LoadArtifact, LoadValidation, EventsOf, Validates

LEMMA HistoryGrows ==
    ASSUME EventsAreBacked, Grow, \A e \in events' \ events : Backed(e)'
    PROVE  EventsAreBacked'
  <1>1. \A e \in events' : Backed(e)'
    BY BackedStays DEF EventsAreBacked, Backed
  <1>. QED
    BY <1>1 DEF EventsAreBacked, Backed

LEMMA PointersStay ==
    ASSUME PointerIsRecorded, Grow, UNCHANGED champions
    PROVE  PointerIsRecorded'
  BY DEF PointerIsRecorded, Grow, LoadArtifact

\* What stays of the invariant when a step adds rows, whatever it does to todo.
Stored == Rows /\ Moments /\ EventsAreBacked /\ PointerIsRecorded

LEMMA SameTables ==
    ASSUME Stored, UNCHANGED <<tables, now>>
    PROVE  Stored'
  <1>1. Grow /\ events' \ events = {}
    BY DEF Grow, tables
  <1>2. EventsAreBacked'
    BY <1>1, HistoryGrows DEF Stored
  <1>3. PointerIsRecorded'
    BY <1>1, PointersStay DEF Stored, tables
  <1>. QED
    BY <1>2, <1>3 DEF Stored, Rows, Moments, tables

\* A plan whose next write is neither checked nor a pointer.
LEMMA PlanGoesOn ==
    ASSUME Stored', todo' \in Unchecked, todo' # <<>> => call'.at = now',
           call'.artifact \in Offered, call'.validation \in Evidence,
           todo' \in Registered => call'.artifact \in artifacts'
    PROVE  RegistryInv'
  <1>1. todo' \in Plans /\ ~Doing("point")' /\ ~Doing("verify")'
    BY UncheckedHead, Zenon DEF Doing
  <1>2. Calling'
    BY <1>1 DEF Calling
  <1>3. Established'
    BY <1>1 DEF Established
  <1>4. InstallResolves'
    BY <1>1 DEF InstallResolves
  <1>. QED
    BY <1>2, <1>3, <1>4 DEF RegistryInv, Stored

LEMMA NothingLeft ==
    /\ <<>> \in Unchecked
    /\ <<>> \notin Registered
    /\ NoCall.artifact \in Offered /\ NoCall.validation \in Evidence
  <1>1. <<>> \in Unchecked
    BY Zenon DEF Unchecked
  <1>2. <<>> \notin Registered
    BY Lead, Zenon DEF Registered
  <1>. QED
    BY <1>1, <1>2, CertifiedShipped DEF NoCall

LEMMA CallEnds ==
    ASSUME Stored', todo' = <<>>, call'.artifact \in Offered, call'.validation \in Evidence
    PROVE  RegistryInv'
  BY NothingLeft, PlanGoesOn

LEMMA Refused ==
    ASSUME RegistryInv, Refuse, UNCHANGED now
    PROVE  RegistryInv'
  <1>1. Stored'
    BY SameTables DEF RegistryInv, Stored, Refuse
  <1>. QED
    BY <1>1, CallEnds, NothingLeft DEF Refuse

\* An event that is backed when it is written.
LEMMA EventWritten ==
    ASSUME RegistryInv, NEW e, InsertEvent(e), e.at = now, Backed(e)',
           UNCHANGED <<artifacts, validations, champions, now>>
    PROVE  Stored'
  <1>1. Grow /\ events' \ events \subseteq {e}
    BY DEF Grow, InsertEvent
  <1>2. EventsAreBacked'
    BY <1>1, HistoryGrows DEF RegistryInv
  <1>3. PointerIsRecorded'
    BY <1>1, PointersStay DEF RegistryInv
  <1>4. Moments'
    BY DEF RegistryInv, Moments, InsertEvent
  <1>. QED
    BY <1>2, <1>3, <1>4 DEF RegistryInv, Rows, Stored
-----------------------------------------------------------------------------
(* The calls, and what happens between them. *)

Openings ==
    {<<"put payload", "register", "record validation">>, <<"approve">>, <<"promote">>,
     <<"invalidate">>, <<"retire">>, <<"install">>, <<>>}

LEMMA OpeningsUnchecked ==
    ASSUME NEW s \in Openings
    PROVE  s \in Unchecked /\ s \notin Registered
  <1>1. s \in Unchecked
    BY Zenon DEF Openings, Unchecked
  <1>2. s = <<>> \/ Head(s) \in {"put payload", "approve", "promote", "invalidate", "retire",
                               "install"}
    BY Heads, Zenon DEF Openings
  <1>3. CASE s = <<>>
    BY <1>1, <1>3, NothingLeft
  <1>4. CASE s = <<"approve">> \/ s = <<"promote">>
    <2>1. <<"approve">> # <<"approve", "promote", "verify">>
      BY Rest1, Rest3
    <2>2. <<"promote">> # <<"promote", "verify">>
      BY Rest1, Rest2
    <2>3. Head(s) \in {"approve", "promote"}
      BY <1>4, Heads, Zenon
    <2>. QED
      BY <1>1, <1>4, <2>1, <2>2, <2>3, Heads, Zenon DEF Registered
  <1>5. CASE s # <<>> /\ s # <<"approve">> /\ s # <<"promote">>
    <2>1. Head(s) \in {"put payload", "invalidate", "retire", "install"}
      BY <1>5, Heads, Zenon DEF Openings
    <2>. QED
      BY <1>1, <2>1, Heads, Zenon DEF Registered
  <1>. QED
    BY <1>3, <1>4, <1>5

LEMMA BeginKeeps ==
    ASSUME RegistryInv, NEW a \in Offered, NEW v \in Evidence, NEW writes \in Openings,
           Begin(a, v, writes)
    PROVE  RegistryInv'
  <1>1. Stored'
    BY SameTables DEF RegistryInv, Stored, Begin
  <1>2. todo' \in Unchecked /\ todo' \notin Registered
    BY OpeningsUnchecked DEF Begin
  <1>3. call'.artifact \in Offered /\ call'.validation \in Evidence
    BY NothingLeft DEF Begin
  <1>4. todo' # <<>> => call'.at = now'
    BY DEF Begin
  <1>. QED
    BY <1>1, <1>2, <1>3, <1>4, PlanGoesOn

LEMMA CallsKeep ==
    ASSUME RegistryInv, Calls
    PROVE  RegistryInv'
  <1>1. ASSUME NEW a \in Offered, NEW v \in Evidence,
               RegisterChallenger(a, v) \/ Approve(a, v) \/ Promote(a, v)
        PROVE  RegistryInv'
    <2>1. PICK writes \in Openings : Begin(a, v, writes)
      BY <1>1, Zenon DEF RegisterChallenger, Approve, Promote, Openings
    <2>. QED
      BY <2>1, BeginKeeps
  <1>2. ASSUME NEW a \in Offered, Invalidate(a) \/ Retire(a)
        PROVE  RegistryInv'
    <2>1. PICK writes \in Openings : Begin(a, Certified.validation, writes)
      BY <1>2, Zenon DEF Invalidate, Retire, Openings
    <2>. QED
      BY <2>1, BeginKeeps, CertifiedShipped
  <1>3. CASE Install
    <2>1. PICK writes \in Openings : Begin(Certified.artifact, Certified.validation, writes)
      BY <1>3, Zenon DEF Install, Openings
    <2>. QED
      BY <2>1, BeginKeeps, CertifiedShipped
  <1>. QED
    BY <1>1, <1>2, <1>3 DEF Calls

LEMMA ResolveStays ==
    ASSUME UNCHANGED <<payloads, tables>>, UNCHANGED call
    PROVE  Resolve(call.artifact.key)' = Resolve(call.artifact.key)
  BY DEF tables, Resolve, ResolveWith, LoadChampion, EventsOf, Terminal, HasApproved, Validates,
         LoadValidation, PayloadIntact

LEMMA BetweenCalls ==
    ASSUME RegistryInv, Kill \/ Tick \/ (\E o \in Objects : Damage(o)) \/ UNCHANGED vars
    PROVE  RegistryInv'
  <1>1. CASE Kill
    <2>1. Stored'
      BY <1>1, SameTables DEF RegistryInv, Stored, Kill
    <2>. QED
      BY <1>1, <2>1, CallEnds, NothingLeft DEF Kill
  <1>2. CASE Tick
    <2>1. Moments'
      BY <1>2 DEF Tick, tables, RegistryInv, Moments
    <2>2. EventsAreBacked' /\ PointerIsRecorded'
      <3>1. Grow /\ events' \ events = {} /\ UNCHANGED champions
        BY <1>2 DEF Tick, tables, Grow
      <3>. QED
        BY <3>1, HistoryGrows, PointersStay DEF RegistryInv
    <2>3. Stored'
      BY <1>2, <2>1, <2>2 DEF Tick, tables, RegistryInv, Rows, Stored
    <2>. QED
      BY <1>2, <2>3, CallEnds DEF Tick, RegistryInv, Calling
  <1>3. ASSUME NEW o \in Objects, Damage(o)
        PROVE  RegistryInv'
    <2>1. Stored'
      BY <1>3, SameTables DEF RegistryInv, Stored, Damage
    <2>. QED
      BY <1>3, <2>1, CallEnds DEF Damage, RegistryInv, Calling
  <1>4. CASE UNCHANGED vars
    <2>1. Stored'
      BY <1>4, SameTables DEF RegistryInv, Stored, vars, tables
    <2>2. Calling'
      BY <1>4 DEF vars, RegistryInv, Calling
    <2>3. Established'
      BY <1>4 DEF vars, RegistryInv, Established, Doing, Promotable, LoadArtifact,
                  LoadValidation, EventsOf, Terminal, HasApproved, Validates, Promotion
    <2>4. InstallResolves'
      <3>1. Resolve(call.artifact.key)' = Resolve(call.artifact.key)
        BY <1>4, ResolveStays DEF vars, tables
      <3>. QED
        BY <1>4, <3>1 DEF vars, RegistryInv, InstallResolves, Doing, PayloadIntact
    <2>. QED
      BY <2>1, <2>2, <2>3, <2>4 DEF RegistryInv, Stored
  <1>. QED
    BY <1>1, <1>2, <1>3, <1>4
-----------------------------------------------------------------------------
(* The writes of a registration. *)

LEMMA Going ==
    ASSUME RegistryInv, NEW w, Doing(w)
    PROVE  /\ todo \in Plans /\ todo # <<>> /\ call.at = now
           /\ call.artifact \in Offered /\ call.validation \in Evidence
  BY DEF RegistryInv, Calling, Doing

\* What a call that goes on carries to its next write.
LEMMA DoneKeepsCall ==
    ASSUME RegistryInv, NEW w, Doing(w), Done, UNCHANGED now
    PROVE  /\ call'.artifact \in Offered /\ call'.validation \in Evidence
           /\ todo' # <<>> => call' = call /\ call'.at = now'
  BY Going, NothingLeft DEF Done

LEMMA DoneGoesOn ==
    ASSUME RegistryInv, NEW w, Doing(w), Done, UNCHANGED now, Stored', todo' \in Unchecked,
           todo' \in Registered => call.artifact \in artifacts'
    PROVE  RegistryInv'
  <1>1. todo' \in Registered => call'.artifact \in artifacts'
    BY DoneKeepsCall, NothingLeft
  <1>. QED
    BY <1>1, DoneKeepsCall, PlanGoesOn

LEMMA PutPayloadKeeps ==
    ASSUME RegistryInv, PutPayload
    PROVE  RegistryInv'
  <1>1. CASE Refuse
    BY <1>1, Refused DEF PutPayload, Frame
  <1>2. CASE ~Refuse
    <2>1. Done /\ UNCHANGED <<tables, now>> /\ Doing("put payload")
      BY <1>2 DEF PutPayload, Frame
    <2>2. todo' = <<"register", "record validation">>
      <3>1. todo = <<"put payload", "register", "record validation">>
        BY <2>1, Left, Going
      <3>. QED
        BY <2>1, <3>1, Tails, Zenon DEF Done
    <2>3. todo' \in Unchecked /\ todo' \notin Registered
      BY <2>2, Heads, Zenon DEF Unchecked, Registered
    <2>. QED
      BY <2>1, <2>3, SameTables, DoneGoesOn DEF RegistryInv, Stored
  <1>. QED
    BY <1>1, <1>2

LEMMA RegisterKeeps ==
    ASSUME RegistryInv, Register
    PROVE  RegistryInv'
  <1>. DEFINE a == call.artifact
  <1>0. Doing("register") /\ UNCHANGED now /\ a \in Offered /\ Rows
    BY Going DEF Register, Frame, RegistryInv
  <1>1. CASE Refuse
    BY <1>1, <1>0, Refused
  <1>2. ASSUME NEW stored \in LoadArtifact(a.id), stored.science = a.science,
               Done, UNCHANGED tables
        PROVE  RegistryInv'
    <2>1. stored = a
      BY <1>0, <1>2, ScienceIsContent DEF LoadArtifact, Rows
    <2>2. a \in artifacts'
      BY <1>2, <2>1 DEF LoadArtifact, tables
    <2>3. todo' \in {<<"record validation">>,
                    <<"ship validation", "approve", "promote", "verify">>}
      <3>1. todo \in {<<"register", "record validation">>,
                     <<"register", "ship validation", "approve", "promote", "verify">>}
        BY <1>0, Left, Going
      <3>. QED
        BY <1>2, <3>1, Tails, Zenon DEF Done
    <2>4. todo' \in Unchecked
      BY <2>3, Zenon DEF Unchecked
    <2>. QED
      BY <1>0, <1>2, <2>2, <2>4, SameTables, DoneGoesOn DEF RegistryInv, Stored
  <1>3. ASSUME LoadArtifact(a.id) = {}, InsertArtifact(a),
               todo' = [todo EXCEPT ![1] = "log registration"],
               UNCHANGED <<call, validations, events, champions>>
        PROVE  RegistryInv'
    <2>1. artifacts' = artifacts \cup {a}
      BY <1>3 DEF InsertArtifact
    <2>2. Grow /\ events' \ events = {}
      BY <1>3, <2>1 DEF Grow
    <2>3. Rows'
      BY <1>0, <1>3, <2>1 DEF Rows, LoadArtifact
    <2>4. Stored'
      BY <1>0, <1>3, <2>2, <2>3, HistoryGrows, PointersStay
      DEF RegistryInv, Stored, Moments
    <2>5. todo' \in {<<"log registration", "record validation">>,
                    <<"log registration", "ship validation", "approve", "promote", "verify">>}
      <3>1. todo \in {<<"register", "record validation">>,
                     <<"register", "ship validation", "approve", "promote", "verify">>}
        BY <1>0, Left, Going
      <3>. QED
        BY <1>3, <3>1, Replaced, Zenon
    <2>6. todo' \in Unchecked
      BY <2>5, Zenon DEF Unchecked
    <2>. QED
      BY <1>0, <1>3, <2>1, <2>4, <2>6, Going, PlanGoesOn
  <1>. QED
    BY <1>1, <1>2, <1>3 DEF Register

LEMMA LogRegistrationKeeps ==
    ASSUME RegistryInv, LogRegistration
    PROVE  RegistryInv'
  <1>. PICK e : e = Event("REGISTERED", call.artifact.id, "none", call.at)
    OBVIOUS
  <1>1. Doing("log registration") /\ Done /\ InsertEvent(e) /\ UNCHANGED now
        /\ UNCHANGED <<artifacts, validations, champions>>
    BY DEF LogRegistration, Frame
  <1>2. todo = <<"log registration", "record validation">>
        \/ todo = <<"log registration", "ship validation", "approve", "promote", "verify">>
    BY <1>1, Left, Going
  <1>3. call.artifact \in artifacts
    BY <1>2, Zenon DEF RegistryInv, Established, Registered
  <1>4. Backed(e)'
    BY <1>1, <1>3 DEF Backed, Event, LoadArtifact
  <1>5. Stored'
    BY <1>1, <1>4, Going, EventWritten DEF Event
  <1>6. todo' \in {<<"record validation">>,
                  <<"ship validation", "approve", "promote", "verify">>}
    BY <1>1, <1>2, Tails, Zenon DEF Done
  <1>7. todo' \in Unchecked
    BY <1>6, Zenon DEF Unchecked
  <1>. QED
    BY <1>1, <1>3, <1>5, <1>7, DoneGoesOn

\* A validation of that id is not there yet, or the one that is stays.
LEMMA ValidationWritten ==
    ASSUME RegistryInv, NEW v \in Evidence, InsertValidation(v),
           UNCHANGED <<artifacts, events, champions, now>>
    PROVE  Stored'
  <1>1. Grow /\ events' \ events = {}
    BY DEF Grow, InsertValidation
  <1>2. Rows'
    BY DEF RegistryInv, Rows, InsertValidation, LoadValidation
  <1>. QED
    BY <1>1, <1>2, HistoryGrows, PointersStay DEF RegistryInv, Stored, Moments

LEMMA ValidationKeeps ==
    ASSUME RegistryInv, RecordValidation \/ ShipValidation
    PROVE  RegistryInv'
  <1>1. UNCHANGED now
    BY DEF RecordValidation, ShipValidation, Frame
  <1>2. CASE Refuse
    BY <1>1, <1>2, Refused
  <1>3. ASSUME NEW w, w \in {"record validation", "ship validation"}, Doing(w), Done,
               InsertValidation(call.validation), UNCHANGED <<artifacts, events, champions>>
        PROVE  RegistryInv'
    <2>1. Stored'
      BY <1>1, <1>3, Going, ValidationWritten
    <2>2. CASE w = "record validation"
      <3>1. todo' = <<>>
        <4>1. todo = <<"record validation">>
          BY <1>3, <2>2, Left, Going
        <4>. QED
          BY <1>3, <4>1, Tails, Zenon DEF Done
      <3>. QED
        BY <1>1, <1>3, <2>1, <3>1, DoneKeepsCall, CallEnds
    <2>3. CASE w = "ship validation"
      <3>1. todo = <<"ship validation", "approve", "promote", "verify">>
        BY <1>3, <2>3, Left, Going
      <3>2. call.artifact \in artifacts'
        BY <1>3, <3>1, Zenon DEF RegistryInv, Established, Registered
      <3>3. todo' = <<"approve", "promote", "verify">>
        BY <1>3, <3>1, Tails, Zenon DEF Done
      <3>4. todo' \in Unchecked
        BY <3>3, Zenon DEF Unchecked
      <3>. QED
        BY <1>1, <1>3, <2>1, <3>2, <3>4, DoneGoesOn
    <2>. QED
      BY <1>3, <2>2, <2>3
  <1>. QED
    BY <1>2, <1>3 DEF RecordValidation, ShipValidation
-----------------------------------------------------------------------------
(* Decisions: approval, promotion, closing. *)

LEMMA RecordApprovalKeeps ==
    ASSUME RegistryInv, RecordApproval
    PROVE  RegistryInv'
  <1>. PICK e : e = Event("APPROVED", call.artifact.id, call.validation.id, call.at)
    OBVIOUS
  <1>0. Doing("approve") /\ UNCHANGED now
    BY DEF RecordApproval, Frame
  <1>1. CASE Refuse
    BY <1>0, <1>1, Refused
  <1>2. CASE ~Refuse
    <2>1. /\ Approvable(call.artifact.id, call.validation.id) /\ InsertEvent(e) /\ Done
          /\ UNCHANGED <<artifacts, validations, champions>>
      BY <1>2 DEF RecordApproval
    <2>2. Backed(e)'
      BY <2>1 DEF Approvable, Backed, Event, LoadArtifact, Validates, LoadValidation
    <2>3. Stored'
      BY <1>0, <2>1, <2>2, Going, EventWritten DEF Event
    <2>4. CASE todo = <<"approve">>
      <3>1. todo' = <<>>
        BY <2>1, <2>4, Tails, Zenon DEF Done
      <3>. QED
        BY <1>0, <2>1, <2>3, <3>1, DoneKeepsCall, CallEnds
    <2>5. CASE todo = <<"approve", "promote", "verify">>
      <3>1. call.artifact \in artifacts'
        BY <2>1, <2>5, Zenon DEF RegistryInv, Established, Registered
      <3>2. todo' = <<"promote", "verify">>
        BY <2>1, <2>5, Tails, Zenon DEF Done
      <3>3. todo' \in Unchecked
        BY <3>2, Zenon DEF Unchecked
      <3>. QED
        BY <1>0, <2>1, <2>3, <3>1, <3>3, DoneGoesOn
    <2>. QED
      BY <1>0, <2>4, <2>5, Left, Going
  <1>. QED
    BY <1>1, <1>2

\* The approval that a promotion rests on was given no later than now.
LEMMA PromotionBacked ==
    ASSUME RegistryInv, Promotable(call.artifact.id, call.validation.id), call.at = now,
           NEW e, e = Promotion
    PROVE  Backed(e)
  <1>1. PICK p \in EventsOf(call.artifact.id) : p.type = "APPROVED"
    BY DEF Promotable, HasApproved
  <1>2. p.at <= now
    BY DEF EventsOf, RegistryInv, Moments
  <1>. QED
    BY <1>1, <1>2 DEF Promotable, Backed, Promotion, Event

\* Recording it does not make the artifact less promotable.
LEMMA PromotionAdds ==
    ASSUME NEW id, NEW vid, Promotable(id, vid), NEW e, e.type = "PROMOTED",
           InsertEvent(e), UNCHANGED <<artifacts, validations>>
    PROVE  Promotable(id, vid)'
  <1>1. EventsOf(id)' \subseteq EventsOf(id) \cup {e} /\ EventsOf(id) \subseteq EventsOf(id)'
    BY DEF InsertEvent, EventsOf
  <1>2. ~Terminal(id)'
    BY <1>1 DEF Promotable, Terminal, TerminalTypes
  <1>3. HasApproved(id)'
    BY <1>1 DEF Promotable, HasApproved, TerminalTypes
  <1>. QED
    BY <1>2, <1>3 DEF Promotable, LoadArtifact, LoadValidation, Validates

LEMMA RecordPromotionKeeps ==
    ASSUME RegistryInv, RecordPromotion
    PROVE  RegistryInv'
  <1>. PICK e : e = Promotion
    OBVIOUS
  <1>0. Doing("promote") /\ UNCHANGED now
    BY DEF RecordPromotion, Frame
  <1>1. CASE Refuse
    BY <1>0, <1>1, Refused
  <1>2. CASE ~Refuse
    <2>1. /\ Promotable(call.artifact.id, call.validation.id) /\ InsertEvent(e)
          /\ todo' = [todo EXCEPT ![1] = "point"]
          /\ UNCHANGED <<call, artifacts, validations, champions>>
      BY <1>2 DEF RecordPromotion
    <2>2. Backed(e)'
      <3>1. Backed(e) /\ Grow
        BY <1>0, <2>1, Going, PromotionBacked DEF Grow, InsertEvent
      <3>. QED
        BY <3>1, BackedStays
    <2>3. Stored'
      BY <1>0, <2>1, <2>2, Going, EventWritten DEF Promotion, Event
    <2>4. Promotable(call.artifact.id, call.validation.id)' /\ (Promotion \in events)'
      <3>. PICK id, vid : id = call.artifact.id /\ vid = call.validation.id
        OBVIOUS
      <3>1. Promotable(id, vid)'
        BY <2>1, PromotionAdds DEF Promotion, Event
      <3>2. Promotable(call.artifact.id, call.validation.id)'
        BY <2>1, <3>1
      <3>. QED
        BY <2>1, <3>2 DEF InsertEvent, Promotion
    <2>5. todo' \in {<<"point">>, <<"point", "verify">>}
      <3>1. todo \in {<<"promote">>, <<"promote", "verify">>}
        BY <1>0, Left, Going
      <3>. QED
        BY <2>1, <3>1, Replaced, Zenon
    <2>6. Calling'
      <3>1. todo' \in Plans
        BY <2>5, Zenon DEF Plans, Decision, Installation
      <3>. QED
        BY <1>0, <2>1, <3>1, Going DEF Calling
    <2>7. todo' \in Registered => call'.artifact \in artifacts'
      <3>1. CASE todo = <<"promote">>
        <4>1. todo' = <<"point">>
          BY <2>1, <3>1, Replaced, Zenon
        <4>2. <<"point">> # <<"point", "verify">>
          BY Rest1, Rest2
        <4>3. todo' \notin Registered
          BY <4>1, <4>2, Heads, Zenon DEF Registered
        <4>. QED
          BY <4>3
      <3>2. CASE todo = <<"promote", "verify">>
        BY <2>1, <3>2, Zenon DEF RegistryInv, Established, Registered
      <3>. QED
        BY <1>0, <3>1, <3>2, Left, Going
    <2>8. ~Doing("verify")'
      BY <2>5, Heads, Zenon DEF Doing
    <2>. QED
      BY <2>3, <2>4, <2>6, <2>7, <2>8 DEF RegistryInv, Stored, Established, InstallResolves
  <1>. QED
    BY <1>1, <1>2

LEMMA CloseKeeps ==
    ASSUME RegistryInv, Close("invalidate", "INVALIDATED") \/ Close("retire", "RETIRED")
    PROVE  RegistryInv'
  <1>1. ASSUME NEW write \in {"invalidate", "retire"}, NEW type \in TerminalTypes,
               Close(write, type)
        PROVE  RegistryInv'
    <2>. PICK e : e = Event(type, call.artifact.id, "none", call.at)
      OBVIOUS
    <2>1. Doing(write) /\ UNCHANGED now
      BY <1>1 DEF Close, Frame
    <2>2. CASE Refuse
      BY <2>1, <2>2, Refused
    <2>3. CASE ~Refuse
      <3>1. /\ LoadArtifact(call.artifact.id) # {} /\ InsertEvent(e) /\ Done
            /\ UNCHANGED <<artifacts, validations, champions>>
        BY <1>1, <2>3 DEF Close
      <3>2. Backed(e)'
        BY <3>1 DEF Backed, Event, TerminalTypes, LoadArtifact
      <3>3. Stored'
        BY <2>1, <3>1, <3>2, Going, EventWritten DEF Event
      <3>4. todo \in {<<"invalidate">>, <<"retire">>}
        BY <2>1, Left, Going
      <3>5. todo' = <<>>
        BY <3>1, <3>4, Tails, Zenon DEF Done
      <3>. QED
        BY <2>1, <3>1, <3>3, <3>5, DoneKeepsCall, CallEnds
    <2>. QED
      BY <2>2, <2>3
  <1>. QED
    BY <1>1 DEF TerminalTypes
-----------------------------------------------------------------------------
(* The champion pointer, and the install that checks it. *)

\* The one stored artifact of the call's id becomes its key's champion.
Pointed(a) == [key |-> a.key, artifact |-> a.id, via |-> Promotion]

\* A champion whose artifact is stored, promotable and intact resolves.
LEMMA PointedResolves ==
    ASSUME RegistryInv, Doing("point"), call.artifact \in artifacts,
           Promotable(call.artifact.id, call.validation.id), Promotion \in events,
           UpsertChampion(Pointed(call.artifact)), PayloadIntact(call.artifact),
           UNCHANGED <<payloads, artifacts, validations, events, call>>
    PROVE  Resolve(call.artifact.key)' = {call.artifact.id}
  <1>. DEFINE a == call.artifact
              c == Pointed(a)
  <1>1. LoadChampion(a.key)' = {c}
    BY DEF UpsertChampion, LoadChampion, Pointed
  <1>2. /\ c.artifact = a.id /\ c.via \in EventsOf(a.id) /\ c.via.type = "PROMOTED"
        /\ Validates(a.id, c.via.validation, "promotion")
    BY DEF Pointed, Promotion, Event, EventsOf, Promotable
  <1>3. ~Terminal(a.id) /\ HasApproved(a.id)
    BY DEF Promotable
  <1>4. \A id, vid : /\ EventsOf(id)' = EventsOf(id) /\ (Terminal(id)' <=> Terminal(id))
                    /\ (HasApproved(id)' <=> HasApproved(id))
                    /\ (Validates(id, vid, "promotion")' <=> Validates(id, vid, "promotion"))
    BY DEF EventsOf, Terminal, HasApproved, Validates, LoadValidation
  <1>5. \A b \in artifacts : b.id = a.id => b = a
    BY DEF RegistryInv, Rows
  <1>6. Resolve(a.key)' =
            {b.id : b \in {d \in artifacts :
                /\ c.artifact = d.id /\ c.via \in EventsOf(d.id) /\ c.via.type = "PROMOTED"
                /\ Validates(d.id, c.via.validation, "promotion")
                /\ ~Terminal(d.id) /\ HasApproved(d.id) /\ d.key = a.key
                /\ PayloadIntact(d)}}
    BY <1>1, <1>4 DEF Resolve, ResolveWith, PayloadIntact
  <1>. QED
    BY <1>2, <1>3, <1>5, <1>6

LEMMA PointChampionKeeps ==
    ASSUME RegistryInv, PointChampion
    PROVE  RegistryInv'
  <1>0. /\ Doing("point") /\ Done /\ UNCHANGED now
        /\ UNCHANGED <<payloads, artifacts, validations, events>>
    BY DEF PointChampion, Frame
  <1>1. PICK a \in LoadArtifact(call.artifact.id) : UpsertChampion(Pointed(a))
    BY DEF PointChampion, Pointed
  <1>2. Promotable(call.artifact.id, call.validation.id) /\ Promotion \in events
    BY <1>0 DEF RegistryInv, Established
  <1>3. Grow /\ events' \ events = {}
    BY <1>0 DEF Grow
  <1>4. PointerIsRecorded'
    <2>1. ASSUME NEW c \in champions'
          PROVE  /\ c.via \in events' /\ c.via.type = "PROMOTED" /\ c.via.artifact = c.artifact
                 /\ \E b \in LoadArtifact(c.artifact)' : b.key = c.key
      <3>1. CASE c \in champions
        BY <1>0, <3>1 DEF RegistryInv, PointerIsRecorded, LoadArtifact
      <3>2. CASE c = Pointed(a)
        BY <1>0, <1>1, <1>2, <3>2 DEF Pointed, Promotion, Event, LoadArtifact
      <3>. QED
        BY <1>1, <3>1, <3>2 DEF UpsertChampion
    <2>. QED
      BY <2>1 DEF PointerIsRecorded
  <1>5. Stored'
    <2>1. Rows'
      BY <1>0, <1>1 DEF RegistryInv, Rows, UpsertChampion, LoadChampion
    <2>2. EventsAreBacked'
      BY <1>3, HistoryGrows DEF RegistryInv
    <2>. QED
      BY <1>0, <1>4, <2>1, <2>2 DEF RegistryInv, Stored, Moments
  <1>6. CASE todo = <<"point">>
    <2>1. todo' = <<>>
      BY <1>0, <1>6, Tails, Zenon DEF Done
    <2>. QED
      BY <1>0, <1>5, <2>1, DoneKeepsCall, CallEnds
  <1>7. CASE todo = <<"point", "verify">>
    <2>1. todo' = <<"verify">>
      BY <1>0, <1>7, Tails, Zenon DEF Done
    <2>2. todo' # <<>> /\ todo' \in Plans /\ ~Doing("point")'
      <3>1. todo' # <<>>
        BY <2>1
      <3>2. todo' \in Plans
        BY <2>1, Zenon DEF Plans, Installation
      <3>. QED
        BY <2>1, <3>1, <3>2, Heads, Zenon DEF Doing
    <2>3. call' = call
      BY <1>0, <2>2, DoneKeepsCall
    <2>4. call.artifact \in artifacts
      BY <1>7, Zenon DEF RegistryInv, Established, Registered
    <2>5. a = call.artifact
      BY <2>4 DEF LoadArtifact, RegistryInv, Rows
    <2>6. InstallResolves'
      BY <1>0, <1>1, <1>2, <2>3, <2>4, <2>5, PointedResolves
      DEF InstallResolves, PayloadIntact
    <2>7. Calling'
      BY <1>0, <2>2, <2>3, Going DEF Calling
    <2>8. Established'
      BY <1>0, <2>2, <2>3, <2>4 DEF Established
    <2>. QED
      BY <1>5, <2>6, <2>7, <2>8 DEF RegistryInv, Stored
  <1>. QED
    BY <1>0, <1>6, <1>7, Left, Going

LEMMA PlanInstallKeeps ==
    ASSUME RegistryInv, PlanInstall
    PROVE  RegistryInv'
  <1>0. Doing("install") /\ UNCHANGED <<payloads, tables, call, now>>
    BY DEF PlanInstall, Frame
  <1>1. Stored'
    BY <1>0, SameTables DEF RegistryInv, Stored
  <1>2. CASE Resolve(call.artifact.key) = {call.artifact.id}
    <2>1. todo' = <<"verify">>
      BY <1>2 DEF PlanInstall
    <2>2. todo' \in Plans /\ ~Doing("point")' /\ todo' \notin Registered
      <3>1. todo' \in Plans
        BY <2>1, Zenon DEF Plans, Installation
      <3>. QED
        BY <2>1, <3>1, Heads, Zenon DEF Doing, Registered
    <2>3. InstallResolves'
      BY <1>0, <1>2, ResolveStays DEF InstallResolves
    <2>4. Calling' /\ Established'
      BY <1>0, <2>2, Going DEF Calling, Established
    <2>. QED
      BY <1>1, <2>3, <2>4 DEF RegistryInv, Stored
  <1>3. CASE Resolve(call.artifact.key) # {call.artifact.id}
    <2>1. todo' = <<"register", "ship validation", "approve", "promote", "verify">>
      BY <1>3 DEF PlanInstall
    <2>2. todo' \in Unchecked
      BY <2>1, Zenon DEF Unchecked
    <2>3. todo' \notin Registered
      BY <2>1, Heads, Zenon DEF Registered
    <2>. QED
      BY <1>0, <1>1, <2>2, <2>3, Going, PlanGoesOn
  <1>. QED
    BY <1>2, <1>3

LEMMA VerifyInstallKeeps ==
    ASSUME RegistryInv, VerifyInstall
    PROVE  RegistryInv'
  <1>1. Doing("verify") /\ Done /\ UNCHANGED <<tables, now>>
    BY DEF VerifyInstall, Frame
  <1>2. todo = <<"verify">>
    BY <1>1, Left, Going
  <1>3. todo' = <<>>
    BY <1>1, <1>2, Tails, Zenon DEF Done
  <1>4. Stored'
    BY <1>1, SameTables DEF RegistryInv, Stored
  <1>. QED
    BY <1>1, <1>3, <1>4, DoneKeepsCall, CallEnds

-----------------------------------------------------------------------------
(* Every step. *)

LEMMA RegistryInit == Init => RegistryInv
  <1>. SUFFICES ASSUME Init PROVE RegistryInv
    OBVIOUS
  <1>1. Rows /\ Moments /\ EventsAreBacked /\ PointerIsRecorded
    BY DEF Init, Rows, Moments, EventsAreBacked, PointerIsRecorded
  <1>2. Calling
    BY NothingLeft DEF Init, Calling, Plans
  <1>3. Established /\ InstallResolves
    BY NothingLeft DEF Init, Established, InstallResolves, Doing
  <1>. QED
    BY <1>1, <1>2, <1>3 DEF RegistryInv

LEMMA RegistryStep ==
    ASSUME RegistryInv, [Next]_vars
    PROVE  RegistryInv'
  <1>1. CASE Calls
    BY <1>1, CallsKeep
  <1>2. CASE Writes
    BY <1>2, PutPayloadKeeps, RegisterKeeps, LogRegistrationKeeps, ValidationKeeps,
       RecordApprovalKeeps, RecordPromotionKeeps, PointChampionKeeps, CloseKeeps,
       PlanInstallKeeps, VerifyInstallKeeps DEF Writes
  <1>. QED
    BY <1>1, <1>2, BetweenCalls DEF Next

LEMMA RegistryHolds == Spec => []RegistryInv
  BY RegistryInit, RegistryStep, PTL DEF Spec

\* Every approval and promotion of the history rests on a stored validation of
\* its artifact that passes what was asked of it, and every promotion on an
\* earlier approval, whichever calls were killed between their writes and
\* whatever was offered again under the same id.
THEOREM HistoryIsBacked == Spec => []EventsAreBacked
  <1>1. RegistryInv => EventsAreBacked
    BY DEF RegistryInv
  <1>. QED
    BY <1>1, RegistryHolds, PTL

\* A champion pointer names a recorded promotion of a stored artifact of its
\* key, also after a promotion that was killed before or after its first write.
THEOREM ChampionIsRecorded == Spec => []PointerIsRecorded
  <1>1. RegistryInv => PointerIsRecorded
    BY DEF RegistryInv
  <1>. QED
    BY <1>1, RegistryHolds, PTL

\* An install that reaches its own verification resolves its artifact, unless
\* the stored payload is damaged, after every history of killed installs, rival
\* champions and refused registrations.
THEOREM InstallIsEffective == Spec => []InstallResolves
  <1>1. RegistryInv => InstallResolves
    BY DEF RegistryInv
  <1>. QED
    BY <1>1, RegistryHolds, PTL
=============================================================================
