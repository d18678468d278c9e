----------------------------- MODULE Collection -----------------------------
(***************************************************************************)
(* One collection cycle after another against a provider whose feeds       *)
(* change while they are read (collection/service.py), the HTTP client     *)
(* that retries and follows cursors (providers/bdl), the receipts and rows *)
(* a cycle appends, and the raw payload store with its finite retention    *)
(* (data/raw_store.py, platform/storage_guard.py).  The writer lock is     *)
(* held for a whole cycle and for a whole housekeeping pass, so the two    *)
(* never interleave; the process may be killed anywhere in either.         *)
(*                                                                         *)
(* clock advances when the provider changes a feed, when a cycle starts    *)
(* and between cycles: responses with nothing between them share a time.   *)
(* Bounds are named Max*.                                                  *)
(***************************************************************************)
EXTENDS Integers, FiniteSets, Sequences, SequencesExt, FiniteSetsExt

CONSTANTS Games,       \* games a week may list
          Cursors,     \* positive cursor values the provider may return
          Empty,       \* feeds that may show nothing at first
          Changing,    \* feeds the provider may change
          Long,        \* feeds the provider may split over several pages
          MaxRetries,  \* BDLClient.max_retries
          Keep,        \* retention of canonicalized payloads (30 days)
          Cap,         \* hard cap for failed cycles (45 days)
          Pause,       \* a long pause between two cycles
          MaxCycles, MaxTrouble, MaxClock

ASSUME RetentionOrder == /\ Keep \in Nat /\ Cap \in Nat /\ Keep < Cap
                         /\ Cursors \subseteq Nat \ {0}

\* A week lists finitely many games; time only goes forward.
ASSUME GamesAssumption == IsFiniteSet(Games) /\ Pause \in Nat

VARIABLES clock, feed, pc, cyc, receipts, rows, runs, triggers, raw,
          used

vars == <<clock, feed, pc, cyc, receipts, rows, runs, triggers, raw, used>>

Feeds == {"games", "rosters", "injuries", "odds", "props"}
Paged == {"games", "injuries", "odds"}      \* cursor-paginated endpoints
Checked == {"SUCCESS", "MARKET_NOT_POSTED"}
\* How a request can end without a page: a retryable status, a transport
\* failure (no response, so no raw payload), or a response refused at once.
Faults == {"429", "timeout", "bad"}
Retryable == {"429", "timeout"}
None == -1
Week == "week"

\* Time passes, up to the bound.
Later(n) == clock + n <= MaxClock /\ clock' = clock + n

\* Bounds: cycles, and what happens besides them (changes of a feed, failed
\* requests, kills, pauses and discoveries, in any mixture).
Trouble == used.trouble < MaxTrouble /\ used' = [used EXCEPT !.trouble = @ + 1]

(***************************** the provider ********************************)

\* What feed f shows since its last change: the games it has content for.
Shown(f) == feed[f][Len(feed[f])].content
Holds(f, scope, content) == IF f = "props" THEN scope \in content ELSE content # {}

\* The provider changes a feed, at any moment, also between two pages.
Publish(f, content) ==
    /\ Trouble
    /\ content # Shown(f)
    /\ Later(1)
    /\ feed' = [feed EXCEPT ![f] = Append(@, [content |-> content, since |-> clock'])]
    /\ UNCHANGED <<pc, cyc, receipts, rows, runs, triggers, raw>>

(************************** the raw payload store **************************)

\* An object of the store is named by the content of the response; its files
\* are the payload (legacy "json" or "zst") and the metadata, which keeps the
\* FIRST receipt.  "born" is the oldest modification time of its files.
Payload(o) == o.files \cap {"json", "zst"}
Written(id, at, files) ==
    LET new == [files |-> files, born |-> at,
                received |-> IF "meta" \in files THEN at ELSE None]
        old == raw[id]
    IN  IF id \notin DOMAIN raw THEN new
        ELSE [files    |-> old.files \cup (files \cap {"meta"})
                           \cup IF Payload(old) = {} THEN {"zst"} ELSE {},
              born     |-> old.born,
              received |-> IF "meta" \in old.files THEN old.received ELSE new.received]
Stored(id, at, files) ==
    [x \in DOMAIN raw \cup {id} |-> IF x = id THEN Written(id, at, files) ELSE raw[x]]
WriteJson(id, at) == Stored(id, at, {"zst", "meta"})

\* A batch of legacy payloads: the verified zst replaces the json, which is
\* unlinked last.  An object without metadata is as young as its new file.
Compressed(store, unlink) ==
    [id \in DOMAIN store |->
       LET o == store[id] IN
       IF "json" \notin o.files THEN o
       ELSE [o EXCEPT !.files = (@ \cup {"zst"}) \ (IF unlink THEN {"json"} ELSE {}),
                      !.born = IF unlink /\ "meta" \notin o.files THEN clock ELSE @]]

\* Windows of the cycles that recorded success, and of the other ones.
OkWindows == {<<r.started, r.completed>> : r \in {q \in runs : q.status = "SUCCESS"}}
FailedWindows == {<<r.started, r.completed>> : r \in {q \in runs : q.status # "SUCCESS"}}
Within(t, windows) == \E w \in windows : w[1] <= t /\ t <= w[2]

\* Mutant: failed cycles get no longer window.
LimitForAll(o) == IF o.received = None THEN Cap ELSE Keep

\* The age an object must exceed, from its receipt (or its files) on.
Limit(o) ==
    IF \/ o.received = None
       \/ Within(o.received, FailedWindows) /\ ~Within(o.received, OkWindows)
    THEN Cap ELSE Keep
Since(o) == IF o.received = None THEN o.born ELSE o.received
Expired(o) == clock - o.born > Keep /\ clock - Since(o) > Limit(o)

ExpiredIn(store) == {id \in DOMAIN store : Expired(store[id])}
Pruned(store) == [id \in DOMAIN store \ ExpiredIn(store) |-> store[id]]

\* Housekeeping between two ticks, under the writer lock.
Housekeeping ==
    /\ pc = "idle"
    /\ raw' = Pruned(Compressed(raw, TRUE))
    /\ raw' # raw
    /\ UNCHANGED <<clock, feed, pc, cyc, receipts, rows, runs, triggers, used>>

\* ... killed while converting, or after unlinking some files of an object.
HousekeepingKilled ==
    /\ pc = "idle"
    /\ Trouble
    /\ \/ raw' = Compressed(raw, FALSE)
       \/ LET store == Compressed(raw, TRUE) IN
          \E id \in ExpiredIn(store) : \E left \in SUBSET store[id].files \ {{}} :
              raw' = [store EXCEPT ![id].files = left,
                                   ![id].received = IF "meta" \in left THEN @ ELSE None]
    /\ UNCHANGED <<clock, feed, pc, cyc, receipts, rows, runs, triggers>>

(******************************* the cycle *********************************)

\* The in-memory state in which the resource at the head of todo is asked for.
Ask(started, todo, listed) ==
    [started |-> started, todo |-> todo, attempt |-> 0, cursor |-> 0, seen |-> {},
     pages |-> {}, status |-> "none", listed |-> listed]
Idle == Ask(None, <<>>, {})
OfWeek(f) == [feed |-> f, scope |-> Week]

Start ==
    /\ pc = "idle"
    /\ used.cycles < MaxCycles
    /\ Later(2)
    /\ cyc' = Ask(clock + 1, <<OfWeek("games")>>, {})
    /\ pc' = "fetch"
    /\ used' = [used EXCEPT !.cycles = @ + 1]
    /\ UNCHANGED <<feed, receipts, rows, runs, triggers, raw>>

Now == Head(cyc.todo)
\* The response that the running request gets, as an object of the store.
Response(body) == [feed |-> Now.feed, scope |-> Now.scope, cursor |-> cyc.cursor,
                   body |-> body]

\* Rows of the pages received: a page of version v with content.
Contents(pages) == UNION {feed[Now.feed][p.v].content : p \in pages}
Full(pages) == {p \in pages : Holds(Now.feed, Now.scope, feed[Now.feed][p.v].content)}

\* SUCCESS with rows, or a feed whose emptiness is an answer; otherwise a
\* market that is not posted, or a response that says nothing.
Attempt(f, full) ==
    CASE full # {} \/ f = "injuries" -> "SUCCESS"
      [] full = {} /\ f \in {"odds", "props"} -> "MARKET_NOT_POSTED"
      [] OTHER -> "EMPTY_RESPONSE"

\* What may come after this page: a cursor of the provider's choice, the next
\* team of the roster loop, or nothing (0).
More == IF Now.feed \in Paged \cap Long THEN Cursors \cup {0}
        ELSE IF Now.feed = "rosters" /\ cyc.cursor + 1 < Cardinality(cyc.listed)
             THEN {cyc.cursor + 1} ELSE {0}

\* The fetch is over: its status is known, its receipt is written next.
Fetched(pages, status) ==
    /\ cyc' = [cyc EXCEPT !.pages = pages, !.status = status]
    /\ pc' = "receipt"

\* Mutant: the cursors followed are not remembered.
PageForgetful(next) ==
    /\ pc = "fetch"
    /\ next \in More
    /\ raw' = WriteJson(Response(<<"page", Len(feed[Now.feed]), next>>), clock)
    /\ LET pages == cyc.pages \cup {[v |-> Len(feed[Now.feed]), at |-> clock]} IN
       \/ /\ next = 0
          /\ Fetched(pages, Attempt(Now.feed, Full(pages)))
       \/ /\ next \in cyc.seen
          /\ Fetched({}, "PROVIDER_ERROR")
       \/ /\ next \notin cyc.seen \cup {0}
          /\ cyc' = [cyc EXCEPT !.pages = pages, !.cursor = next, !.attempt = 0]
          /\ UNCHANGED pc
    /\ UNCHANGED <<clock, feed, receipts, rows, runs, triggers, used>>

\* A page arrives.  A cursor seen before ends the fetch with an error and
\* every page of it is dropped.
Page(next) ==
    /\ pc = "fetch"
    /\ next \in More
    /\ raw' = WriteJson(Response(<<"page", Len(feed[Now.feed]), next>>), clock)
    /\ LET pages == cyc.pages \cup {[v |-> Len(feed[Now.feed]), at |-> clock]} IN
       \/ /\ next = 0
          /\ Fetched(pages, Attempt(Now.feed, Full(pages)))
       \/ /\ next \in cyc.seen
          /\ Fetched({}, "PROVIDER_ERROR")
       \/ /\ next \notin cyc.seen \cup {0}
          /\ cyc' = [cyc EXCEPT !.pages = pages, !.cursor = next, !.attempt = 0,
                                !.seen = @ \cup {next}]
          /\ UNCHANGED pc
    /\ UNCHANGED <<clock, feed, receipts, rows, runs, triggers, used>>

\* Mutant: an error of the provider reads as a market that is not posted.
SwallowException(kind) == IF kind = "429" THEN "RATE_LIMITED" ELSE "MARKET_NOT_POSTED"

\* The exception an exhausted or refused request ends in, as a status.
ClassifyException(kind) == IF kind = "429" THEN "RATE_LIMITED" ELSE "PROVIDER_ERROR"

\* A request fails: retried in place while attempts are left, otherwise the
\* whole fetch fails.  Every HTTP response is stored before it is judged.
Fail(kind) ==
    /\ pc = "fetch"
    /\ Trouble
    /\ raw' = IF kind = "timeout" THEN raw ELSE WriteJson(Response(<<kind>>), clock)
    /\ IF kind \in Retryable /\ cyc.attempt < MaxRetries
       THEN cyc' = [cyc EXCEPT !.attempt = @ + 1] /\ UNCHANGED pc
       ELSE Fetched({}, ClassifyException(kind))
    /\ UNCHANGED <<clock, feed, receipts, rows, runs, triggers>>

\* Receipt of the attempt, appended before the rows it counts.
ResourceRun ==
    [run |-> cyc.started, feed |-> Now.feed, scope |-> Now.scope, status |-> cyc.status,
     received |-> IF cyc.status \in Checked THEN clock ELSE None,
     count |-> Cardinality(Full(cyc.pages))]

\* What is asked for after the games: rosters, injuries, odds, props per game.
Dependents(games) ==
    LET order == SetToSeq(games)
    IN  <<OfWeek("rosters"), OfWeek("injuries"), OfWeek("odds")>>
        \o [i \in DOMAIN order |-> [feed |-> "props", scope |-> order[i]]]

\* The next resource, or the end of the cycle: games that were not observed
\* end it at once.
Advance ==
    LET listed == IF Now.feed = "games" THEN Contents(cyc.pages) ELSE cyc.listed
        rest == IF Now.feed # "games" THEN Tail(cyc.todo)
                ELSE IF cyc.status \in Checked THEN Dependents(listed) ELSE <<>>
    IN  /\ cyc' = Ask(cyc.started, rest, listed)
        /\ pc' = IF rest = <<>> THEN "finalize" ELSE "fetch"

RecordReceipt ==
    /\ pc = "receipt"
    /\ receipts' = receipts \cup {ResourceRun}
    /\ IF Full(cyc.pages) # {} THEN pc' = "append" /\ UNCHANGED cyc ELSE Advance
    /\ UNCHANGED <<clock, feed, rows, runs, triggers, raw, used>>

\* Mutant: the rows are stamped with the first page.
StampFirst(pages, p) == IF Now.feed \in Paged THEN Min({q.at : q \in pages}) ELSE p.at

\* Availability of the rows: the receipt of the last page for the paginated
\* feeds, the response itself for a single request.
Stamp(pages, p) == IF Now.feed \in Paged THEN Max({q.at : q \in pages}) ELSE p.at

AppendRows ==
    /\ pc = "append"
    /\ rows' = rows \cup {[run |-> cyc.started, feed |-> Now.feed, scope |-> Now.scope,
                           v |-> p.v, at |-> Stamp(cyc.pages, p)] : p \in Full(cyc.pages)}
    /\ Advance
    /\ UNCHANGED <<clock, feed, receipts, runs, triggers, raw, used>>

\* Status of the cycle from the statuses of its resources (props count once).
Mine == {r \in receipts : r.run = cyc.started}
Succeeded(f) == \A r \in {q \in Mine : q.feed = f} : r.status \in Checked
\* Mutant: the player props do not count.
CycleStatusNoProps ==
    LET games == {r \in Mine : r.feed = "games"}
        dependent == {"rosters", "injuries", "odds"}
    IN  IF \E r \in games : r.status \notin Checked THEN "FAILED"
        ELSE IF \A f \in dependent : Succeeded(f) THEN "SUCCESS"
        ELSE IF \E f \in dependent : Succeeded(f) THEN "PARTIAL" ELSE "FAILED"
CycleStatus ==
    LET games == {r \in Mine : r.feed = "games"}
        dependent == Feeds \ {"games"}
    IN  IF \E r \in games : r.status \notin Checked THEN "FAILED"
        ELSE IF \A f \in dependent : Succeeded(f) THEN "SUCCESS"
        ELSE IF \E f \in dependent : Succeeded(f) THEN "PARTIAL" ELSE "FAILED"

Finalize ==
    /\ pc = "finalize"
    /\ runs' = runs \cup {[started |-> cyc.started, completed |-> clock,
                           status |-> CycleStatus]}
    /\ pc' = "trigger"
    /\ UNCHANGED <<clock, feed, cyc, receipts, rows, triggers, raw, used>>

\* The runtime loop records why the cycle ran, and releases the lock.
RecordTrigger ==
    /\ pc = "trigger"
    /\ triggers' = triggers \cup {cyc.started}
    /\ pc' = "idle"
    /\ cyc' = Idle
    /\ UNCHANGED <<clock, feed, receipts, rows, runs, raw, used>>

\* The process is killed: what it had in memory is gone, a response may have
\* been stored without its metadata.
Kill ==
    /\ pc # "idle"
    /\ Trouble
    /\ \/ UNCHANGED raw
       \/ /\ pc = "fetch"
          /\ raw' = Stored(Response(<<"page", Len(feed[Now.feed]), 0>>), clock, {"zst"})
    /\ pc' = "idle"
    /\ cyc' = Idle
    /\ UNCHANGED <<clock, feed, receipts, rows, runs, triggers>>

\* Time between two cycles.
Wait ==
    /\ pc = "idle"
    /\ Trouble
    /\ Later(Pause)
    /\ UNCHANGED <<feed, pc, cyc, receipts, rows, runs, triggers, raw>>

\* The resolver reads the schedule outside every cycle; only its raw payload
\* is kept.
Discover ==
    /\ pc = "idle"
    /\ Trouble
    /\ Later(1)
    /\ raw' = WriteJson([feed |-> "games", scope |-> "season", cursor |-> 0,
                         body |-> <<"page", Len(feed["games"]), 0>>], clock')
    /\ UNCHANGED <<feed, pc, cyc, receipts, rows, runs, triggers>>

----------------------------------------------------------------------------

Init ==
    /\ clock = 0
    /\ \E empty \in SUBSET Empty :
         /\ feed = [f \in Feeds |-> <<[content |-> IF f \in empty THEN {} ELSE Games,
                                       since |-> 0]>>]
    /\ pc = "idle"
    /\ cyc = Idle
    /\ receipts = {} /\ rows = {} /\ runs = {} /\ triggers = {}
    \* one payload of an earlier release, with or without readable metadata
    /\ \E files \in {{"json", "meta"}, {"json"}} :
         raw = [id \in {[feed |-> "games", scope |-> "season", cursor |-> 0,
                         body |-> <<"legacy">>]} |->
                   [files |-> files, born |-> 0,
                    received |-> IF "meta" \in files THEN 0 ELSE None]]
    /\ used = [cycles |-> 0, trouble |-> 0]

\* The collecting process, as one uninterrupted thread.
Collect == \/ \E next \in Cursors \cup 0..Cardinality(Games) : Page(next)
           \/ \E kind \in Faults : Fail(kind)
           \/ RecordReceipt \/ AppendRows \/ Finalize \/ RecordTrigger

Next ==
    \/ Start
    \/ Collect
    \/ \E f \in Changing, content \in SUBSET Games : Publish(f, content)
    \/ Housekeeping \/ HousekeepingKilled
    \/ Kill \/ Wait \/ Discover

Spec == Init /\ [][Next]_vars

\* Every request is answered or times out, and the process runs on.
FairSpec == Spec /\ WF_vars(Collect)

----------------------------------------------------------------------------
(* Properties *)

TypeOK ==
    /\ clock \in 0..MaxClock
    /\ pc \in {"idle", "fetch", "receipt", "append", "finalize", "trigger"}
    /\ cyc.attempt \in 0..MaxRetries
    /\ \A r \in receipts : r.feed \in Feeds /\ r.received \in None..clock
    /\ \A r \in rows : r.at \in 0..clock /\ r.v \in 1..Len(feed[r.feed])
    /\ \A r \in runs : r.status \in {"SUCCESS", "PARTIAL", "FAILED"}
    /\ \A id \in DOMAIN raw : raw[id].files \subseteq {"json", "zst", "meta"}

\* No row says it was available before the provider showed its content: the
\* receipt of a fetch is taken after its last page (providers/bdl/provider.py).
NothingBeforeItWasShown ==
    \A r \in rows : feed[r.feed][r.v].since <= r.at

\* A feed recorded as observed and empty WAS empty at some moment of the
\* cycle: an error, a timeout or a dropped page never passes for "no market"
\* (collection/service.py, _attempt).
AbsenceIsObserved ==
    \A r \in {q \in receipts : q.status \in Checked /\ q.count = 0} :
        \E i \in DOMAIN feed[r.feed] :
            /\ ~Holds(r.feed, r.scope, feed[r.feed][i].content)
            /\ feed[r.feed][i].since <= r.received
            /\ i < Len(feed[r.feed]) => feed[r.feed][i + 1].since >= r.run

\* The row of a cycle vouches for the rest of it: every receipt it wrote has
\* its rows, a SUCCESS has a checked receipt for every feed and for every
\* game its schedule rows list, and only a SUCCESS hides no failed receipt.
FinishedCycleIsWhole ==
    \A c \in runs :
        LET mine == {r \in receipts : r.run = c.started}
            stored == {r \in rows : r.run = c.started}
            listed == UNION {feed["games"][r.v].content :
                                r \in {q \in stored : q.feed = "games"}}
            complete == /\ \A f \in Feeds : \E r \in mine : r.feed = f
                        /\ \A g \in listed : \E r \in mine : r.feed = "props" /\ r.scope = g
                        /\ \A r \in mine : r.status \in Checked
        IN  /\ \A r \in mine :
                 r.count > 0 <=> \E q \in stored : q.feed = r.feed /\ q.scope = r.scope
            /\ c.status = "SUCCESS" <=> complete

\* A payload loses its last copy only when it is too old: never in a
\* conversion, nor before Keep, and not before Cap when it was received in a
\* cycle whose row says it did not succeed (platform/storage_guard.py).
EvidenceExpires ==
    [][\A id \in DOMAIN raw :
          (/\ Payload(raw[id]) # {}
           /\ id \in DOMAIN raw' => Payload(raw'[id]) = {})
          => /\ clock - raw[id].born > Keep
             /\ (/\ \E r \in runs : /\ r.status # "SUCCESS"
                                     /\ raw[id].received \in r.started..r.completed
                 => clock - raw[id].received > Cap)]_vars

\* A cycle ends: a provider that repeats a cursor or fails for ever cannot
\* hold the writer lock (providers/bdl/client.py).
CycleEnds == (pc # "idle") ~> (pc = "idle")

=============================================================================
