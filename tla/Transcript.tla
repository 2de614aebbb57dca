------------------------------ MODULE Transcript ------------------------------
(***************************************************************************)
(* The messages of one thread as the platform has them and as our table    *)
(* has them.  A line reaches the table along several paths at once: a      *)
(* webhook, a poll that reads the thread again, and, for the lines of the  *)
(* outbox, the sender's own bookkeeping.  A path may describe the line     *)
(* differently (another id, a photo without its content), so the ingest    *)
(* code recognises a copy by id first and by resemblance then.  A manager  *)
(* may retract a line of ours or delete our copy of a line of the lead.    *)
(*                                                                         *)
(* A line is an element of a finite set.  Time is the moment a line was    *)
(* said: two lines of one moment lie within _DEDUP_WINDOW of each other,   *)
(* lines of different moments do not, and no two lines have the same text. *)
(***************************************************************************)
EXTENDS Integers, FiniteSetsExt

CONSTANTS
  Texts,       \* what the lead types
  Photos,      \* attachments and shares the lead sends
  Robots,      \* what the lead's auto-responder answers
  Owns,        \* lines of our outbox
  Hands,       \* what a manager types in the platform's own app
  Poller,      \* the branch's ingest job: one at a time, by its job id
  OffMinutes,  \* its off-minute ingest job, likewise, or none
  HookJobs,    \* webhook jobs: all these overlap with each other
  Idle,        \* the deletion job is between two rows
  MaxClock,    \* bound: moments
  RevokeAge,   \* moments after which a retraction is given up (six hours)
  MaxUnsends,  \* bound: retractions a manager asks for
  MaxMishaps   \* bound: copies of the lead's lines a manager deletes,
               \* retractions sent to the channel's other threads, and
               \* processes killed, together

Polls     == {Poller} \cup OffMinutes
Readers   == Polls \cup HookJobs
LeadLines == Texts \cup Photos \cup Robots
OurLines  == Owns \cup Hands
Lines     == LeadLines \cup OurLines

(* What a connector's poll is like (connectors/*.py, adapters/channels).   *)
Link == [hooked : BOOLEAN,  \* a webhook delivers the lead's lines as well
         own : {"never", "other", "same"},
            \* our lines in a poll: left out, under another id than the one
            \* the send returned, or under the same
         drifts : BOOLEAN,  \* a thread may move inboxes and change all ids
         blanks : BOOLEAN,  \* a poll may not say what an attachment is
         revokes : BOOLEAN, \* Capability.REVOKE
         readers : SUBSET Readers, \* the jobs and the lines of a behaviour
         lines : SUBSET Lines]
Instagram(R, L) ==
  [hooked |-> FALSE, own |-> "other", drifts |-> TRUE, blanks |-> FALSE,
   revokes |-> TRUE, readers |-> R, lines |-> L]
Meta(R, L) ==
  [hooked |-> TRUE, own |-> "never", drifts |-> FALSE, blanks |-> TRUE,
   revokes |-> FALSE, readers |-> R, lines |-> L]
WhatsApp(R, L) ==
  [hooked |-> FALSE, own |-> "same", drifts |-> FALSE, blanks |-> FALSE,
   revokes |-> FALSE, readers |-> R, lines |-> L]

(* A row of the table, and a line as a reader describes it.                *)
Id   == {"first", "second", "send"}
Body == {"text", "rich", "blank"}
Row  == [line : Lines, id : Id, body : Body, wanted : BOOLEAN,
         revoked : BOOLEAN]
Copy == [line : Lines, id : Id, body : Body]

CONSTANT Links   \* the connectors of a run
ASSUME TranscriptAssumption ==
  /\ \A k \in Links :
       /\ k \in Link
       /\ k \in {Instagram(k.readers, k.lines), Meta(k.readers, k.lines),
                 WhatsApp(k.readers, k.lines)}
  /\ IsFiniteSet(Lines)
  /\ Photos \cap (Texts \cup Robots) = {} /\ LeadLines \cap OurLines = {}
  /\ Texts \cap Robots = {} /\ Owns \cap Hands = {}
  /\ Idle \notin Row
  /\ MaxClock \in Nat \ {0}
  /\ {RevokeAge, MaxUnsends, MaxMishaps} \subseteq Nat

VARIABLES
  link,     \* the connector of the thread
  clock,    \* the moment
  at,       \* when a line was said, 0 if it was not
  gone,     \* lines retracted on the platform
  moved,    \* whether the thread has changed inboxes, so that a poll reads
            \* other ids: "no", "idly" or "amid" a poll
  rows,     \* the message table
  marks,    \* last_in_at, last_out_at, the start of window_until
  hooks,    \* webhook jobs on their way
  run,      \* each reader's job and transaction
  sender,   \* how far the sender is with each of our lines
  eraser,   \* the row whose revoke has succeeded, or Idle
  spent     \* how much of each bound is used

vars == <<link, clock, at, gone, moved, rows, marks, hooks, run, sender,
          eraser, spent>>
------------------------------------------------------------------------------
IsIn(x)   == x.line \in LeadLines
Nearby(x, y) == at[x.line] = at[y.line]
Newest(R) == IF R = {} THEN 0 ELSE Max({at[x.line] : x \in R})
Live      == {x \in rows : ~x.revoked}

\* The id under which a poll reads a line.
PolledId(l) ==
  IF l \in Owns /\ link.own = "same" THEN "send"
  ELSE IF moved # "no" THEN "second" ELSE "first"

\* The descriptions a poll gives of a line; text-only says whether Graph
\* refused the media fields on this tick.
Polled(l, textOnly) ==
  [line |-> l, id |-> PolledId(l),
   body |-> IF l \notin Photos THEN "text"
            ELSE IF textOnly THEN "blank" ELSE "rich"]

\* What a poll of the thread returns.
Page(textOnly) ==
  {Polled(l, textOnly) : l \in
     {k \in Lines \ gone : at[k] # 0 /\ (k \in OurLines => link.own # "never")}}

Hooked(l) == [line |-> l, id |-> "first",
              body |-> IF l \in Photos THEN "rich" ELSE "text"]

Unmarked == [lastIn |-> 0, lastOut |-> 0, window |-> 0]
NoRun == [phase |-> "idle", page |-> {}, new |-> {}, fills |-> {},
          seen |-> Unmarked, marks |-> Unmarked]
Busy(c, phase) == [NoRun EXCEPT !.phase = phase, !.page = c]

Spend(what) == [spent EXCEPT ![what] = @ + 1]
Mishap(what) ==
  /\ spent.erased + spent.astray + spent.deaths < MaxMishaps
  /\ spent' = Spend(what)
------------------------------------------------------------------------------
(* The world: time, the lead, the manager's phone, the platform.           *)
Ticks ==
  /\ clock < MaxClock
  /\ clock' = clock + 1
  /\ UNCHANGED <<link, at, gone, moved, rows, marks, hooks, run, sender,
                 eraser, spent>>

Says(l) ==
  /\ l \in (LeadLines \cup Hands) \cap link.lines
  /\ at[l] = 0 /\ clock < MaxClock
  /\ at' = [at EXCEPT ![l] = clock]
  /\ hooks' = IF link.hooked /\ l \in LeadLines THEN hooks \cup {l} ELSE hooks
  /\ UNCHANGED <<link, clock, gone, moved, rows, marks, run, sender, eraser,
                 spent>>

LosesHook(l) ==
  /\ l \in hooks
  /\ hooks' = hooks \ {l}
  /\ UNCHANGED <<link, clock, at, gone, moved, rows, marks, run, sender,
                 eraser, spent>>

Moves ==
  /\ link.drifts /\ moved = "no"
  /\ moved' = IF \E r \in Polls : run[r].phase # "idle" THEN "amid" ELSE "idly"
  /\ UNCHANGED <<link, clock, at, gone, rows, marks, hooks, run, sender,
                 eraser, spent>>
------------------------------------------------------------------------------
(* Readers.  A poll reads the platform, then opens its transaction; a      *)
(* webhook job has its line already.  Both end in IngestService.ingest.    *)

\* The off-minute job reads official connectors, and others while the lead
\* waits for an answer (_channels_with_live_convo).
Lively == link.hooked \/ marks.lastIn > marks.lastOut

StartPoll(r) ==
  /\ r \in link.readers /\ run[r].phase = "idle"
  /\ r \in OffMinutes => Lively
  /\ \E textOnly \in {FALSE, link.blanks} :
       /\ Page(textOnly) # {}
       /\ run' = [run EXCEPT ![r] = Busy(Page(textOnly), "fetched")]
  /\ UNCHANGED <<link, clock, at, gone, moved, rows, marks, hooks, sender,
                 eraser, spent>>

StartHook(r, l) ==
  /\ r \in link.readers /\ run[r].phase = "idle" /\ l \in hooks
  /\ hooks' = hooks \ {l}
  /\ run' = [run EXCEPT ![r] = Busy({Hooked(l)}, "fetched")]
  /\ UNCHANGED <<link, clock, at, gone, moved, rows, marks, sender, eraser,
                 spent>>

\* The table as a transaction sees it: the committed rows, those it has
\* filled in, those it has added.
Filled(x, fills) ==
  IF \E f \in fills : f.old = x THEN (CHOOSE f \in fills : f.old = x).new
  ELSE x
View(t) == {Filled(x, t.fills) : x \in rows} \cup t.new

\* by_external: a row has this very id.
ByExternal(view, c) == \E x \in view : x.line = c.line /\ x.id = c.id
\* A slip: only our own lines are compared by their words.
OwnByContent(view, c) ==
  c.body = "text" /\ ~IsIn(c) /\ \E x \in view : x.line = c.line /\ Nearby(x, c)
\* A slip: a retracted row is not looked at.
LiveByContent(view, c) ==
  c.body = "text" /\ \E x \in view : ~x.revoked /\ x.line = c.line /\ Nearby(x, c)
\* The same words within the window, a retracted row included.
ByContent(view, c) ==
  c.body = "text" /\ \E x \in view : x.line = c.line /\ Nearby(x, c)
\* A slip: whatever arrives beside a rich row is its other copy.
AnyRich(view, c) ==
  c.body # "rich" /\ \E x \in view : IsIn(x) /\ Nearby(x, c) /\ x.body = "rich"
\* The poll's blank copy next to the webhook's rich one, and the reverse.
Rich(view, c) ==
  c.body = "blank" /\ \E x \in view : IsIn(x) /\ Nearby(x, c) /\ x.body = "rich"
Blanks(view, c) ==
  {x \in view : c.body = "rich" /\ IsIn(x) /\ Nearby(x, c) /\ x.body = "blank"}

Recognised(view, c) ==
  ByExternal(view, c) \/ ByContent(view, c) \/ (IsIn(c) /\ Rich(view, c))

RowOf(c) == [line |-> c.line, id |-> c.id, body |-> c.body, wanted |-> FALSE,
             revoked |-> FALSE]

\* A slip: the end of the window is written where its start belongs.
LateMarked(m, l) ==
  IF l \in OurLines THEN [m EXCEPT !.lastOut = Max({@, at[l]})]
  ELSE IF at[l] <= m.lastIn THEN m
  ELSE IF l \in Robots THEN [m EXCEPT !.window = at[l] + MaxClock]
  ELSE [m EXCEPT !.window = at[l] + MaxClock, !.lastIn = at[l]]
\* The watermarks after a stored line: only a newer one moves them, and an
\* automatic answer opens the window and moves nothing else.
Marked(m, l) ==
  IF l \in OurLines THEN [m EXCEPT !.lastOut = Max({@, at[l]})]
  ELSE IF at[l] <= m.lastIn THEN m
  ELSE IF l \in Robots THEN [m EXCEPT !.window = at[l]]
  ELSE [m EXCEPT !.window = at[l], !.lastIn = at[l]]

Adds(t, c) == [t EXCEPT !.new = @ \cup {RowOf(c)}, !.marks = Marked(@, c.line)]

\* _fill_in_blank: the row takes the content and the id of the copy.
FillsIn(t, c, x) ==
  LET filled == [x EXCEPT !.line = c.line, !.id = c.id, !.body = c.body]
  IN IF x \in t.new THEN [t EXCEPT !.new = (@ \ {x}) \cup {filled}]
     ELSE [t EXCEPT !.fills = @ \cup {[old |-> x, new |-> filled]}]

\* One message of a batch.
Ingest(t, c) ==
  LET view == View(t) IN
  CASE Recognised(view, c)                  -> t
    [] ~Recognised(view, c) /\ IsIn(c) /\ Blanks(view, c) # {}
         -> FillsIn(t, c, CHOOSE x \in Blanks(view, c) : TRUE)
    [] OTHER                                -> Adds(t, c)

\* A page is stored oldest first; what arrived together, in any order.
OldestFirst(page) ==
  {o \in [1..Cardinality(page) -> page] :
     \A i, j \in 1..Cardinality(page) :
       i < j => o[i] # o[j] /\ at[o[i].line] <= at[o[j].line]}

\* A transaction that begins, and after the first n messages of o.
Begun(t) == [t EXCEPT !.phase = "open", !.seen = marks, !.marks = marks]
Stored(begun, o, n) ==
  LET after[i \in 0..n] == IF i = 0 THEN begun ELSE Ingest(after[i - 1], o[i])
  IN after[n]

\* IngestService.ingest over a page, up to the commit.
Opens(r) ==
  /\ run[r].phase = "fetched"
  /\ \E o \in OldestFirst(run[r].page) :
       run' = [run EXCEPT ![r] =
                 Stored(Begun(run[r]), o, Cardinality(run[r].page))]
  /\ UNCHANGED <<link, clock, at, gone, moved, rows, marks, hooks, sender,
                 eraser, spent>>

\* The unique constraint on (channel_id, external_id).
Clashes(R, new) == \E x \in R, y \in new : x.line = y.line /\ x.id = y.id
Written(seen, new) ==
  [f \in DOMAIN marks |-> IF new[f] = seen[f] THEN marks[f] ELSE new[f]]

Commits(r) ==
  /\ run[r].phase = "open"
  /\ ~Clashes({x \in rows : Filled(x, run[r].fills) = x},
              run[r].new \cup {f.new : f \in run[r].fills})
  /\ rows' = View(run[r])
  /\ marks' = Written(run[r].seen, run[r].marks)
  /\ run' = [run EXCEPT ![r] = NoRun]
  /\ UNCHANGED <<link, clock, at, gone, moved, hooks, sender, eraser, spent>>

\* IntegrityError: the batch is lost, and so is a webhook's only one.
Aborts(r) ==
  /\ run[r].phase = "open"
  /\ Clashes({x \in rows : Filled(x, run[r].fills) = x},
             run[r].new \cup {f.new : f \in run[r].fills})
  /\ run' = [run EXCEPT ![r] = NoRun]
  /\ UNCHANGED <<link, clock, at, gone, moved, rows, marks, hooks, sender,
                 eraser, spent>>
------------------------------------------------------------------------------
(* The sender: the line is on the platform before its row is in the table. *)
Delivers(l) ==
  /\ l \in Owns \cap link.lines /\ sender[l] = "queued" /\ clock < MaxClock
  /\ at' = [at EXCEPT ![l] = clock]
  /\ sender' = [sender EXCEPT ![l] = "delivered"]
  /\ UNCHANGED <<link, clock, gone, moved, rows, marks, hooks, run, eraser,
                 spent>>

SentRow(l) == [line |-> l, id |-> "send", body |-> "text", wanted |-> FALSE,
               revoked |-> FALSE]

\* Its transaction ends: a poll that stored the same id first undoes it.
Records(l) ==
  /\ l \in Owns /\ sender[l] = "delivered"
  /\ IF Clashes(rows, {SentRow(l)})
     THEN /\ sender' = [sender EXCEPT ![l] = "lost"]
          /\ UNCHANGED <<rows, marks>>
     ELSE /\ sender' = [sender EXCEPT ![l] = "recorded"]
          /\ rows' = rows \cup {SentRow(l)}
          /\ marks' = [marks EXCEPT !.lastOut = at[l]]
  /\ UNCHANGED <<link, clock, at, gone, moved, hooks, run, eraser, spent>>

SenderDies(l) ==
  /\ l \in Owns /\ sender[l] = "delivered" /\ Mishap("deaths")
  /\ sender' = [sender EXCEPT ![l] = "lost"]
  /\ UNCHANGED <<link, clock, at, gone, moved, rows, marks, hooks, run,
                 eraser>>
------------------------------------------------------------------------------
(* Retraction of our lines, deletion of the copy of theirs.                *)
AsksUnsend(x) ==
  /\ x \in Live /\ ~IsIn(x) /\ ~x.wanted /\ spent.unsends < MaxUnsends
  /\ eraser # x
  /\ rows' = (rows \ {x}) \cup {[x EXCEPT !.wanted = TRUE]}
  /\ spent' = Spend("unsends")
  /\ UNCHANGED <<link, clock, at, gone, moved, marks, hooks, run, sender,
                 eraser>>

\* A slip: a retraction is tried for ever.
NeverTooOld(x) == FALSE
TooOld(x) == clock - at[x.line] > RevokeAge

GivesUp(x) ==
  /\ x \in rows /\ x.wanted /\ link.revokes /\ eraser = Idle /\ TooOld(x)
  /\ rows' = (rows \ {x}) \cup {[x EXCEPT !.wanted = FALSE]}
  /\ UNCHANGED <<link, clock, at, gone, moved, marks, hooks, run, sender,
                 eraser, spent>>

\* The revoke succeeds, or finds the line gone already.
Revokes(x) ==
  /\ x \in rows /\ x.wanted /\ link.revokes /\ eraser = Idle /\ ~TooOld(x)
  /\ gone' = gone \cup {x.line}
  /\ eraser' = x
  /\ UNCHANGED <<link, clock, at, moved, rows, marks, hooks, run, sender,
                 spent>>

\* While another thread of the channel has a request, process goes through the
\* requests of the whole channel with that thread's id.  The platform finds
\* no such line there, which the adapter takes for gone (_already_gone).
RevokesNextDoor(x) ==
  /\ x \in rows /\ x.wanted /\ link.revokes /\ eraser = Idle /\ ~TooOld(x)
  /\ Mishap("astray")
  /\ eraser' = x
  /\ UNCHANGED <<link, clock, at, gone, moved, rows, marks, hooks, run, sender>>

\* A slip: the timeout is taken for a success.
TimeoutRevokes(x) ==
  /\ x \in rows /\ x.wanted /\ link.revokes /\ eraser = Idle /\ ~TooOld(x)
  /\ gone' \in {gone, gone \cup {x.line}}
  /\ eraser' = x
  /\ UNCHANGED <<link, clock, at, moved, rows, marks, hooks, run, sender,
                 spent>>

\* It fails, or takes longer than _REVOKE_TIMEOUT_S and succeeds unseen.
RevokeFails(x) ==
  /\ x \in rows /\ x.wanted /\ link.revokes /\ eraser = Idle /\ ~TooOld(x)
  /\ gone' \in {gone, gone \cup {x.line}}
  /\ UNCHANGED <<link, clock, at, moved, rows, marks, hooks, run, sender,
                 eraser, spent>>

\* A slip: only the lead's side is rewound.
HalfRewound(m, R) ==
  [m EXCEPT !.lastIn  = Newest({x \in R : IsIn(x) /\ ~x.revoked})]

\* _delete_local: tombstone the row, rewind both watermarks to what is left.
Rewound(m, R) ==
  [m EXCEPT !.lastOut = Newest({x \in R : ~IsIn(x) /\ ~x.revoked}),
            !.lastIn  = Newest({x \in R : IsIn(x) /\ ~x.revoked})]
Tombstones ==
  /\ eraser # Idle
  /\ rows' = (rows \ {eraser}) \cup
             {[eraser EXCEPT !.wanted = FALSE, !.revoked = TRUE]}
  /\ marks' = Rewound(marks, rows')
  /\ eraser' = Idle
  /\ UNCHANGED <<link, clock, at, gone, moved, hooks, run, sender, spent>>

EraserDies ==
  /\ eraser # Idle /\ Mishap("deaths")
  /\ eraser' = Idle
  /\ UNCHANGED <<link, clock, at, gone, moved, rows, marks, hooks, run,
                 sender>>

\* ChatRepo.delete_message: the copy goes, last_in_at is what is left.
Erases(x) ==
  /\ x \in rows /\ IsIn(x) /\ Mishap("erased")
  /\ rows' = rows \ {x}
  /\ marks' = [marks EXCEPT !.lastIn = Newest({y \in rows' : IsIn(y)})]
  /\ UNCHANGED <<link, clock, at, gone, moved, hooks, run, sender, eraser>>
------------------------------------------------------------------------------
Init ==
  /\ link \in Links
  /\ clock = 1
  /\ at = [l \in Lines |-> 0]
  /\ gone = {}
  /\ moved = "no"
  /\ rows = {}
  /\ marks = Unmarked
  /\ hooks = {}
  /\ run = [r \in Readers |-> NoRun]
  /\ sender = [l \in Owns |-> "queued"]
  /\ eraser = Idle
  /\ spent = [erased |-> 0, unsends |-> 0, astray |-> 0, deaths |-> 0]

Next ==
  \/ Ticks
  \/ Moves
  \/ Tombstones
  \/ EraserDies
  \/ \E l \in Lines : Says(l) \/ LosesHook(l) \/ Delivers(l) \/ Records(l)
                      \/ SenderDies(l)
  \/ \E r \in Polls : StartPoll(r)
  \/ \E r \in Readers : Opens(r) \/ Commits(r) \/ Aborts(r)
  \/ \E r \in HookJobs, l \in Lines : StartHook(r, l)
  \/ \E x \in rows : AsksUnsend(x) \/ GivesUp(x) \/ Revokes(x)
                     \/ RevokesNextDoor(x) \/ RevokeFails(x) \/ Erases(x)

\* Cron ticks the deletion job every minute: it ends what it has begun and
\* reaches the rows that are too old.  That a revoke succeeds is not assumed.
GivingUp == \E x \in rows : GivesUp(x)
Fairness == WF_vars(Ticks) /\ WF_vars(GivingUp) /\ WF_vars(Tombstones)
Spec     == Init /\ [][Next]_vars /\ Fairness
------------------------------------------------------------------------------
(* Rows are rows of lines that were said, watermarks are moments, and a    *)
(* transaction adds well-formed rows.                                      *)
Moment == 0..MaxClock
Marks  == [lastIn : Moment, lastOut : Moment, window : Moment]
Run    == [phase : {"idle", "fetched", "open"}, page : SUBSET Copy,
           new : SUBSET Row, fills : SUBSET [old : Row, new : Row],
           seen : Marks, marks : Marks]
TypeOK ==
  /\ link \in Links /\ clock \in 1..MaxClock /\ moved \in {"no", "idly", "amid"}
  /\ at \in [Lines -> Moment]
  /\ gone \subseteq OurLines /\ hooks \subseteq LeadLines
  /\ rows \subseteq Row /\ marks \in Marks
  /\ run \in [Readers -> Run]
  /\ sender \in [Owns -> {"queued", "delivered", "recorded", "lost"}]
  /\ eraser \in Row \cup {Idle}
  /\ spent \in [erased : 0..MaxMishaps, unsends : 0..MaxUnsends,
                astray : 0..MaxMishaps, deaths : 0..MaxMishaps]

\* Two polls of the thread may overlap.
Crowded == link.readers \cap OffMinutes # {}

(* Whatever the paths and the ids, a line of the lead is one line of the   *)
(* conversation that the model reads.  Not promised for an attachment in a *)
(* thread that has changed inboxes (its text is a placeholder that two     *)
(* photos share), nor for a line of ours that a poll reads under another   *)
(* id before the sender has recorded it, nor, though ingest_branch says    *)
(* that the unique constraint makes a concurrent insert harmless, when the *)
(* inboxes change between two polls that overlap: they read two ids.       *)
StoredOnce ==
  \A x, y \in Live :
    x.line = y.line /\ x # y =>
      \/ x.line \in Owns /\ link.own = "other"
      \/ x.line \in Photos /\ moved # "no"
      \/ moved = "amid" /\ Crowded

(* "The UI never claims a retraction that didn't happen": a row is marked  *)
(* as revoked only when the line is gone from the platform, but for those  *)
(* whose retraction went to another thread of the channel.                 *)
RetractionTrue ==
  Cardinality({x \in rows : x.revoked /\ x.line \notin gone}) <= spent.astray

\* A retracted line is recognised by its tombstone: no later poll files it
\* as something a manager wrote (_delete_local).
Hidden(l) == /\ \E x \in rows : x.revoked /\ x.line = l
             /\ \A x \in Live : x.line # l
NotFiledAgain ==
  [][\A r \in Readers, l \in Lines :
       Hidden(l) /\ Opens(r) => \A x \in run[r].new' : x.line # l]_vars

(* A line of the lead after which nothing of ours is left in the chat is   *)
(* one the thread shows as unanswered: the watermarks follow a retraction  *)
(* of our answer.  Only where nobody deletes the lead's lines and a stale  *)
(* write of last_in_at cannot go through: a webhook and a poll that        *)
(* overlap, or two polls between which the ids change, write last_in_at    *)
(* each from the thread it has read.  Two polls that read the same ids     *)
(* clash instead, and the later one is lost.                               *)
Unanswered(x) ==
  x.line \in Texts \cup Photos /\ \A y \in Live : IsIn(y) \/ at[y.line] < at[x.line]
OwesAnswer ==
  ~link.hooked /\ spent.erased = 0 /\ ~(moved = "amid" /\ Crowded) =>
    \A x \in Live : Unanswered(x) => marks.lastIn > marks.lastOut

(* What a committed batch has read is in the table: recognising copies     *)
(* never takes one line for another, but for two attachments of the same   *)
(* moment, which a blank copy does not tell apart.                         *)
StandsFor(x, c) ==
  x.line = c.line \/ ({x.line, c.line} \subseteq Photos /\ Nearby(x, c))
NothingLost ==
  [][spent.erased = 0 =>
       \A r \in Readers : Commits(r) =>
         \A c \in run[r].page : \E x \in rows' : StandsFor(x, c)]_vars

(* A retraction the manager asked for is carried out or given up.          *)
UnsendEnds == link.revokes => <>[](\A x \in rows : ~x.wanted)
==============================================================================
