------------------------------ MODULE Attachments ------------------------------
(***************************************************************************)
(* A voice note or a picture of a lead is stored as a placeholder, and no  *)
(* reply is written while the placeholder is the newest line of the chat.  *)
(* A job of the branch fetches the bytes and has them turned into words,   *)
(* all attachments it finds in one transaction; a button of the panel does *)
(* the same to one of them.  A transcription is a job at the broker whose  *)
(* id the message remembers.                                               *)
(*                                                                         *)
(* Attachments have a url to fetch them from: only those are flagged.      *)
(***************************************************************************)
EXTENDS Integers, FiniteSets, FiniteSetsExt

CONSTANTS
  Voices,     \* attachments of kind audio
  Pictures,   \* attachments of kind image
  MaxExtras   \* bound: presses of the button, passes undone by a kill or a
              \* database error, and requests gone astray, together

Media == Voices \cup Pictures
ASSUME MediaAssumption ==
  /\ IsFiniteSet(Media)
  /\ Voices \cap Pictures = {}
  /\ MaxExtras \in Nat

VARIABLES
  line,    \* the message: its text, media_pending, media_job_id, the bytes
  fresh,   \* those younger than _MEDIA_RETRY_WINDOW
  due,     \* those whose media_next_try_at has come
  pass,    \* backfill_media_branch
  press,   \* chat_media_recognize
  jobs,    \* transcriptions ordered of each and not seen to end
  astray,  \* requests about each that failed here and not at the broker
  presses, crashes

mediaVars == <<line, fresh, due, pass, press, jobs, astray, presses, crashes>>
------------------------------------------------------------------------------
Text == {"", "placeholder", "words", "unavailable"}
Line == [text : Text, pending : BOOLEAN, job : BOOLEAN, bytes : BOOLEAN]
NoLine == [text |-> "", pending |-> FALSE, job |-> FALSE, bytes |-> FALSE]
Flagged == [NoLine EXCEPT !.text = "placeholder", !.pending = TRUE]

NoRows == [m \in {} |-> NoLine]
NoBackfill == [open |-> FALSE, queue |-> {}, seen |-> NoRows, rows |-> NoRows,
               listed |-> {}, later |-> {}, ended |-> {}]
NoPress    == [of |-> {}, seen |-> NoLine]

\* _release_media_hold
Released(r) == [r EXCEPT !.text = IF @ = "placeholder" THEN "unavailable" ELSE @,
                         !.pending = FALSE, !.job = FALSE]
Heard(r)    == [r EXCEPT !.text = "words", !.pending = FALSE, !.job = FALSE]

\* What a call to the broker may come to: words; a failure, or a job that is
\* still at work; a file it will never take.
Words == "words"
Again == "again"
Never == "never"

\* _recognize: the row after it, what came of it, and the change in the jobs
\* of the broker: one more, or the one that is over.
Said(r, what, begun, over) ==
  [row |-> IF what = Words THEN Heard(r) ELSE IF what = Never THEN Released(r) ELSE r,
   what |-> what, begun |-> begun, over |-> over, astray |-> 0]
\* An exception, a timeout say, tells nothing of the job.
GoneAstray(r, begun) == [Said(r, Again, begun, 0) EXCEPT !.astray = 1]

\* A slip: what has not come back by now is asked for anew.
Forgets(r) ==
  {Said([r EXCEPT !.job = FALSE], Again, 0, 0),
   Said([r EXCEPT !.job = FALSE], Again, 0, 1), Said(r, Words, 0, 1)}
\* Whatever the exception, the id is dropped and the next try orders anew.
Polls(r) ==
  {Said(r, Again, 0, 0), Said([r EXCEPT !.job = FALSE], Again, 0, 1),
   Said(r, Words, 0, 1), GoneAstray([r EXCEPT !.job = FALSE], 0)}
Submits(r) ==
  {Said([r EXCEPT !.job = TRUE], Again, 1, 0), Said(r, Again, 0, 0),
   Said(r, Words, 0, 0), Said(r, Never, 0, 0), GoneAstray(r, 1)}

Recognised(m, r) ==
  CASE m \in Voices /\ r.job  -> Polls(r)
    [] m \in Voices /\ ~r.job -> Submits(r)
    [] m \in Pictures         -> {Said(r, Words, 0, 0), Said(r, Again, 0, 0)}

Extras == presses + crashes + MapThenSumSet(LAMBDA m : astray[m], Media)
\* What a request about m may come to.
Outcomes(m, r) == {s \in Recognised(m, r) : s.astray = 1 => Extras < MaxExtras}
------------------------------------------------------------------------------
(* The pass.                                                               *)
Listed == {m \in Media : line[m].pending /\ m \in due}

OpensBackfill ==
  /\ ~pass.open /\ Listed # {}
  /\ pass' = [open |-> TRUE, queue |-> Listed, seen |-> line, rows |-> line,
              listed |-> Listed, later |-> {}, ended |-> {}]
  /\ UNCHANGED <<line, fresh, due, press, jobs, astray, presses, crashes>>

ItsTurn(m) == pass.open /\ m \in pass.queue
Done(m, r, deferred, over) ==
  pass' = [pass EXCEPT !.queue = @ \ {m}, !.rows[m] = r,
                       !.later = IF deferred THEN @ \cup {m} ELSE @,
                       !.ended = IF over = 1 THEN @ \cup {m} ELSE @]

\* download_media is refused for good, or nothing reads a file of its kind.
TooBig(m) ==
  /\ ItsTurn(m) /\ ~pass.rows[m].bytes
  /\ Done(m, Released(pass.rows[m]), FALSE, 0)
  /\ UNCHANGED <<line, fresh, due, press, jobs, astray, presses, crashes>>

\* A slip: it is tried again however old it is.
KeepsTrying(m) ==
  /\ ItsTurn(m) /\ ~pass.rows[m].bytes
  /\ Done(m, pass.rows[m], TRUE, 0)
  /\ UNCHANGED <<line, fresh, due, press, jobs, astray, presses, crashes>>
DownloadFails(m) ==
  /\ ItsTurn(m) /\ ~pass.rows[m].bytes
  /\ IF m \in fresh THEN Done(m, pass.rows[m], TRUE, 0)
     ELSE Done(m, Released(pass.rows[m]), FALSE, 0)
  /\ UNCHANGED <<line, fresh, due, press, jobs, astray, presses, crashes>>

\* The bytes are there, or come now.
Recognises(m) ==
  /\ ItsTurn(m)
  /\ \E s \in Outcomes(m, [pass.rows[m] EXCEPT !.bytes = TRUE]) :
       /\ IF s.what = Again /\ m \in fresh THEN Done(m, s.row, TRUE, s.over)
          ELSE IF s.what = Again THEN Done(m, Released(s.row), FALSE, s.over)
          ELSE Done(m, s.row, FALSE, s.over)
       /\ jobs' = [jobs EXCEPT ![m] = @ + s.begun]
       /\ astray' = [astray EXCEPT ![m] = @ + s.astray]
  /\ UNCHANGED <<line, fresh, due, press, presses, crashes>>

\* What a session writes of a row: the attributes that it has changed.
Written(now, seen, mine) ==
  [f \in DOMAIN now |-> IF mine[f] = seen[f] THEN now[f] ELSE mine[f]]
Ended(E) == [m \in Media |-> IF m \in E /\ jobs[m] > 0 THEN jobs[m] - 1 ELSE jobs[m]]

CommitsBackfill ==
  /\ pass.open /\ pass.queue = {}
  /\ line' = [m \in Media |-> Written(line[m], pass.seen[m], pass.rows[m])]
  /\ due' = due \ pass.later
  /\ jobs' = Ended(pass.ended)
  /\ pass' = NoBackfill
  /\ UNCHANGED <<fresh, press, astray, presses, crashes>>

BackfillDies ==
  /\ pass.open /\ Extras < MaxExtras /\ crashes' = crashes + 1
  /\ pass' = NoBackfill
  /\ UNCHANGED <<line, fresh, due, press, jobs, astray, presses>>
------------------------------------------------------------------------------
(* The button: one request, which reads, asks and writes.  What the pass   *)
(* has written it waits for, as the row is locked.                         *)
Presses(m) ==
  /\ Extras < MaxExtras /\ presses' = presses + 1
  /\ press.of = {} /\ line[m].bytes
  /\ press' = [of |-> {m}, seen |-> line[m]]
  /\ UNCHANGED <<line, fresh, due, pass, jobs, astray, crashes>>

Locked(m) == m \in pass.listed \ pass.queue
PressAnswered(m) ==
  /\ press.of = {m} /\ ~Locked(m)
  /\ \E s \in Outcomes(m, press.seen) :
       /\ line' = [line EXCEPT ![m] = Written(@, press.seen, s.row)]
       /\ jobs' = [jobs EXCEPT ![m] = IF s.over = 1 /\ @ > 0 THEN @ - 1
                                      ELSE @ + s.begun]
       /\ astray' = [astray EXCEPT ![m] = @ + s.astray]
  /\ press' = NoPress
  /\ UNCHANGED <<fresh, due, pass, presses, crashes>>
------------------------------------------------------------------------------
WindowCloses(m) ==
  /\ m \in fresh /\ fresh' = fresh \ {m}
  /\ UNCHANGED <<line, due, pass, press, jobs, astray, presses, crashes>>
\* media_next_try_at, pushed out by _defer, comes.
ComesDue(m) ==
  /\ m \notin due /\ line[m].pending /\ due' = due \cup {m}
  /\ UNCHANGED <<line, fresh, pass, press, jobs, astray, presses, crashes>>

\* What ingest has stored with a stub of its media and the flag.
MediaInit ==
  /\ line \in [Media -> {NoLine, Flagged}]
  /\ due = {m \in Media : line[m].pending} /\ fresh = due
  /\ pass = NoBackfill /\ press = NoPress
  /\ jobs = [m \in Media |-> 0] /\ astray = jobs /\ presses = 0 /\ crashes = 0

MediaNext ==
  \/ OpensBackfill
  \/ CommitsBackfill
  \/ BackfillDies
  \/ \E m \in Media : \/ TooBig(m) \/ DownloadFails(m) \/ Recognises(m)
                      \/ Presses(m) \/ PressAnswered(m)
                      \/ WindowCloses(m) \/ ComesDue(m)

BackfillGoesOn ==
  \/ OpensBackfill \/ CommitsBackfill
  \/ \E m \in Media : TooBig(m) \/ DownloadFails(m) \/ Recognises(m)
MediaFairness ==
  /\ WF_mediaVars(BackfillGoesOn)
  /\ WF_mediaVars(\E m \in Media : WindowCloses(m))
  /\ WF_mediaVars(\E m \in Media : ComesDue(m))
MediaSpec == MediaInit /\ [][MediaNext]_mediaVars /\ MediaFairness
------------------------------------------------------------------------------
MediaTypeOK ==
  /\ line \in [Media -> Line]
  /\ fresh \subseteq Media /\ due \subseteq Media
  /\ pass.open => pass.rows \in [Media -> Line]
  /\ jobs \in [Media -> Nat] /\ astray \in [Media -> Nat]

(* "A thread frozen with no answer and no alert is the worse of the two":  *)
(* while attachments can be downloaded at all, no placeholder stays, and   *)
(* so no reply is held for ever, whatever fails on the way.                *)
HoldEnds == \A m \in Media : []<>(line[m].text # "placeholder")

(* A transcription that takes long is waited for and not ordered again:    *)
(* the broker works on one of each attachment, and one more for every pass *)
(* that died with the id, for every press of the button and for every      *)
(* request whose failure was not the job's.                                *)
OneJob == \A m \in Media : jobs[m] <= 1 + crashes + presses + astray[m]
==============================================================================
