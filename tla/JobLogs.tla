------------------------------ MODULE JobLogs ------------------------------
(***************************************************************************)
(* The log of one deployment job or workflow run: the worker that writes   *)
(* it through the secret scrubber, the followers that poll the row and the *)
(* file, the cleanup of the project, and a crash of the Brain.             *)
(*                                                                         *)
(* file.parts is what the file holds, one part per opening of the file:    *)
(* the build or container output, then each appended lifecycle line.       *)
(* Bounds: MaxInput symbols of output in chunks of at most MaxChunk,       *)
(* MaxLines appended lines out of Lines, one crash, one cleanup.           *)
(***************************************************************************)
EXTENDS SecretScrubber

CONSTANTS Symbol, MaxInput, MaxChunk, Lines, MaxLines, Promoted, Reader

ASSUME LogAssumption == MaxInput \in Nat /\ MaxChunk \in Nat \ {0} /\ MaxLines \in Nat
(* Finitely many secrets; the replacement is no symbol of a text.          *)
ASSUME TextAssumption ==
  /\ IsFiniteSet(Secrets) /\ Secrets \subseteq Seq(Symbol)
  /\ Lines \subseteq Seq(Symbol)
  /\ Mark \notin Symbol

VARIABLES
  kind,       \* "job" or "run": which of the two tables the row is in
  row,        \* its status column, "done" for any terminal one
  path,       \* log_path IS NOT NULL
  file,       \* the log file
  worker,     \* what the worker does with this row
  tail,       \* the bytes the scrubbing writer holds back
  stream,     \* the follow requests
  clean,      \* the cleanup of the project
  crashes,
  input,      \* history: the output of the build or the container so far
  committed,  \* history: size of the log when the terminal status was committed
  overlap,    \* history: the cleanup ran beside the worker
  refused     \* history: a terminal update or the list of log paths failed

vars == <<kind, row, path, file, worker, tail, stream, clean, crashes, input, committed, overlap,
          refused>>

workerVars == <<path, worker, tail, input, committed>>

Chunks == UNION {[1..n -> Symbol] : n \in 1..MaxChunk}
NoStream == [pc |-> "none", seen |-> "queued", offset |-> 0, sent |-> <<>>]

Flat(parts) ==
  LET upTo[i \in 0..Len(parts)] == IF i = 0 THEN <<>> ELSE upTo[i - 1] \o parts[i]
  IN  upTo[Len(parts)]
Text == Flat(file.parts)

Busy == worker \in {"claimed", "writing", "appending", "finishing", "promoted"}

LogTypeOK ==
  /\ kind \in {"job", "run"}
  /\ row \in {"queued", "running", "done", "gone"}
  /\ path \in BOOLEAN
  /\ file.there \in BOOLEAN
  /\ \A i \in DOMAIN file.parts : file.parts[i] \in Seq(Symbol \cup {Mark, Promoted})
  /\ worker \in {"down", "idle", "claimed", "writing", "appending", "finishing", "promoted",
                "left"}
  /\ tail \in Seq(Symbol) /\ (Values # {} => Len(tail) < MaxLen)
  /\ \A r \in Reader : /\ stream[r].pc \in {"none", "first", "poll", "read", "ended", "error", "broken"}
                       /\ stream[r].seen \in {"queued", "running", "done"}
                       /\ stream[r].offset \in Nat
  /\ clean \in {"idle", "unlisted", "listed", "rows", "done"}
  /\ crashes \in 0..1
  /\ Len(input) <= MaxInput
  /\ committed \in Nat

Init ==
  /\ kind \in {"job", "run"}
  /\ row = "queued" /\ path = FALSE
  /\ file = [there |-> FALSE, parts |-> <<>>]
  /\ worker = "idle" /\ tail = <<>>
  /\ stream = [r \in Reader |-> NoStream]
  /\ clean = "idle" /\ crashes = 0
  /\ input = <<>> /\ committed = 0 /\ overlap = FALSE /\ refused = FALSE

-----------------------------------------------------------------------------
(* The worker.                                                             *)

(* A claim that fails is only logged: the id has left the queue, the row   *)
(* stays as it is until the next start.                                    *)
Claim ==
  /\ worker = "idle" /\ row = "queued"
  /\ \/ row' = "running" /\ worker' = "claimed"
     \/ row' = row /\ worker' = "left"
  /\ overlap' = (overlap \/ clean # "idle")
  /\ UNCHANGED <<kind, path, file, tail, stream, clean, crashes, input, committed, refused>>

(* A terminal update that is refused is only logged: the worker leaves the *)
(* row as it is, without a log path.                                       *)
Leave ==
  /\ worker' = "left" /\ refused' = TRUE
  /\ UNCHANGED <<row, path, committed>>

(* O_CREATE|O_TRUNC.  If it fails the row fails with an empty result, and  *)
(* so without a log path.                                                  *)
CreateLog ==
  /\ worker = "claimed"
  /\ \/ /\ file' = [there |-> TRUE, parts |-> <<<<>>>>]
        /\ worker' = "writing"
        /\ UNCHANGED <<row, committed, refused>>
     \/ /\ worker' = "idle"
        /\ row' = IF row = "gone" THEN "gone" ELSE "done"
        /\ committed' = 0
        /\ UNCHANGED <<file, refused>>
     \/ Leave /\ UNCHANGED file
  /\ UNCHANGED <<kind, path, tail, stream, clean, crashes, input, overlap>>

(* A write through the open descriptor: an unlinked file takes it too, but *)
(* nobody sees it.                                                         *)
Output(out) ==
  file' = IF file.there THEN [file EXCEPT !.parts[1] = @ \o out] ELSE file

Write ==
  /\ worker = "writing"
  /\ \E chunk \in Chunks :
       LET w == Written(tail, chunk)
       IN  /\ Len(input) + Len(chunk) <= MaxInput
           /\ input' = input \o chunk
           /\ tail' = w.tail
           /\ Output(w.out)
  /\ UNCHANGED <<kind, row, path, worker, stream, clean, crashes, committed, overlap, refused>>

(* The command ends, well or badly; the deferred Flush writes the tail     *)
(* before the file is closed.  A run and a failed build append nothing.    *)
Flush ==
  /\ worker = "writing"
  /\ Output(Flushed(tail, TRUE).out)
  /\ tail' = <<>>
  /\ worker' \in IF kind = "job" THEN {"appending", "finishing"} ELSE {"finishing"}
  /\ UNCHANGED <<kind, row, path, stream, clean, crashes, input, committed, overlap, refused>>

(* appendJobLogLine opens an existing file for append, and does nothing if *)
(* it is gone.                                                             *)
AppendLine(line) ==
  \E scrubbed \in Scrub(line) :
    file' = IF file.there THEN [file EXCEPT !.parts = Append(@, scrubbed)] ELSE file

AppendLifecycle ==
  /\ worker = "appending" /\ Len(file.parts) <= MaxLines
  /\ \E line \in Lines : AppendLine(line)
  /\ UNCHANGED <<kind, row, path, worker, tail, stream, clean, crashes, input, committed, overlap, refused>>

(* The provisioning ends; a failure appends its error first.               *)
Provisioned ==
  /\ worker = "appending"
  /\ \/ worker' = "promoted" /\ UNCHANGED file
     \/ worker' = "finishing" /\ \E line \in Lines : AppendLine(line)
  /\ UNCHANGED <<kind, row, path, tail, stream, clean, crashes, input, committed, overlap, refused>>

(* markJobSucceeded, markJobFailed and their workflow twins: status and    *)
(* log path in one update, which finds no row after a cleanup of a run.    *)
(* Mutant: the result is empty.                                            *)
CommitNoPath ==
  /\ row' = IF row = "gone" THEN "gone" ELSE "done"
  /\ committed' = Len(Text)
  /\ UNCHANGED path

Commit ==
  /\ row' = IF row = "gone" THEN "gone" ELSE "done"
  /\ path' = TRUE
  /\ committed' = Len(Text)

Finish ==
  /\ worker = "finishing"
  /\ \/ Commit /\ worker' = "idle" /\ UNCHANGED refused
     \/ Leave
  /\ UNCHANGED <<kind, file, tail, stream, clean, crashes, input, overlap>>

(* The last line of a successful deployment follows its status.  A         *)
(* promotion that is refused is reported in the log before the job is      *)
(* marked failed, which may be refused as well.                            *)
FinishPromoted ==
  /\ worker = "promoted" /\ row # "done"
  /\ \/ Commit /\ UNCHANGED <<worker, file, refused>>
     \/ /\ worker' = "finishing" /\ refused' = TRUE
        /\ \E line \in Lines : AppendLine(line)
        /\ UNCHANGED <<row, path, committed>>
  /\ UNCHANGED <<kind, tail, stream, clean, crashes, input, overlap>>

AppendPromoted ==
  /\ worker = "promoted" /\ row = "done"
  /\ AppendLine(<<Promoted>>)
  /\ worker' = "idle"
  /\ UNCHANGED <<kind, row, path, tail, stream, clean, crashes, input, committed, overlap, refused>>

-----------------------------------------------------------------------------
(* A crash of the Brain, and its start.                                    *)

Crash ==
  /\ worker # "down" /\ crashes < 1
  /\ crashes' = crashes + 1
  /\ worker' = "down" /\ tail' = <<>>
  /\ stream' = [r \in Reader |-> IF stream[r].pc \in {"first", "poll", "read"}
                                 THEN [stream[r] EXCEPT !.pc = "broken"] ELSE stream[r]]
  /\ clean' = IF clean \in {"idle", "done"} THEN clean ELSE "done"
  /\ UNCHANGED <<kind, row, path, file, input, committed, overlap, refused>>

(* An interrupted row fails with an empty result: its log path is unknown. *)
Start ==
  /\ worker = "down"
  /\ worker' = "idle"
  /\ IF row = "running" THEN row' = "done" /\ committed' = Len(Text)
                        ELSE UNCHANGED <<row, committed>>
  /\ UNCHANGED <<kind, path, file, tail, stream, clean, crashes, input, overlap, refused>>

-----------------------------------------------------------------------------
(* A follower: GET .../logs/stream.                                        *)

Up == worker # "down"

(* readJobLogDelta: a file that is missing changes nothing; one that is    *)
(* shorter than the offset is read again from the start.  Mutant: it       *)
(* always is.                                                              *)
FromStart(offset) == 0
From(offset) == IF offset > Len(Text) THEN 0 ELSE offset

Delta(r) ==
  IF file.there
  THEN LET new == SubSeq(Text, From(stream[r].offset) + 1, Len(Text))
       IN  [stream[r] EXCEPT !.sent = @ \o new, !.offset = Len(Text)]
  ELSE stream[r]

(* The row is read before the file.                                        *)
Open(r) ==
  /\ Up /\ stream[r].pc = "none" /\ row # "gone"
  /\ stream' = [stream EXCEPT ![r].pc = "first", ![r].seen = row]
  /\ UNCHANGED <<kind, row, file, clean, crashes, overlap, refused, workerVars>>

ReadFirst(r) ==
  /\ stream[r].pc = "first"
  /\ stream' = [stream EXCEPT ![r] =
       [Delta(r) EXCEPT !.pc = IF stream[r].seen = "done" THEN "ended" ELSE "poll"]]
  /\ UNCHANGED <<kind, row, file, clean, crashes, overlap, refused, workerVars>>

(* One turn of followJobLogStream or followWorkflowRunLogStream: the row   *)
(* again, an error event if it is gone.                                    *)
Poll(r) ==
  /\ stream[r].pc = "poll"
  /\ stream' = [stream EXCEPT ![r].pc = IF row = "gone" THEN "error" ELSE "read",
                              ![r].seen = IF row = "gone" THEN @ ELSE row]
  /\ UNCHANGED <<kind, row, file, clean, crashes, overlap, refused, workerVars>>

(* ... and then what the file has more than before, also in the last turn. *)
(* Mutant: it does not look at the status.                                 *)
ReadForever(r) ==
  /\ stream[r].pc = "read"
  /\ stream' = [stream EXCEPT ![r] = [Delta(r) EXCEPT !.pc = "poll"]]
  /\ UNCHANGED <<kind, row, file, clean, crashes, overlap, refused, workerVars>>

ReadDelta(r) ==
  /\ stream[r].pc = "read"
  /\ stream' = [stream EXCEPT ![r] =
       [Delta(r) EXCEPT !.pc = IF stream[r].seen = "done" THEN "ended" ELSE "poll"]]
  /\ UNCHANGED <<kind, row, file, clean, crashes, overlap, refused, workerVars>>

-----------------------------------------------------------------------------
(* Cleanup of the project, as far as this log goes: list the log paths,    *)
(* delete the rows of runs (jobs keep theirs), remove the listed files.    *)
(* It gives up when a container cannot be torn down before the rows go; a  *)
(* file that cannot be removed is left out.  A list that fails is only     *)
(* logged: the rows go all the same.                                       *)

CleanList ==
  /\ Up /\ clean = "idle"
  /\ \/ /\ clean' = IF path THEN "listed" ELSE "unlisted"
        /\ UNCHANGED refused
     \/ clean' = "unlisted" /\ refused' = TRUE
  /\ overlap' = (overlap \/ Busy)
  /\ UNCHANGED <<kind, row, file, stream, crashes, workerVars>>

CleanRows ==
  /\ clean \in {"listed", "unlisted"}
  /\ row' = IF kind = "run" THEN "gone" ELSE row
  /\ clean' = IF clean = "listed" THEN "rows" ELSE "done"
  /\ overlap' = (overlap \/ Busy)
  /\ UNCHANGED <<kind, file, stream, crashes, refused, workerVars>>

CleanAbort ==
  /\ clean \in {"listed", "unlisted"}
  /\ clean' = "done"
  /\ UNCHANGED <<kind, row, file, stream, crashes, overlap, refused, workerVars>>

CleanFiles ==
  /\ clean = "rows"
  /\ file' = [there |-> FALSE, parts |-> <<>>]
  /\ clean' = "done"
  /\ UNCHANGED <<kind, row, stream, crashes, overlap, refused, workerVars>>

-----------------------------------------------------------------------------
Work == Claim \/ CreateLog \/ Write \/ Flush \/ AppendLifecycle \/ Provisioned
        \/ Finish \/ FinishPromoted \/ AppendPromoted

Follow(r) == ReadFirst(r) \/ Poll(r) \/ ReadDelta(r)

Clean == CleanList \/ CleanRows \/ CleanAbort \/ CleanFiles

Next ==
  \/ Work \/ Crash \/ Start \/ Clean
  \/ \E r \in Reader : Open(r) \/ Follow(r)

(* What the worker does by itself, without waiting for a command: nothing  *)
(* limits a build, nor a container whose stop failed.                      *)
Proceed == Claim \/ CreateLog \/ AppendLifecycle \/ Provisioned
           \/ Finish \/ FinishPromoted \/ AppendPromoted

(* The goroutine of the worker and those of the server's requests keep     *)
(* running; commands, clients, cleanups, crashes and starts of the Brain   *)
(* need not.                                                               *)
Spec ==
  /\ Init /\ [][Next]_vars
  /\ WF_vars(Proceed)
  /\ \A r \in Reader : WF_vars(Follow(r))

-----------------------------------------------------------------------------
(* No secret that is long enough to look for is in the output of a command *)
(* or in an appended line, however the output was cut into writes and      *)
(* whenever the file is read.                                              *)
NoSecretInLog ==
  \A i \in DOMAIN file.parts : \A s \in Values : ~Occurs(s, file.parts[i])

(* The log does not depend on the chunks: at any time it is a prefix of    *)
(* the whole output scrubbed at once, and all of it once it was flushed.   *)
ChunksInvisible ==
  file.there =>
    LET out == file.parts[1]
    IN  /\ Len(out) <= Len(Redact(input))
        /\ out = SubSeq(Redact(input), 1, Len(out))
        /\ worker \in {"appending", "finishing", "promoted"} => out = Redact(input)

(* The log is the whole output with every secret redacted, and nothing of  *)
(* a secret shows at a chunk boundary.                                     *)
ScrubbedLog == NoSecretInLog /\ ChunksInvisible

(* What a follower was sent is a beginning of the log: nothing is skipped, *)
(* repeated or reordered between two polls.                                *)
DeliveredInOrder ==
  \A r \in Reader :
    file.there => /\ stream[r].offset <= Len(Text)
                  /\ stream[r].sent = SubSeq(Text, 1, stream[r].offset)

(* A stream that ended by itself has delivered everything that was in the  *)
(* log when the terminal status was committed; only the line that reports  *)
(* the promotion may be missing.                                           *)
MissesOnlyLaterLines ==
  \A r \in Reader :
    stream[r].pc = "ended" => stream[r].offset >= committed \/ clean # "idle"

(* When the stream ended by itself, the status the CLI asks for next is    *)
(* the final one.                                                          *)
EndMeansFinal == \A r \in Reader : stream[r].pc = "ended" => row \in {"done", "gone"}

(* A follower gets the log: in order, up to the terminal status, and is    *)
(* told of the end only then.                                              *)
StreamFaithful ==
  LogTypeOK /\ DeliveredInOrder /\ MissesOnlyLaterLines /\ EndMeansFinal

(* A log file whose run has no row any more is left over only when the     *)
(* cleanup ran beside the worker, the Brain crashed, or a terminal update  *)
(* or the list of log paths failed: a row learns its log path with its     *)
(* terminal status.                                                        *)
OrphanOnlyByOverlap ==
  file.there /\ row = "gone" /\ clean = "done" => overlap \/ crashes > 0 \/ refused

(* Every follow request ends: the status becomes terminal, the row goes,   *)
(* or the connection breaks.  It lasts only while the command runs on, or  *)
(* when the worker had to leave the row as it was.                         *)
StreamsEnd ==
  \A r \in Reader :
    stream[r].pc = "first" ~>
      \/ stream[r].pc \in {"ended", "error", "broken"}
      \/ worker = "left"
      \/ [](worker = "writing")
=============================================================================
