----------------------------- MODULE RequestTrace -----------------------------
(***************************************************************************)
(* The request-driven switch client (experiments/request_driven_switch/    *)
(* run.py with common/traces.py) and the validator that takes its files    *)
(* (validation/request_driven_switch/validate.py, artifacts.py).  One      *)
(* asyncio task per request streams its answer under a deadline; main      *)
(* gathers the records and writes the rows and then the run's metadata.    *)
(* The service under test may answer anything, in any chunks, stall or     *)
(* disconnect; the client may be killed anywhere.                          *)
(*                                                                         *)
(* A stream is a sequence of lines and of their terminators' bytes: a line *)
(* is named by what _semantic_text makes of it.                            *)
(***************************************************************************)
EXTENDS Naturals, Sequences, SequencesExt, SeqFunctions

CONSTANTS
  Frozen,      \* the frozen trace: a sequence of rows [id, offset, body]
  Manifests,   \* the manifests given to the client
  Answers      \* what the service may answer: [status, sse, bytes]

TextLines == {"t1", "t2", "blank"}                    \* deltas; "blank" is whitespace
DataLines == TextLines \cup {"role", "done", "error", "garbage"}
Lines     == DataLines \cup {"ping"}                  \* "ping" has no data field
Bytes     == Lines \cup {"R", "N"}

ASSUME TraceAssumption ==
  /\ Frozen \in Manifests
  /\ \A m \in Manifests : m \in Seq([id : STRING, offset : Nat, body : STRING])
  /\ Answers \subseteq [status : {"ok", "other"}, sse : BOOLEAN, bytes : Seq(Bytes)]

\* Lines end with a newline, or with a carriage return and a newline.
ASSUME LineEndsAssumption ==
  \A a \in Answers : \A i \in DOMAIN a.bytes : a.bytes[i] = "R" =>
    i < Len(a.bytes) /\ a.bytes[i + 1] = "N"

VARIABLES
  manifest,   \* the rows to replay
  pc,         \* main_async's position
  phase,      \* per request: "scheduled", "waiting", "streaming", "ended"
  answer,     \* the answer the service is sending, NoAnswer before its headers
  sent,       \* how many bytes of it have arrived
  buffer,     \* bytes not yet parsed
  record,     \* the request's record
  rowsFile,   \* the output: who wrote it, its whole rows, whether one is cut
  metaFile,   \* the .run.json next to it
  exit        \* the exit status

requestVars == <<phase, answer, sent, buffer, record>>
fileVars    == <<rowsFile, metaFile>>
vars == <<manifest, pc, requestVars, fileVars, exit>>

Requests == DOMAIN manifest
NoAnswer == [status |-> "none", sse |-> FALSE, bytes |-> <<>>]
Errors   == {"none", "timeout", "network", "content", "stream", "incomplete"}
Records  == [status : {"none", "ok", "other"}, error : Errors, done : BOOLEAN,
             semantic : BOOLEAN, output : Seq(TextLines)]
NewRecord == [status |-> "none", error |-> "none", done |-> FALSE,
              semantic |-> FALSE, output |-> <<>>]

TypeOK ==
  /\ manifest \in Manifests
  /\ pc \in {"load", "gather", "rows", "meta", "report", "ended"}
  /\ phase \in [Requests -> {"scheduled", "waiting", "streaming", "ended"}]
  /\ answer \in [Requests -> Answers \cup {NoAnswer}]
  /\ \A r \in Requests : sent[r] \in 0 .. Len(answer[r].bytes) /\ buffer[r] \in Seq(Bytes)
  /\ record \in [Requests -> Records]
  /\ rowsFile \in [by : {"nobody", "earlier", "this"}, count : Nat, cut : BOOLEAN]
  /\ metaFile \in {"absent", "earlier", "cut", "clean", "anonymous", "failures"}
  /\ exit \in {"none", "zero", "failed", "killed"}

-----------------------------------------------------------------------------
(* The manifest (common/traces.py).  Its field checks that concern one row *)
(* alone leave no trace here: a row that fails them has the body "invalid".*)

ValidManifest(rows) ==
  /\ rows # <<>>
  /\ \A i, j \in DOMAIN rows : i # j => rows[i].id # rows[j].id
  /\ \A i, j \in DOMAIN rows : i < j => rows[i].offset <= rows[j].offset
  /\ \A i \in DOMAIN rows : rows[i].body # "invalid"

-----------------------------------------------------------------------------
(* Parsing.                                                                *)

\* buffer.replace(b"\r\n", b"\n")
Normalize(bytes) ==
  Pick(bytes, {i \in DOMAIN bytes :
                 ~(bytes[i] = "R" /\ i < Len(bytes) /\ bytes[i + 1] = "N")})

EndsWith(bytes, b) == bytes # <<>> /\ Last(bytes) = b

\* Two newlines end a part; an empty one is dropped.
AddByte(split, b) ==
  IF b = "N" /\ EndsWith(split.rest, "N")
  THEN [parts |-> IF split.rest = <<"N">> THEN split.parts
                  ELSE Append(split.parts, Front(split.rest)),
        rest  |-> <<>>]
  ELSE [split EXCEPT !.rest = Append(@, b)]

\* normalized.split(b"\n\n"): the separated parts and the last one
Split(bytes) ==
  LET upTo[n \in 0 .. Len(bytes)] == IF n = 0 THEN [parts |-> <<>>, rest |-> <<>>]
                                     ELSE AddByte(upTo[n - 1], bytes[n])
  IN  upTo[Len(bytes)]

ParseSseEvents_LosesRemainder(bytes) ==
  [events |-> Split(Normalize(bytes)).parts, rest |-> <<>>]

\* A text that ends with two newlines leaves nothing, even where a third
\* newline was left after the last separator.
ParseSseEvents(bytes) ==
  LET text  == Normalize(bytes)
      split == Split(text)
      ended == Len(text) >= 2 /\ text[Len(text)] = "N" /\ text[Len(text) - 1] = "N"
  IN [events |-> split.parts, rest |-> IF ended THEN <<>> ELSE split.rest]

\* Where the data lines of an event are.
Data(event) == {i \in DOMAIN event : event[i] \in DataLines}

SemanticText_KeepsNull(event) ==
  LET data == Data(event)
  IN IF data = {} THEN "nothing"
     ELSE IF \E i, j \in data : i # j \/ event[i] \in {"error", "garbage"} THEN "raises"
     ELSE event[CHOOSE i \in data : TRUE]

\* The data lines of an event are joined into one JSON text, which two
\* objects, or an object and [DONE], are not.
SemanticText(event) ==
  LET data == Data(event)
      line == event[CHOOSE i \in data : TRUE]
  IN IF data = {} THEN "nothing"
     ELSE IF \E i, j \in data : i # j \/ event[i] \in {"error", "garbage"} THEN "raises"
     ELSE IF line = "role" THEN "nothing" ELSE line

\* One turn of the loop over the events of a chunk; nothing follows an exception.
Take(rec, event) ==
  LET text == SemanticText(event)
  IN IF rec.error # "none" \/ text = "nothing" THEN rec
     ELSE IF text = "raises" THEN [rec EXCEPT !.error = "stream"]
     ELSE IF text = "done" THEN [rec EXCEPT !.done = TRUE]
     ELSE [rec EXCEPT !.semantic = TRUE, !.output = Append(@, text)]

\* The loop.
TakeAll(rec, events) ==
  LET upTo[n \in 0 .. Len(events)] == IF n = 0 THEN rec ELSE Take(upTo[n - 1], events[n])
  IN  upTo[Len(events)]

-----------------------------------------------------------------------------
(* The client.                                                             *)

Init ==
  /\ manifest \in Manifests
  /\ pc = "load" /\ exit = "none"
  /\ phase  = [r \in Requests |-> "scheduled"]
  /\ answer = [r \in Requests |-> NoAnswer]
  /\ sent   = [r \in Requests |-> 0]
  /\ buffer = [r \in Requests |-> <<>>]
  /\ record = [r \in Requests |-> NewRecord]
  /\ \/ rowsFile = [by |-> "nobody", count |-> 0, cut |-> FALSE] /\ metaFile = "absent"
     \/ rowsFile = [by |-> "earlier", count |-> 0, cut |-> FALSE] /\ metaFile = "earlier"

Load ==
  /\ pc = "load"
  /\ IF ValidManifest(manifest)
     THEN pc' = "gather" /\ UNCHANGED exit
     ELSE pc' = "ended" /\ exit' = "failed"
  /\ UNCHANGED <<manifest, requestVars, fileVars>>

\* The timers fire in the order of the offsets.
Dispatch(r) ==
  /\ pc = "gather" /\ phase[r] = "scheduled"
  /\ \A q \in Requests : phase[q] = "scheduled" => manifest[r].offset <= manifest[q].offset
  /\ phase' = [phase EXCEPT ![r] = "waiting"]
  /\ UNCHANGED <<manifest, pc, answer, sent, buffer, record, fileVars, exit>>

\* The headers arrive: anything but an event stream is an error.
Respond(r) ==
  /\ pc = "gather" /\ phase[r] = "waiting"
  /\ \E a \in Answers :
       /\ answer' = [answer EXCEPT ![r] = a]
       /\ record' = [record EXCEPT ![r].status = a.status,
                                   ![r].error = IF a.sse THEN "none" ELSE "content"]
       /\ phase' = [phase EXCEPT ![r] = IF a.sse THEN "streaming" ELSE "ended"]
  /\ UNCHANGED <<manifest, pc, sent, buffer, fileVars, exit>>

\* Any number of further bytes arrive at once.
Chunk(r) ==
  /\ pc = "gather" /\ phase[r] = "streaming"
  /\ \E upto \in sent[r] + 1 .. Len(answer[r].bytes) :
       LET chunk  == SubSeq(answer[r].bytes, sent[r] + 1, upto)
           parsed == ParseSseEvents(buffer[r] \o chunk)
           rec    == TakeAll(record[r], parsed.events)
       IN /\ sent'   = [sent EXCEPT ![r] = upto]
          /\ buffer' = [buffer EXCEPT ![r] = parsed.rest]
          /\ record' = [record EXCEPT ![r] = rec]
          /\ phase'  = [phase EXCEPT ![r] = IF rec.error = "none" THEN @ ELSE "ended"]
  /\ UNCHANGED <<manifest, pc, answer, fileVars, exit>>

Eof_IgnoresRemainder(r) ==
  /\ pc = "gather" /\ phase[r] = "streaming"
  /\ sent[r] = Len(answer[r].bytes)
  /\ phase' = [phase EXCEPT ![r] = "ended"]
  /\ UNCHANGED <<manifest, pc, answer, sent, buffer, record, fileVars, exit>>

\* The service closes the stream in an orderly way.
Eof(r) ==
  /\ pc = "gather" /\ phase[r] = "streaming"
  /\ sent[r] = Len(answer[r].bytes)
  /\ phase' = [phase EXCEPT ![r] = "ended"]
  /\ record' = [record EXCEPT ![r].error =
                  IF \E i \in DOMAIN buffer[r] : buffer[r][i] \in Lines THEN "incomplete" ELSE @]
  /\ UNCHANGED <<manifest, pc, answer, sent, buffer, fileVars, exit>>

Raises(r, error) ==
  /\ phase' = [phase EXCEPT ![r] = "ended"]
  /\ record' = [record EXCEPT ![r].error = error]
  /\ UNCHANGED <<manifest, pc, answer, sent, buffer, fileVars, exit>>

\* The connection fails, before the headers or within the stream.
Disconnect(r) == pc = "gather" /\ phase[r] \in {"waiting", "streaming"} /\ Raises(r, "network")

Deadline_HeadersOnly(r) == pc = "gather" /\ phase[r] = "waiting" /\ Raises(r, "timeout")

\* asyncio.timeout covers the request from its dispatch to the end of the stream.
Deadline(r) == pc = "gather" /\ phase[r] \in {"waiting", "streaming"} /\ Raises(r, "timeout")

Blank(output) == \A i \in DOMAIN output : output[i] = "blank"

FailedRecord_AnyOutput(rec) ==
  rec.status # "ok" \/ rec.error # "none" \/ ~rec.done

FailedRecord(rec) ==
  \/ rec.status # "ok"
  \/ rec.error # "none"
  \/ ~rec.done
  \/ ~rec.semantic
  \/ Blank(rec.output)

Failures == {r \in Requests : FailedRecord(record[r])}

Gather ==
  /\ pc = "gather" /\ \A r \in Requests : phase[r] = "ended"
  /\ pc' = "rows"
  /\ UNCHANGED <<manifest, requestVars, fileVars, exit>>

WriteRows ==
  /\ pc = "rows"
  /\ rowsFile' = [by |-> "this", count |-> Len(manifest), cut |-> FALSE]
  /\ pc' = "meta"
  /\ UNCHANGED <<manifest, requestVars, metaFile, exit>>

\* The metadata identify the runtime only if the command line names a repository and
\* a file of it, which it need not, and the benchmark only if git answers in time.
WriteMetadata ==
  /\ pc = "meta"
  /\ \E identified \in BOOLEAN :
       metaFile' = IF Failures # {} THEN "failures"
                   ELSE IF identified THEN "clean" ELSE "anonymous"
  /\ pc' = "report"
  /\ UNCHANGED <<manifest, requestVars, rowsFile, exit>>

\* A named runtime repository or file is not there.
MetadataRaises ==
  /\ pc = "meta"
  /\ pc' = "ended" /\ exit' = "failed"
  /\ UNCHANGED <<manifest, requestVars, fileVars>>

Report ==
  /\ pc = "report"
  /\ exit' = IF Failures = {} THEN "zero" ELSE "failed"
  /\ pc' = "ended"
  /\ UNCHANGED <<manifest, requestVars, fileVars>>

\* The process is killed: a file it is writing keeps any part, what it has
\* not written is lost.
Kill ==
  /\ pc # "ended"
  /\ pc' = "ended" /\ exit' = "killed"
  /\ \/ UNCHANGED fileVars
     \/ /\ pc = "rows" /\ UNCHANGED metaFile
        /\ \E n \in 0 .. Len(manifest), cut \in BOOLEAN :
             /\ n = Len(manifest) => ~cut
             /\ rowsFile' = [by |-> "this", count |-> n, cut |-> cut]
     \/ pc = "meta" /\ metaFile' = "cut" /\ UNCHANGED rowsFile
  /\ UNCHANGED <<manifest, requestVars>>

Ended == pc = "ended" /\ UNCHANGED vars

Main == Load \/ Gather \/ WriteRows \/ WriteMetadata \/ MetadataRaises \/ Report

Next ==
  \/ Main \/ Kill \/ Ended
  \/ \E r \in Requests : \/ Dispatch(r) \/ Respond(r) \/ Chunk(r) \/ Eof(r)
                         \/ Disconnect(r) \/ Deadline(r)

Spec == Init /\ [][Next]_vars

\* The event loop runs main and fires every timer; the service owes nothing.
Fairness ==
  /\ WF_vars(Main)
  /\ WF_vars(\E r \in Requests : Dispatch(r))
  /\ WF_vars(\E r \in Requests : Deadline(r))

FairSpec == Spec /\ Fairness

-----------------------------------------------------------------------------
(* The validator, of the files of one system: the metadata report no       *)
(* failure and name the benchmark and the runtime, and every row of the    *)
(* frozen trace has its record.  Earlier metadata are taken for the best.  *)

StrictRequestSuccess(rec) ==
  /\ rec.status = "ok" /\ rec.error = "none"
  /\ rec.done /\ rec.semantic
  /\ ~Blank(rec.output)

\* The files this run left would be accepted.
Accepted ==
  /\ metaFile \in {"earlier", "clean"}
  /\ rowsFile.by = "this" /\ ~rowsFile.cut /\ rowsFile.count = Len(Frozen)
  /\ \A i \in DOMAIN Frozen : \E r \in Requests : manifest[r] = Frozen[i]
  /\ \A r \in Requests : StrictRequestSuccess(record[r])

-----------------------------------------------------------------------------
(* Properties.  What arrived is read off the whole answer, without chunks. *)

\* The bytes of request r that have arrived, without the carriage returns.
Arrived(a, n) ==
  LET bytes == SubSeq(a.bytes, 1, n)
  IN  Pick(bytes, {i \in DOMAIN bytes : bytes[i] # "R"})

\* There is a blank line between positions i and j of the text.
Separated(text, i, j) == \E k \in i + 1 .. j - 1 : text[k] = "N" /\ text[k + 1] = "N"

\* The line at i is in an event that has ended.
Closed(text, i) == Separated(text, i, Len(text))

\* The data lines whose events the client must not accept: an error, bytes that
\* are no JSON, or two data lines in one event.
Malformed(text) ==
  {i \in DOMAIN text :
     /\ text[i] \in DataLines /\ Closed(text, i)
     /\ \/ text[i] \in {"error", "garbage"}
        \/ \E j \in i + 1 .. Len(text) : text[j] \in DataLines /\ ~Separated(text, i, j)}

\* The data lines that count: their events have ended, and no malformed one precedes them.
Delivered(text) ==
  LET bad == Malformed(text)
  IN {i \in DOMAIN text : text[i] \in DataLines /\ Closed(text, i) /\ \A j \in bad : i < j}

\* The texts at the positions in a set, in order.
TextsAt(text, at) == Pick(text, {i \in at : text[i] \in TextLines})

\* An answer as the service owes it: success, well-formed events to the last
\* byte, some text and the final marker.
InFull(a) ==
  LET text == Arrived(a, Len(a.bytes))
  IN /\ a.status = "ok" /\ a.sse
     /\ \E i \in DOMAIN text : text[i] = "done"
     /\ \E i \in DOMAIN text : text[i] \in {"t1", "t2"}
     /\ \A i \in DOMAIN text : text[i] \in Lines => Closed(text, i)
     /\ Malformed(text) = {}

FullAnswers == {a \in Answers : InFull(a)}

AnsweredInFull ==
  {r \in Requests : answer[r] \in FullAnswers /\ sent[r] = Len(answer[r].bytes)}

\* _dispatch_one, parse_sse_events: however the stream is cut into chunks and
\* wherever it is cut off, the record holds the texts of exactly the events
\* that had ended, up to the first malformed one, and the final marker if it
\* was among them; an answer that arrived in full fails only for a deadline or
\* a broken connection.
RecordIsWhatArrived ==
  \A r \in Requests : answer[r].sse =>
    LET text == Arrived(answer[r], sent[r])
        at   == Delivered(text)
    IN /\ record[r].output = TextsAt(text, at)
       /\ record[r].done = \E i \in at : text[i] = "done"
       /\ r \in AnsweredInFull => record[r].error \in {"none", "timeout", "network"}

\* main_async, validate_family: what the client calls a success (exit 0) on the
\* frozen trace, the validator refuses for one reason only, metadata that do not
\* identify the benchmark or the runtime; the two success predicates and the order
\* of the writes agree.  The client itself never looks at that identity.
ExitZeroIsAccepted ==
  exit = "zero" /\ manifest = Frozen => (Accepted <=> metaFile # "anonymous")

Outcome == [r \in Requests |-> IF phase[r] # "ended" THEN "pending"
                               ELSE IF StrictRequestSuccess(record[r]) THEN "served"
                               ELSE "failed"]

Replayed == INSTANCE ReplayedTrace
              WITH Traces <- {DOMAIN m : m \in Manifests}, answered <- AnsweredInFull,
                   outcome <- Outcome, evidence <- (pc = "ended" /\ Accepted)

\* run.py and validate.py implement ReplayedTrace: a request is decided once,
\* counts as served only if the service answered it in full, and whatever files
\* a killed, failed or complete run leaves are accepted only when every request
\* of the frozen trace was served.  (The files are looked at once the client has ended.)
ServedInFull == Replayed!Spec

\* run_trace, main_async: whatever the service does, the deadlines end every
\* request and the client ends.
TraceEnds == <>(pc = "ended")

=============================================================================
