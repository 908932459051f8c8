------------------------------ MODULE SseClient ------------------------------
(***************************************************************************)
(* The response of a run on its way to the browser: how the server frames  *)
(* the run's events (finmind_api/streaming.py) and how the client puts     *)
(* them together again from what it reads (finmind_ui/src/api/client.ts,   *)
(* requestEventStream).                                                    *)
(*                                                                         *)
(* The text of the response is a sequence of words; Newline ends a line.   *)
(* An event is [kind, data], its data a sequence of words that may hold    *)
(* newlines, as an answer does. The network cuts the text wherever it      *)
(* likes.                                                                  *)
(***************************************************************************)
EXTENDS Integers, Sequences, FiniteSetsExt, SequencesExt

VARIABLES
  network,   \* [chunk, beats, breaks]: the words one read returns, the events that
             \* a heartbeat goes ahead of, whether the connection may break
  wire,      \* the text of the response that is not read yet
  buffer,    \* the text that is read and not yet a whole frame
  handled,   \* the events that onEvent was called with
  answer     \* "unsent", "reading", or how requestEventStream ended

clientVars == <<network, wire, buffer, handled, answer>>

Newline == "newline"
Escape == "escaped newline"

-----------------------------------------------------------------------------
(* The server.                                                             *)

\* A mutant: the text of the payload goes out as it is.
JsonAsIs(event) == <<"{", event.kind>> \o event.data \o <<"}">>

\* json.dumps: one line, whatever the payload holds.
Json(event) == <<"{", event.kind>> \o ReplaceAll(event.data, Newline, Escape) \o <<"}">>

EncodeSseEvent(event) ==
  <<"event:", event.kind, Newline, "data:">> \o Json(event) \o <<Newline, Newline>>

\* A comment frame, sent while the next event is awaited.
HeartbeatFrame == <<": heartbeat", Newline, Newline>>

SseEventStream(events) ==
  FlattenSeq([i \in DOMAIN events |->
                (IF i \in network.beats THEN HeartbeatFrame ELSE <<>>)
                \o EncodeSseEvent(events[i])])

-----------------------------------------------------------------------------
(* The client.                                                             *)

Ends(text, n) == Len(text) >= n /\ \A k \in 0..(n - 1) : text[Len(text) - k] = Newline

\* One more word of a text that is split at each n newlines, so far into these parts.
NextWord(split, word, n) ==
  LET rest == Append(split.rest, word)
  IN IF Ends(rest, n)
     THEN [parts |-> Append(split.parts, SubSeq(rest, 1, Len(rest) - n)), rest |-> <<>>]
     ELSE [split EXCEPT !.rest = rest]

\* text.split with n newlines for separator, from the left.
Split(text, n) ==
  LET upTo[i \in 0..Len(text)] == IF i = 0 THEN [parts |-> <<>>, rest |-> <<>>]
                                 ELSE NextWord(upTo[i - 1], text[i], n)
  IN upTo[Len(text)]

ParseSseFrames(text) == Split(text, 2)

Lines(frame) == LET lines == Split(frame, 1) IN Append(lines.parts, lines.rest)

\* What a line adds to the data of its frame.
LineData(line) == IF line # <<>> /\ Head(line) = "data:" THEN Tail(line) ELSE <<>>

\* The words of the data lines of a frame; none for a comment.
DataOf(frame) ==
  LET lines == Lines(frame) IN FlattenSeq([i \in DOMAIN lines |-> LineData(lines[i])])

IsJson(data) == Len(data) > 2 /\ Head(data) = "{" /\ Last(data) = "}"

\* The event of a frame's data.
ParseSseFrame(data) ==
  [kind |-> data[2], data |-> ReplaceAll(SubSeq(data, 3, Len(data) - 1), Escape, Newline)]

\* One more frame of a read: its event is handled, unless one made the client throw.
NextFrame(read, frame) ==
  LET data == DataOf(frame)
      event == ParseSseFrame(data)
  IN IF read.answer # "reading" \/ data = <<>> THEN read
     ELSE IF ~IsJson(data) THEN [read EXCEPT !.answer = "garbled"]
     ELSE [events |-> Append(read.events, event),
           answer |-> IF event.kind = "run.failed" THEN "failed" ELSE "reading"]

Handled(frames) ==
  LET upTo[i \in 0..Len(frames)] == IF i = 0 THEN [events |-> <<>>, answer |-> "reading"]
                                   ELSE NextFrame(upTo[i - 1], frames[i])
  IN upTo[Len(frames)]

\* What one read returns.
Chunk == SubSeq(wire, 1, Min({network.chunk, Len(wire)}))

Unsent(over) ==
  /\ network = over
  /\ wire = <<>> /\ buffer = <<>> /\ handled = <<>> /\ answer = "unsent"

\* The response to a run that came to these events.
Respond(events) ==
  /\ answer = "unsent"
  /\ wire' = SseEventStream(events)
  /\ answer' = "reading"
  /\ UNCHANGED <<network, buffer, handled>>

\* A mutant: a frame that is not whole yet is given up.
ReadWholeFrames ==
  /\ answer = "reading" /\ wire # <<>>
  /\ LET text == buffer \o Chunk
         read == Handled(ParseSseFrames(text).parts)
     IN /\ buffer' = <<>>
        /\ handled' = handled \o read.events
        /\ answer' = read.answer
  /\ wire' = SubSeq(wire, Len(Chunk) + 1, Len(wire))
  /\ UNCHANGED network

\* One reader.read() and the frames that it completes.
Read ==
  /\ answer = "reading" /\ wire # <<>>
  /\ LET text == buffer \o Chunk
         frames == ParseSseFrames(text)
         read == Handled(frames.parts)
     IN /\ buffer' = frames.rest
        /\ handled' = handled \o read.events
        /\ answer' = read.answer
  /\ wire' = SubSeq(wire, Len(Chunk) + 1, Len(wire))
  /\ UNCHANGED network

Completed == \E i \in DOMAIN handled : handled[i].kind = "run.completed"

\* The response is over.
ReadEnd ==
  /\ answer = "reading" /\ wire = <<>>
  /\ answer' = IF Completed THEN "completed" ELSE "no_output"
  /\ UNCHANGED <<network, wire, buffer, handled>>

\* The connection is lost and the read rejects, whatever was read before.
Break ==
  /\ answer = "reading" /\ network.breaks
  /\ answer' = "broken"
  /\ UNCHANGED <<network, wire, buffer, handled>>

ClientNext == Read \/ ReadEnd \/ Break
=============================================================================
