---------------------------- MODULE AnalysisStream ----------------------------
(***************************************************************************)
(* The frontend: how the progress events of an analysis reach its page.    *)
(*                                                                         *)
(* The backend writes server-sent events.  normalizeSseStream, on the      *)
(* server of the frontend, cuts the text it gets, in chunks of any size,   *)
(* into frames and writes each of them anew; the EventSource of the        *)
(* browser hands them to useAnalysisStream, which appends them to the      *)
(* timeline and patches the analysis that the page shows.  The page may    *)
(* begin another analysis meanwhile: it shows the new thread at once, and  *)
(* React runs the effect that leaves the old stream and opens the new one  *)
(* later.                                                                  *)
(*                                                                         *)
(* The local client has timers in the place of the stream.                 *)
(***************************************************************************)
EXTENDS Naturals, Sequences, FiniteSets, SequencesExt

CONSTANTS
    Threads,      \* ids of analyses
    Streams,      \* what a backend may write: sequences of frames, see Item
    MaxQuestions, \* bound on the analyses that the page asks for
    None          \* no thread

VARIABLES
    mode,      \* which client the frontend was built with
    asked,     \* how many analyses were asked for
    form,      \* what the request form does
    thread,    \* threadId of the page
    analysis,  \* analysis of the page, and the thread that it was last told by
    effect,    \* the thread whose effect has run
    shown,     \* events of useAnalysisStream
    streaming, \* isStreaming
    feed       \* feed[t] : the stream of t

page == <<asked, form, thread, effect>>
streamVars == <<mode, page, analysis, shown, streaming, feed>>

\* A frame, by what is told apart: an event has a status or none, and a list
\* of artifacts or none; a note has no data line; garbled is not JSON.
Item == [kind : {"event", "note", "garbled", "done"},
         status : {"none", "running", "over"}, lists : {"none", "empty", "some"}]

ASSUME StreamAssumption ==
    /\ Streams \subseteq Seq(Item)
    /\ None \notin Threads
    /\ MaxQuestions \in Nat

Plain(kind) == [kind |-> kind, status |-> "none", lists |-> "none"]
Message(status, lists) == [kind |-> "event", status |-> status, lists |-> lists]

\* The k-th smallest number of I, and what a sequence has at the places in I.
Nth(I, k) == CHOOSE i \in I : Cardinality({j \in I : j <= i}) = k
Pick(seq, I) == [k \in 1 .. Cardinality(I) |-> seq[Nth(I, k)]]

\* The text of frames: each in two halves, and the two newlines that end it.
Newline == [item |-> Plain("note"), half |-> 0]
Wire(items) ==
    [k \in 1 .. 4 * Len(items) |->
        LET part == ((k - 1) % 4) + 1
        IN  IF part <= 2 THEN [item |-> items[(k + 3) \div 4], half |-> part] ELSE Newline]

\* A stream: the EventSource and the response it reads, the frames that the
\* backend writes, how much of their text has been read, what is left of that
\* in the buffer, the frames written anew, and how many of them were handled.
NoFeed == [source |-> "none", body |-> "none", sent |-> <<>>, read |-> 0,
           buffer |-> <<>>, out |-> <<>>, got |-> 0]

Feed == [source : {"none", "open", "closed"},
         body : {"none", "open", "closed", "broken", "timers"},
         sent : Seq(Item), read : Nat, buffer : Seq([item : Item, half : 0 .. 2]),
         out : Seq(Item), got : Nat]

NoAnalysis == [from |-> None, status |-> "none", artifacts |-> None]

StreamTypeOK ==
    /\ mode \in {"http", "local"}
    /\ asked \in 0 .. MaxQuestions
    /\ form \in {"idle", "submitting"}
    /\ thread \in Threads \cup {None}
    /\ analysis \in [from : Threads \cup {None}, status : {"none", "running", "over"},
                     artifacts : Threads \cup {None}]
    /\ effect \in Threads \cup {None}
    /\ shown \in Seq([thread : Threads, event : Item])
    /\ streaming \in BOOLEAN
    /\ feed \in [Threads -> Feed]

StreamInit ==
    /\ mode \in {"http", "local"}
    /\ asked = 0
    /\ form = "idle"
    /\ thread = None
    /\ analysis = NoAnalysis
    /\ effect = None
    /\ shown = <<>>
    /\ streaming = FALSE
    /\ feed = [t \in Threads |-> NoFeed]

-------------------------------------------------------------------------------
(* The page.                                                               *)

\* handleSubmit; the button is disabled while a request is under way.
Submit ==
    /\ form = "idle"
    /\ asked < MaxQuestions
    /\ asked' = asked + 1
    /\ form' = "submitting"
    /\ UNCHANGED <<mode, thread, analysis, effect, shown, streaming, feed>>

\* The state of the analysis arrives: setThreadId and setAnalysis.
Answer(t) ==
    /\ form = "submitting"
    /\ form' = "idle"
    /\ thread' = t
    /\ analysis' = [from |-> t, status |-> "running", artifacts |-> None]
    /\ UNCHANGED <<mode, asked, effect, shown, streaming, feed>>

\* The request fails; startAnalysis throws before it changes anything.
Refuse ==
    /\ form = "submitting"
    /\ mode = "http"
    /\ form' = "idle"
    /\ UNCHANGED <<mode, asked, thread, analysis, effect, shown, streaming, feed>>

\* localEventPlan
Plan == <<Message("running", "none"), Message("running", "none"), Message("running", "none"),
          Message("running", "none"), Message("over", "some")>>

\* subscribeEvents
Subscribed(items) ==
    IF mode = "local"
    THEN [NoFeed EXCEPT !.source = "open", !.body = "timers", !.out = Plan]
    ELSE [NoFeed EXCEPT !.source = "open", !.body = "open", !.sent = items]

\* Mutant: no function is returned from subscribeEvents.
StillSubscribed(t) == feed[t]

\* source.close(), or the timers are cleared.
Unsubscribed(t) == [NoFeed EXCEPT !.source = "closed"]

\* Mutant: the timeline of the last thread is kept.
OldTimeline == shown

\* setEvents([])
NewTimeline == <<>>

\* The effect of a new thread, after the cleanup of the one before it.
Effect(items) ==
    /\ thread # effect
    /\ effect' = thread
    /\ feed' = [t \in Threads |-> IF t = thread THEN Subscribed(items)
                                  ELSE IF t = effect THEN Unsubscribed(t)
                                  ELSE feed[t]]
    /\ shown' = NewTimeline
    /\ streaming' = TRUE
    /\ UNCHANGED <<mode, asked, form, thread, analysis>>

-------------------------------------------------------------------------------
(* normalizeSseStream.                                                     *)

Put(t, f) == feed' = [feed EXCEPT ![t] = f]

\* The second newlines of the pairs in text, where there are never three in
\* a row.
Ends(text) == {i \in 2 .. Len(text) : text[i - 1] = Newline /\ text[i] = Newline}

\* split("\n\n"): the frames that are complete, and the rest.
Split(text) ==
    LET m == Cardinality(Ends(text))
        Begin(k) == IF k = 1 THEN 1 ELSE Nth(Ends(text), k - 1) + 1
    IN  [frames |-> [k \in 1 .. m |-> SubSeq(text, Begin(k), Nth(Ends(text), k) - 2)],
         rest |-> SubSeq(text, Begin(m + 1), Len(text))]

\* What a reader makes of a frame: of half of its data, nothing.
Reading(frame) ==
    LET item == frame[1].item
    IN  IF item.kind = "note" \/ \E i \in DOMAIN frame : frame[i].half = 2
        THEN item ELSE Plain("garbled")

\* Frames without a data line are dropped; the rest go on, written anew or,
\* when they cannot be parsed, as they are.
Forwarded(frames) ==
    LET readings == [i \in DOMAIN frames |-> Reading(frames[i])]
    IN  Pick(readings, {i \in DOMAIN frames : readings[i].kind # "note"})

\* transform, of a chunk of any size; the buffer keeps frames.pop().
Transform(t) ==
    /\ feed[t].source = "open" /\ feed[t].body = "open"
    /\ \E n \in feed[t].read + 1 .. 4 * Len(feed[t].sent) :
           LET f == feed[t]
               cut == Split(f.buffer \o SubSeq(Wire(f.sent), f.read + 1, n))
           IN  Put(t, [f EXCEPT !.read = n, !.buffer = cut.rest,
                                !.out = f.out \o Forwarded(cut.frames)])
    /\ UNCHANGED <<mode, page, analysis, shown, streaming>>

\* Mutant: flush is missing.
Unflushed(f) == <<>>

\* flush: what is left is written as it is, unless it is blank.
Flushed(f) ==
    IF \E i \in DOMAIN f.buffer : f.buffer[i] # Newline THEN <<Reading(f.buffer)>> ELSE <<>>

\* The backend ends the stream, wherever it is.
Finish(t) ==
    /\ feed[t].source = "open" /\ feed[t].body = "open"
    /\ Put(t, [feed[t] EXCEPT !.body = "closed", !.buffer = <<>>,
                              !.out = feed[t].out \o Flushed(feed[t])])
    /\ UNCHANGED <<mode, page, analysis, shown, streaming>>

\* The connection is lost, or was never made; frames on their way may be too.
Break(t) ==
    /\ feed[t].source = "open" /\ feed[t].body = "open"
    /\ \E n \in feed[t].got .. Len(feed[t].out) :
           Put(t, [feed[t] EXCEPT !.body = "broken", !.buffer = <<>>,
                                  !.out = SubSeq(feed[t].out, 1, n)])
    /\ UNCHANGED <<mode, page, analysis, shown, streaming>>

-------------------------------------------------------------------------------
(* The browser.                                                            *)

\* onEvent: an event with a status patches the analysis, whose artifacts it
\* replaces if it has a list.
Patched(t, e) ==
    IF e.status = "none" THEN analysis
    ELSE [from |-> t, status |-> e.status,
          artifacts |-> CASE e.lists = "some"  -> t
                          [] e.lists = "empty" -> None
                          [] OTHER             -> analysis.artifacts]

\* onmessage
Deliver(t) ==
    /\ feed[t].source = "open"
    /\ feed[t].got < Len(feed[t].out)
    /\ LET f == [feed[t] EXCEPT !.got = feed[t].got + 1]
           item == f.out[f.got]
       IN  IF item.kind = "event"
           THEN /\ Put(t, f)
                /\ shown' = Append(shown, [thread |-> t, event |-> item])
                /\ analysis' = Patched(t, item)
                /\ streaming' = (streaming /\ item.status # "over")
           ELSE /\ Put(t, IF item.kind = "done" THEN [f EXCEPT !.source = "closed"] ELSE f)
                /\ UNCHANGED <<shown, analysis, streaming>>
    /\ UNCHANGED <<mode, page>>

\* Mutant: onError is not called.
Unreported == streaming

\* setIsStreaming(false) of the error handler.
AfterError == FALSE

\* onerror, when the response has ended, however it has: the source is closed
\* before the browser connects again.
Error(t) ==
    /\ feed[t].source = "open"
    /\ feed[t].body \in {"closed", "broken"}
    /\ feed[t].got = Len(feed[t].out)
    /\ Put(t, [feed[t] EXCEPT !.source = "closed"])
    /\ streaming' = AfterError
    /\ UNCHANGED <<mode, page, analysis, shown>>

Effects == \E items \in IF mode = "local" THEN {<<>>} ELSE Streams : Effect(items)

StreamNext ==
    \/ Submit \/ Refuse \/ Effects
    \/ \E t \in Threads :
           Answer(t) \/ Transform(t) \/ Finish(t) \/ Break(t) \/ Deliver(t) \/ Error(t)

\* React runs the effects of what it has rendered, and the browser the
\* handlers of what has arrived.  Neither the backend nor its answers are
\* bound to come.
Fairness == WF_streamVars(Effects) /\ \A t \in Threads : WF_streamVars(Deliver(t) \/ Error(t))

StreamSpec == StreamInit /\ [][StreamNext]_streamVars /\ Fairness

-------------------------------------------------------------------------------
(* Properties.                                                             *)

\* The places of the events among items, and the events.
Places(items) == {i \in DOMAIN items : items[i].kind = "event"}
Events(items) == Pick(items, Places(items))

\* The items of f that have arrived, up to [DONE]: those read to the end, and
\* once the stream has ended those that only lack their newlines.
Arrived(f) ==
    LET n == IF f.body = "closed" THEN (f.read + 2) \div 4 ELSE f.read \div 4
        dones == {i \in 1 .. n : f.sent[i].kind = "done"}
        last == IF dones = {} THEN n ELSE CHOOSE i \in dones : \A j \in dones : i <= j
    IN  SubSeq(f.sent, 1, last)

\* The timeline shows the events of the thread whose effect has run, in the
\* order in which the backend wrote them, none twice and none left out: however
\* the chunks were cut, and whatever was shown before.  Nor is one held back:
\* when the browser has handled what it was sent, every event that had arrived
\* on a stream that did not break is shown, the last one of a stream that ends
\* without a newline too.  This is about streams of the backend; the local
\* client's own events (mode "local") are in no such stream.
TimelineIsTrue ==
    LET f == feed[effect]
        written == [i \in DOMAIN Events(f.sent) |->
                       [thread |-> effect, event |-> Events(f.sent)[i]]]
    IN  effect # None =>
            /\ mode = "http" => IsPrefix(shown, written)
            /\ f.body \in {"open", "closed"} /\ (f.source = "closed" \/ f.got = Len(f.out)) =>
                   Len(shown) = Len(Events(Arrived(f)))

\* What the page says of an analysis comes from its own thread, save in the
\* moment between the answer and the effect that leaves the old stream.
ForeignOnlyWhileSwitching ==
    [][analysis' # analysis /\ analysis'.from # thread' => effect # thread]_streamVars

\* A final event is on its way, or the stream is over.
Concluded(t) ==
    \/ feed[t].body \in {"closed", "broken"}
    \/ \E i \in DOMAIN feed[t].out : feed[t].out[i].status = "over"

\* The backend said [DONE], and had not said how the analysis ended.
StoppedShort(t) ==
    /\ feed[t].source = "closed" /\ feed[t].got > 0
    /\ feed[t].out[feed[t].got].kind = "done"

\* The page does not go on "streaming" for ever after an analysis, or the
\* connection to it, has come to its end; that only happens when [DONE]
\* arrives before any final event.
StreamingEnds ==
    \A t \in Threads :
        (effect = t /\ Concluded(t)) ~> (~streaming \/ effect # t \/ StoppedShort(t))
===============================================================================
