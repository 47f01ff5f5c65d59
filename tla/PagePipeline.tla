---------------------------- MODULE PagePipeline ----------------------------
(***************************************************************************)
(* The pages of one gallery on their way through the page threads: they    *)
(* are decoded once to see whether the gallery can be published at all     *)
(* (image_qualification.py) and again, batch after batch, to write its     *)
(* archive (artifact/renderer.py).  The owner hands pages to a pool and    *)
(* takes their results in order; what a call leaves behind, and what it    *)
(* may report, when some of its pages fail while others are queued,        *)
(* running or finished is what this module is about.                       *)
(***************************************************************************)
EXTENDS DecodeSlots, SequencesExt

CONSTANT Workers    \* threads of the pool, pages in flight

ASSUME WorkersAssumption == Workers \in Nat \ {0}

VARIABLES
    mode,           \* the call: "qualify" or "render"
    owner,          \* what the thread that made it is doing
    next,           \* the next page to hand over
    queued,         \* submitted pages no thread has taken up
    pending,        \* submitted pages whose result was not taken, in order
    ready,          \* rendered pages of the batch that are not in the archive
    buffer,         \* of each page: its spooled bytes, or its rendered image
    archive,        \* pages in the stream the archive is written to
    failure,        \* the first bad page or exception: "none", "rejected", "raised"
    result,         \* what the call returned
    verdict         \* what became of the gallery

pool == <<mode, owner, next, queued, pending, ready, buffer, archive, failure, result, verdict>>
vars == <<slots, pool>>

\* A renderer starts with the stream of its archive.
Begins(m) == IF m = "render" THEN "enter" ELSE "pages"

\* What is rendered was accepted before: all its pages are good.
Init ==
    /\ SlotsInit
    /\ mode \in {"qualify", "render"} /\ (mode = "render" => invalid = {})
    /\ owner = Begins(mode) /\ next = 1 /\ queued = {} /\ pending = <<>> /\ ready = <<>>
    /\ buffer = [p \in Page |-> "none"] /\ archive = <<>>
    /\ failure = "none" /\ result = "none" /\ verdict = "none"

Running == {p \in Page : stage[p] \notin {"none", "ended"}}
Idle == queued = {} /\ Running = {}
Fault == faults < MaxFaults /\ faults' = faults + 1

NoFault == UNCHANGED slots
OneFault ==
    /\ Fault
    /\ UNCHANGED <<invalid, interlaced, stage, at, active, exclusive, waiting, errors, cause, outcome>>

-----------------------------------------------------------------------------
(* The pool: threads take up pages in the order of submission.             *)

\* A renderer opens the buffer of its page; a qualifier was given one.
StartPage(p) ==
    /\ p \in queued /\ (\A q \in queued : p <= q) /\ Cardinality(Running) < Workers
    /\ StartDecode(p)
    /\ queued' = queued \ {p}
    /\ buffer' = [buffer EXCEPT ![p] = "open"]
    /\ UNCHANGED <<mode, owner, next, pending, ready, archive, failure, result, verdict>>

\* Mutation: a page that fails to render leaves its buffer to the owner.
AlwaysKept(p) == mode = "render"
\* A rendered page is handed over; a qualified or a failed one is closed by its thread.
Kept(p) == mode = "render" /\ outcome'[p] = "decoded"

RunPage(p) ==
    /\ DecodeStep(p)
    /\ buffer' = IF stage'[p] = "ended" /\ ~Kept(p) THEN [buffer EXCEPT ![p] = "closed"] ELSE buffer
    /\ UNCHANGED <<mode, owner, next, queued, pending, ready, archive, failure, result, verdict>>

\* The result of the first pending page is there.
HeadEnded == pending # <<>> /\ stage[Head(pending)] = "ended"

-----------------------------------------------------------------------------
(* ImageGalleryQualifier.__call__                                          *)

\* _spool: the page is read into a spool and compared; a failure closes it.
SpoolPage ==
    /\ mode = "qualify" /\ owner = "pages" /\ next <= Pages
    /\ \/ /\ buffer' = [buffer EXCEPT ![next] = "open"] /\ owner' = "submit"
          /\ UNCHANGED failure /\ NoFault
       \/ /\ failure' = "raised" /\ owner' = "exit"
          /\ UNCHANGED buffer /\ OneFault
    /\ UNCHANGED <<mode, next, queued, pending, ready, archive, result, verdict>>

SubmitSpooled ==
    /\ mode = "qualify" /\ owner = "submit"
    /\ \/ /\ queued' = queued \cup {next} /\ pending' = Append(pending, next) /\ next' = next + 1
          /\ owner' = IF Len(pending) + 1 >= Workers THEN "await" ELSE "pages"
          /\ UNCHANGED <<failure, buffer>> /\ NoFault
       \/ /\ failure' = "raised" /\ owner' = "exit" /\ buffer' = [buffer EXCEPT ![next] = "closed"]
          /\ UNCHANGED <<queued, pending, next>> /\ OneFault
    /\ UNCHANGED <<mode, ready, archive, result, verdict>>

PagesEnd ==
    /\ mode = "qualify" /\ owner = "pages" /\ next > Pages
    /\ owner' = "drain"
    /\ UNCHANGED <<mode, next, queued, pending, ready, buffer, archive, failure, result, verdict>>
    /\ NoFault

\* Mutation: the first bad page ends the call, with the others still unread.
ReturnAtOnce == "exit"
\* The results of all submitted pages are taken even after a bad one.
TakeTheOthers == "drain"

TakeResult ==
    /\ mode = "qualify" /\ owner \in {"await", "drain"} /\ HeadEnded
    /\ pending' = Tail(pending)
    /\ LET o == outcome[Head(pending)]
       IN  /\ failure' = IF o = "raised" THEN o
                         ELSE IF failure = "none" /\ o = "rejected" THEN o ELSE failure
           /\ owner' = CASE o = "raised" -> "exit"
                         [] o = "rejected" -> TakeTheOthers
                         [] OTHER -> IF owner = "await" THEN "pages" ELSE owner
    /\ UNCHANGED <<mode, next, queued, ready, buffer, archive, result, verdict>>
    /\ NoFault

DrainEnds ==
    /\ mode = "qualify" /\ owner = "drain" /\ pending = <<>>
    /\ owner' = "exit"
    /\ UNCHANGED <<mode, next, queued, pending, ready, buffer, archive, failure, result, verdict>>
    /\ NoFault

\* Leaving the executor waits for every page that was submitted.
Qualified ==
    /\ mode = "qualify" /\ owner = "exit" /\ Idle
    /\ owner' = "returned"
    /\ result' = IF failure = "none" THEN "accepted" ELSE failure
    /\ verdict' = IF failure = "rejected" THEN "excluded" ELSE verdict
    /\ UNCHANGED <<mode, next, queued, pending, ready, buffer, archive, failure>>
    /\ NoFault

-----------------------------------------------------------------------------
(* _render_archive and _render_page_batch                                  *)

\* Mutation: the archive is written behind what is in the stream.
BehindOldBytes == archive
\* _ArchiveScratch.__enter__: what a call before this one could not discard goes.
EmptyScratch == <<>>

EnterScratch ==
    /\ mode = "render" /\ owner = "enter"
    /\ \/ /\ archive' = EmptyScratch /\ owner' = "pages"
          /\ UNCHANGED <<failure, result>> /\ NoFault
       \/ /\ owner' = "returned" /\ failure' = "raised" /\ result' = "unclean"
          /\ UNCHANGED archive /\ OneFault
    /\ UNCHANGED <<mode, next, queued, pending, ready, buffer, verdict>>

\* The pool was handed a whole batch of pages.
BatchComplete == next > Pages \/ Len(pending) = Workers

SubmitPage ==
    /\ mode = "render" /\ owner = "pages" /\ ~BatchComplete
    /\ \/ /\ queued' = queued \cup {next} /\ pending' = Append(pending, next) /\ next' = next + 1
          /\ UNCHANGED <<failure, owner>> /\ NoFault
       \/ /\ failure' = "raised" /\ owner' = "exit" /\ queued' = {}
          /\ UNCHANGED <<pending, next>> /\ OneFault
    /\ UNCHANGED <<mode, ready, buffer, archive, result, verdict>>

BatchSubmitted ==
    /\ mode = "render" /\ owner = "pages" /\ BatchComplete /\ pending # <<>>
    /\ owner' = "await"
    /\ UNCHANGED <<mode, next, queued, pending, ready, buffer, archive, failure, result, verdict>>
    /\ NoFault

\* After the last page the archive is closed, read back and inspected.
InspectArchive ==
    /\ mode = "render" /\ owner = "pages" /\ BatchComplete /\ pending = <<>>
    /\ owner' = "exit"
    /\ \/ UNCHANGED failure /\ NoFault
       \/ failure' = "raised" /\ OneFault
    /\ UNCHANGED <<mode, next, queued, pending, ready, buffer, archive, result, verdict>>

\* Results are taken in order; the first exception cancels what has not started.
TakePage ==
    /\ mode = "render" /\ owner = "await" /\ HeadEnded
    /\ IF outcome[Head(pending)] = "decoded"
       THEN /\ pending' = Tail(pending) /\ ready' = Append(ready, Head(pending))
            /\ owner' = IF Len(pending) = 1 THEN "write" ELSE "await"
            /\ UNCHANGED <<queued, failure>>
       ELSE /\ failure' = "raised" /\ owner' = "wait" /\ queued' = {}
            /\ UNCHANGED <<pending, ready>>
    /\ UNCHANGED <<mode, next, buffer, archive, result, verdict>>
    /\ NoFault

\* Mutation: the pages that are still running are not waited for.
NoWait == TRUE
BatchEnded == Running = {}

\* Only an image that was rendered is in its future to be closed.
Closed(pages) ==
    [p \in Page |-> IF p \in pages /\ buffer[p] = "open" /\ outcome[p] = "decoded" THEN "closed" ELSE buffer[p]]

\* The error path closes each image that was finished, once all threads have ended.
CloseFailedBatch ==
    /\ mode = "render" /\ owner = "wait" /\ BatchEnded
    /\ buffer' = Closed(ToSet(pending) \cup ToSet(ready))
    /\ pending' = <<>> /\ ready' = <<>> /\ owner' = "exit"
    /\ UNCHANGED <<mode, next, queued, archive, failure, result, verdict>>
    /\ NoFault

\* The images go into the archive in order; the batch is closed also when one fails to.
WritePage ==
    /\ mode = "render" /\ owner = "write" /\ ready # <<>>
    /\ \/ /\ archive' = Append(archive, Head(ready)) /\ ready' = Tail(ready)
          /\ UNCHANGED <<owner, failure>> /\ NoFault
       \/ /\ failure' = "raised" /\ owner' = "close"
          /\ UNCHANGED <<archive, ready>> /\ OneFault
    /\ UNCHANGED <<mode, next, queued, pending, buffer, result, verdict>>

CloseBatch ==
    /\ mode = "render"
    /\ owner = "close" \/ (owner = "write" /\ ready = <<>>)
    /\ buffer' = Closed(Page) /\ ready' = <<>>
    /\ owner' = IF failure = "none" THEN "pages" ELSE "exit"
    /\ UNCHANGED <<mode, next, queued, pending, archive, failure, result, verdict>>
    /\ NoFault

\* The executor is shut down.  Images of futures that were never looked at, because a
\* later submit failed, are closed when the interpreter drops them.
LeaveExecutor ==
    /\ mode = "render" /\ owner = "exit" /\ Idle
    /\ owner' = "returned"
    /\ buffer' = IF pending = <<>> THEN buffer ELSE Closed(ToSet(pending))
    /\ UNCHANGED <<mode, next, queued, pending, ready, failure>>

Rendered ==
    /\ LeaveExecutor /\ failure = "none"
    /\ result' = "rendered" /\ verdict' = "published"
    /\ UNCHANGED archive /\ NoFault

\* _ArchiveScratch.__exit__: a failure discards what was written.  When that fails as
\* well the error says so in a note, and the bytes stay.
DiscardPartial ==
    /\ LeaveExecutor /\ failure # "none"
    /\ \/ archive' = <<>> /\ result' = failure /\ NoFault
       \/ result' = "unclean" /\ UNCHANGED archive /\ OneFault
    /\ UNCHANGED verdict

-----------------------------------------------------------------------------

\* An accepted gallery is rendered, a call that raised is made again later.
CallAgain ==
    /\ owner = "returned" /\ verdict = "none"
    /\ mode' = IF result = "accepted" THEN "render" ELSE mode
    /\ owner' = Begins(mode') /\ next' = 1 /\ pending' = <<>> /\ ready' = <<>>
    /\ buffer' = [p \in Page |-> "none"]
    /\ failure' = "none" /\ result' = "none"
    /\ stage' = [p \in Page |-> "none"] /\ outcome' = [p \in Page |-> "none"]
    /\ UNCHANGED <<queued, archive, verdict, invalid, interlaced, at, active, exclusive, waiting, errors,
                   cause, faults>>

Settled == verdict # "none" /\ UNCHANGED vars

OwnerStep ==
    \/ SpoolPage \/ SubmitSpooled \/ PagesEnd \/ TakeResult \/ DrainEnds \/ Qualified
    \/ EnterScratch \/ SubmitPage \/ BatchSubmitted \/ TakePage \/ CloseFailedBatch \/ WritePage
    \/ CloseBatch \/ InspectArchive \/ Rendered \/ DiscardPartial \/ CallAgain

PageStep(p) == StartPage(p) \/ RunPage(p)

Next == OwnerStep \/ (\E p \in Page : PageStep(p)) \/ Settled

Spec == Init /\ [][Next]_vars /\ WF_vars(OwnerStep) /\ \A p \in Page : WF_vars(PageStep(p))

-----------------------------------------------------------------------------
(* Properties                                                              *)

\* Each state of the owner and of the page threads is one the code can be in.
TypeOK ==
    /\ SlotsTypeOK
    /\ mode \in {"qualify", "render"}
    /\ owner \in {"enter", "pages", "submit", "await", "drain", "wait", "write", "close", "exit",
                  "returned"}
    /\ next \in 1..(Pages + 1) /\ queued \subseteq Page
    /\ pending \in Seq(Page) /\ ready \in Seq(Page) /\ archive \in Seq(Page)
    /\ buffer \in [Page -> {"none", "open", "closed"}]
    /\ failure \in {"none", "rejected", "raised"}
    /\ result \in {"none", "accepted", "rendered", "rejected", "raised", "unclean"}
    /\ verdict \in {"none", "excluded", "published"}

\* A page is called bad for good only when its bytes are: no text another thread left
\* in the library's error buffer, or took out of it, and no lack of a resource can do
\* that (_load_source_image, _is_invalid_input).
RejectedIsInvalid == \A p \in Page : outcome[p] = "rejected" => p \in invalid

\* When a call returns, however it ends, no thread works for it any more, and every
\* spool and every rendered image that was opened for it is closed
\* (_decode_page_contents, _render_page_batch).  After a success the stream has every
\* page once and in its order, whatever earlier calls left in it; after a failure it is
\* empty, but for one that says it could not empty it (_ArchiveScratch).
NothingLeftBehind ==
    owner = "returned" =>
        /\ Idle /\ \A p \in Page : buffer[p] # "open"
        /\ result # "unclean" =>
               archive = IF result = "rendered" THEN [p \in Page |-> p] ELSE <<>>

\* A bad page never hides that another one could not be judged: the exclusion of a
\* gallery, like its acceptance, is final, so a storage or resource failure of any
\* page that was handed over makes the call raise (ImageGalleryQualifier.__call__).
ErrorsPropagate ==
    owner = "returned" /\ result \in {"accepted", "rejected"} =>
        /\ \A p \in Page : outcome[p] # "raised"
        /\ result = "accepted" => \A p \in Page : outcome[p] = "decoded"

\* Exclusive decodes that overtake regular ones, threads that wait for each other and
\* calls that are made again after a failure do not keep a gallery from being published
\* or excluded (_DecodeScheduler: no page is starved).
EventuallySettled == <>(verdict # "none")
=============================================================================
