------------------------------- MODULE Exchange ------------------------------
(***************************************************************************)
(* LISHClient of lish-protocol.ts: requests and answers over one stream.   *)
(* There is no number on either; a request that times out leaves its read  *)
(* of the stream behind, and the next request reads after it.              *)
(***************************************************************************)
EXTENDS Naturals, Sequences, SequencesExt

CONSTANT MaxExchanges    \* bound: requests sent over the stream

ASSUME ExchangeAssumption == MaxExchanges \in Nat

VARIABLES
  asked,     \* requests sent, in order; number n is the n-th
  sent,      \* requests on their way to the handler
  answers,   \* answers on their way back
  reads,     \* reads of the stream that wait: the request each was made for
  waiting,   \* the request a caller waits for, 0 if none
  got,       \* what the last caller got: request and answer
  link       \* the stream

exchangeVars == <<asked, sent, answers, reads, waiting, got, link>>

ExchangeInit == asked = 0 /\ sent = <<>> /\ answers = <<>> /\ reads = <<>> /\ waiting = 0 /\ got = <<0, 0>> /\ link = "open"

\* requestManifest, requestList, requestChunk, announceHave: send, then read; not on a stream
\* that is closed.
Ask ==
  /\ link = "open" /\ waiting = 0 /\ asked < MaxExchanges
  /\ asked' = asked + 1 /\ sent' = Append(sent, asked') /\ reads' = Append(reads, asked') /\ waiting' = asked'
  /\ UNCHANGED <<answers, got, link>>

\* Mutant: a request that is refused is served as well.
AnswerTwice ==
  /\ link = "open" /\ sent # <<>> /\ sent' = Tail(sent)
  /\ answers' \in {Append(answers, Head(sent)), answers \o <<Head(sent), Head(sent)>>}
  /\ UNCHANGED <<asked, reads, waiting, got, link>>

\* handleLISHProtocol answers each request once, also those it refuses, in order.
AnswerNext ==
  /\ link = "open" /\ sent # <<>> /\ sent' = Tail(sent)
  /\ answers' = Append(answers, Head(sent))
  /\ UNCHANGED <<asked, reads, waiting, got, link>>

\* The first read gets the first answer; if its caller has gone nobody sees it.
Receive ==
  /\ answers # <<>> /\ reads # <<>>
  /\ answers' = Tail(answers) /\ reads' = Tail(reads)
  /\ IF Head(reads) = waiting THEN waiting' = 0 /\ got' = <<Head(reads), Head(answers)>> ELSE UNCHANGED <<waiting, got>>
  /\ UNCHANGED <<asked, sent, link>>

\* rejectAfterTimeout wins the race; the read is not taken back.
AskTimesOut == waiting # 0 /\ waiting' = 0 /\ UNCHANGED <<asked, sent, answers, reads, got, link>>

\* close or abort: every read ends.
LinkEnds ==
  /\ link = "open" /\ link' = "closed" /\ waiting' = 0 /\ reads' = <<>> /\ answers' = <<>> /\ sent' = <<>>
  /\ UNCHANGED <<asked, got>>

ExchangeNext == Ask \/ AnswerNext \/ Receive \/ AskTimesOut \/ LinkEnds

-----------------------------------------------------------------------------
\* Although a caller may give up and another ask after it on the same stream, nobody is given
\* the answer to an earlier question.
AnswerIsOwn == got[1] = got[2]
=============================================================================
