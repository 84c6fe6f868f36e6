----------------------------- MODULE LenientUri -----------------------------
(***************************************************************************)
(* postrust-server, lenient_uri.rs: the adapter between a socket and hyper *)
(* that percent-encodes the bytes of a request target hyper would refuse,  *)
(* and no other byte.                                                      *)
(*                                                                         *)
(* It follows the framing of a connection read in pieces of any size, and  *)
(* stops rewriting for good where it cannot.  A byte is a symbol; a header *)
(* name is one symbol, since a line is only looked at once it is whole,    *)
(* and "%x" is the encoding of "x".                                        *)
(***************************************************************************)
EXTENDS Integers, Sequences

CONSTANTS
    Conversations,  \* what clients send: [preface, messages]
    MaxLine,        \* MAX_LINE
    MaxRead,        \* the most bytes one read of the socket gives
    Digit           \* the number a digit stands for

VARIABLES
    talk,       \* what the client sends on this connection
    fetched,    \* how many of its bytes were read
    adapter,    \* [state, line, length, upgrade, out]
    handed,     \* what hyper was given
    ended       \* the end of the stream was read

uriVars == <<talk, fetched, adapter, handed, ended>>

Preface == <<"PRI", "LF", "SM">>
Unsafe == {"<", "#"}
Encoded(b) == IF b = "<" THEN "%<" ELSE "%#"

(***************************************************************************)
(* What a client sends                                                     *)
(*                                                                         *)
(* A message is [line, headers, body]; a header is [kind, bytes], its kind *)
(* being what it says of the framing.  A body is as long as the message    *)
(* says.                                                                   *)
(***************************************************************************)
Flat(seqs) ==
    LET upTo[i \in 0..Len(seqs)] == IF i = 0 THEN <<>> ELSE upTo[i - 1] \o seqs[i] IN upTo[Len(seqs)]

MessageBytes(m) == m.line \o Flat([i \in 1..Len(m.headers) |-> m.headers[i].bytes]) \o <<"LF">> \o m.body

Sent(t) ==
    (IF t.preface THEN Preface ELSE <<>>) \o Flat([i \in 1..Len(t.messages) |-> MessageBytes(t.messages[i])])

(***************************************************************************)
(* The adapter                                                             *)
(***************************************************************************)
NewAdapter == [state |-> "Preface", line |-> <<>>, length |-> 0, upgrade |-> FALSE, out |-> <<>>]

GiveUp(a) == [a EXCEPT !.state = "PassThrough", !.line = <<>>, !.out = @ \o a.line]

Colon(line) == {i \in 1..Len(line) : line[i] = ":"}
HeaderIs(line, name) ==
    Colon(line) # {} /\ LET at == CHOOSE i \in Colon(line) : \A j \in Colon(line) : i <= j
                        IN SubSeq(line, 1, at - 1) = <<name>>

\* The number after the colon, <<>> for what is none.
LengthIn(line) ==
    LET value == {i \in 1..Len(line) : line[i] \notin {"SP", "CR", "LF"} /\ \E j \in Colon(line) : j < i}
    IN IF \E i \in value : value = {i} /\ line[i] \in DOMAIN Digit
       THEN <<Digit[line[CHOOSE i \in value : TRUE]]>> ELSE <<>>

\* Between the first and the last space; a line of another shape is left alone.
NormalizeRequestLine(line) ==
    LET end == IF Len(line) > 1 /\ line[Len(line) - 1] = "CR" THEN Len(line) - 2 ELSE Len(line) - 1
        spaces == {i \in 1..end : line[i] = "SP"}
        target == {i \in 1..end : (\E s \in spaces : s < i) /\ (\E s \in spaces : i < s)}
    IN [i \in 1..Len(line) |-> IF i \in target /\ line[i] \in Unsafe THEN Encoded(line[i]) ELSE line[i]]

\* Mutant: a request that asked to upgrade is followed by another like it.
NextRequest(a) ==
    [a EXCEPT !.out = @ \o a.line, !.line = <<>>, !.state = IF a.length = 0 THEN "RequestLine" ELSE "Body"]

\* The header block is over: what follows is another protocol, a body or the
\* next request.
HeadersEnd(a) ==
    [a EXCEPT !.out = @ \o a.line, !.line = <<>>,
              !.state = IF a.upgrade THEN "PassThrough" ELSE IF a.length = 0 THEN "RequestLine" ELSE "Body"]

FinishLine(a) ==
    LET length == HeaderIs(a.line, "content-length")
    IN IF a.state = "RequestLine"
       THEN [state |-> "Headers", line |-> <<>>, length |-> 0, upgrade |-> FALSE,
             out |-> a.out \o NormalizeRequestLine(a.line)]
       ELSE CASE a.line \in {<<"LF">>, <<"CR", "LF">>} -> HeadersEnd(a)
              [] HeaderIs(a.line, "transfer-encoding") \/ (length /\ LengthIn(a.line) = <<>>) -> GiveUp(a)
              [] OTHER ->
                [a EXCEPT !.out = @ \o a.line, !.line = <<>>,
                          !.length = IF length THEN LengthIn(a.line)[1] ELSE @,
                          !.upgrade = @ \/ HeaderIs(a.line, "upgrade")]

Byte(a, b) ==
    CASE a.state = "PassThrough" -> [a EXCEPT !.out = Append(@, b)]
      [] a.state = "Body" ->
            [a EXCEPT !.out = Append(@, b), !.length = @ - 1, !.state = IF a.length = 1 THEN "RequestLine" ELSE "Body"]
      [] OTHER -> IF b = "LF" THEN FinishLine([a EXCEPT !.line = Append(@, b)]) ELSE [a EXCEPT !.line = Append(@, b)]

\* The bytes of one read, and the cap on what is buffered when it ends.
Feed(a, data) ==
    LET after[i \in 0..Len(data)] == IF i = 0 THEN a ELSE Byte(after[i - 1], data[i])
        last == after[Len(data)]
    IN IF last.state \in {"RequestLine", "Headers"} /\ Len(last.line) > MaxLine THEN GiveUp(last) ELSE last

\* At the start the bytes are held until the HTTP/2 preface is complete or
\* ruled out, and then read as a request line from their first.
Process(a, data) ==
    LET held == a.line \o data
        n == IF Len(held) < Len(Preface) THEN Len(held) ELSE Len(Preface)
    IN IF a.state # "Preface" THEN Feed(a, data)
       ELSE IF SubSeq(held, 1, n) # SubSeq(Preface, 1, n) THEN Feed([a EXCEPT !.state = "RequestLine", !.line = <<>>], held)
       ELSE IF n < Len(Preface) THEN [a EXCEPT !.line = held]
       ELSE Feed(GiveUp([a EXCEPT !.line = Preface]), SubSeq(held, n + 1, Len(held)))

(***************************************************************************)
(* What a client that speaks HTTP sends: a header's kind is what the       *)
(* adapter can read of it, a body is as long as its message says unless    *)
(* the framing is another, and a request line is not the first line of     *)
(* HTTP/2's preface.  An encoding the adapter makes is told apart from the *)
(* same characters sent by the client.                                     *)
(***************************************************************************)
IsText(bytes) == bytes \in Seq({bytes[i] : i \in DOMAIN bytes} \ {"%<", "%#"})
IsLine(bytes) == IsText(bytes) /\ {i \in DOMAIN bytes : bytes[i] = "LF"} = {Len(bytes)}

Kind(line) ==
    IF HeaderIs(line, "transfer-encoding") THEN "chunked"
    ELSE IF HeaderIs(line, "content-length") THEN IF LengthIn(line) = <<>> THEN "unreadable" ELSE "length"
    ELSE IF HeaderIs(line, "upgrade") THEN "upgrade" ELSE "other"

Breaks(m) == \E i \in 1..Len(m.headers) : m.headers[i].kind \in {"upgrade", "chunked", "unreadable"}
Lengths(m) == {LengthIn(h.bytes)[1] : h \in {m.headers[i] : i \in {j \in 1..Len(m.headers) : m.headers[j].kind = "length"}}}

IsMessage(m) ==
    /\ IsLine(m.line) /\ m.line # <<"PRI", "LF">> /\ IsText(m.body)
    /\ m.headers \in Seq({m.headers[i] : i \in DOMAIN m.headers})
    /\ \A i \in DOMAIN m.headers :
          LET h == m.headers[i]
          IN IsLine(h.bytes) /\ h.bytes \notin {<<"LF">>, <<"CR", "LF">>} /\ h.kind = Kind(h.bytes)
    /\ Breaks(m) \/ Lengths(m) = {Len(m.body)} \/ (Lengths(m) = {} /\ m.body = <<>>)

ASSUME LenientAssumption ==
    /\ MaxLine \in Nat /\ MaxRead \in Nat \ {0}
    /\ \A d \in DOMAIN Digit : Digit[d] \in Nat
    /\ \A t \in Conversations :
          /\ t.preface \in BOOLEAN /\ t.messages \in Seq({t.messages[i] : i \in DOMAIN t.messages})
          /\ \A i \in DOMAIN t.messages : IsMessage(t.messages[i])

UriInit ==
    /\ talk \in Conversations
    /\ fetched = 0 /\ adapter = NewAdapter /\ handed = <<>> /\ ended = FALSE

\* What is waiting goes first, as much of it as the reader has room for.
HandOver(n) ==
    /\ n \in {1, Len(adapter.out)} /\ n <= Len(adapter.out)
    /\ handed' = handed \o SubSeq(adapter.out, 1, n)
    /\ adapter' = [adapter EXCEPT !.out = SubSeq(@, n + 1, Len(@))]
    /\ UNCHANGED <<talk, fetched, ended>>

\* Where nothing is rewritten any more the reader has the socket itself.
ReadSocket(n) ==
    /\ adapter.out = <<>> /\ ~ended /\ fetched + n <= Len(Sent(talk))
    /\ LET data == SubSeq(Sent(talk), fetched + 1, fetched + n)
       IN IF adapter.state = "PassThrough"
          THEN handed' = handed \o data /\ UNCHANGED adapter
          ELSE adapter' = Process(adapter, data) /\ UNCHANGED handed
    /\ fetched' = fetched + n
    /\ UNCHANGED <<talk, ended>>

\* The client may close anywhere; a line it did not finish is still owed.
ReadEnd ==
    /\ adapter.out = <<>> /\ ~ended
    /\ adapter' = IF adapter.line = <<>> THEN adapter ELSE GiveUp(adapter)
    /\ ended' = TRUE
    /\ UNCHANGED <<talk, fetched, handed>>

UriNext ==
    \/ \E n \in 1..Len(adapter.out) : HandOver(n)
    \/ \E n \in 1..MaxRead : ReadSocket(n)
    \/ ReadEnd

UriSpec == UriInit /\ [][UriNext]_uriVars

(***************************************************************************)
(* Properties                                                              *)
(***************************************************************************)
\* The conversation as pieces that are passed on whole, each with the bytes
\* that are owed for it: a target is encoded, and a line is a piece, while
\* every message before kept to a framing that can be followed.
Bytewise(bytes) == [i \in 1..Len(bytes) |-> [raw |-> <<bytes[i]>>, owed |-> <<bytes[i]>>]]
Whole(bytes, owed) == <<[raw |-> bytes, owed |-> owed]>>

MessagePieces(m, framed) ==
    LET lost(i) == \E j \in 1..(i - 1) : m.headers[j].kind \in {"chunked", "unreadable"}
        spaces == {i \in 1..Len(m.line) : m.line[i] = "SP"}
        inside(i) == (\E s \in spaces : s < i) /\ (\E s \in spaces : i < s)
        cooked == [i \in 1..Len(m.line) |-> IF inside(i) /\ m.line[i] \in Unsafe THEN Encoded(m.line[i]) ELSE m.line[i]]
        header(i) == IF lost(i) THEN Bytewise(m.headers[i].bytes) ELSE Whole(m.headers[i].bytes, m.headers[i].bytes)
    IN IF ~framed THEN Bytewise(MessageBytes(m))
       ELSE Whole(m.line, cooked) \o Flat([i \in 1..Len(m.headers) |-> header(i)]) \o Bytewise(<<"LF">> \o m.body)

Pieces(t) ==
    LET framed(i) == ~t.preface /\ \A j \in 1..(i - 1) : ~Breaks(t.messages[j])
    IN (IF t.preface THEN Whole(Preface, Preface) ELSE <<>>)
       \o Flat([i \in 1..Len(t.messages) |-> MessagePieces(t.messages[i], framed(i))])

\* What is owed once n bytes were read: every whole piece and, at the end of
\* the stream, the bytes of an unfinished one as they are.
Owed(t, n, final) ==
    LET pieces == Pieces(t)
        upTo(i) == Len(Flat([j \in 1..i |-> pieces[j].raw]))
        whole == CHOOSE i \in 0..Len(pieces) : upTo(i) <= n /\ (i < Len(pieces) => upTo(i + 1) > n)
    IN Flat([i \in 1..whole |-> pieces[i].owed])
       \o IF final /\ whole < Len(pieces) THEN SubSeq(pieces[whole + 1].raw, 1, n - upTo(whole)) ELSE <<>>

LinesFit(t) == \A i \in 1..Len(Pieces(t)) : Len(Pieces(t)[i].raw) <= MaxLine + 1

(***************************************************************************)
(* process and finish_line, "this adapter percent-encodes those bytes in   *)
(* the request target, and only there": however a connection is cut into   *)
(* reads and wherever it is closed, hyper is owed exactly the bytes sent,  *)
(* with the targets of followed requests encoded and bodies, WebSocket     *)
(* frames, chunks and HTTP/2 untouched -- and no more is ever held back    *)
(* than a line that is not whole. A request line that is not METHOD TARGET *)
(* VERSION is passed on as it is and the requests after it are still       *)
(* followed, as finish_line does (:190-196, :279-291), where the module's  *)
(* own doc (:26-30) has rewriting stop for the rest of the connection.     *)
(***************************************************************************)
OnlyTargetsChange ==
    LinesFit(talk) => handed \o adapter.out = Owed(talk, fetched, ended)

Undone(bytes) ==
    [i \in 1..Len(bytes) |-> CASE bytes[i] = "%<" -> "<" [] bytes[i] = "%#" -> "#" [] OTHER -> bytes[i]]

(***************************************************************************)
(* give_up and poll_read, "it is not dropped silently": a line too long to *)
(* buffer, a framing that cannot be followed or the end of the stream      *)
(* neither loses, repeats nor reorders a byte.                             *)
(***************************************************************************)
NothingLostOrMoved ==
    Undone(handed \o adapter.out) \o adapter.line = SubSeq(Sent(talk), 1, fetched)

(***************************************************************************)
(* The adapter hands on the connection as it was sent, targets encoded.    *)
(***************************************************************************)
StreamIsFaithful == OnlyTargetsChange /\ NothingLostOrMoved
=============================================================================
