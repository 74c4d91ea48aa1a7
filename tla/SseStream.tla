------------------------------ MODULE SseStream ------------------------------
(***************************************************************************)
(* One streaming response: the frames a server writes (sse.rs), a network  *)
(* that delivers them in chunks of any size and may fail, and the parser   *)
(* that both HTTP transports of the client share (parse_sse_bytes).        *)
(*                                                                         *)
(* The bytes are a sequence of tokens: a line feed, the beginnings of the  *)
(* id, data and comment lines, and the two halves of a payload.  An item   *)
(* is [n, ok]: the n-th of the stream, an event or an error.               *)
(***************************************************************************)
EXTENDS Integers, Sequences, SequencesExt, FiniteSets

CONSTANTS MaxItems, MaxComments   \* frames written

ASSUME SseBounds == MaxItems \in Nat /\ MaxComments \in Nat

VARIABLES
  binding,    \* "JSONRPC" or "HTTP+JSON"
  written,    \* [items, comments]: the items and keep-alives written so far
  feed,       \* tokens on the way
  link,       \* "open", "ended" (by the server), "failing" or "closed"
  buf,        \* parse_sse_bytes: the bytes not yet framed
  pending,    \* ... the results not yet yielded
  yielded,    \* ... the results the caller has
  heard       \* history: every token received

sseVars == <<binding, written, feed, link, buf, pending, yielded, heard>>

LF == [tag |-> "lf"]
Id == [tag |-> "id"]
Data == [tag |-> "data:"]
Comment == [tag |-> ":"]
Half(i, it, env) == [tag |-> "half", i |-> i, item |-> it, env |-> env]

Token ==
  {LF, Id, Data, Comment} \union
  {Half(i, it, env) : i \in {1, 2}, it \in [n : 1 .. MaxItems, ok : BOOLEAN],
                      env \in {"JSONRPC", "HTTP+JSON"}}

(* What the parser makes of bytes it cannot read.                          *)
Garbled == [n |-> 0, ok |-> FALSE]

SseInit ==
  /\ binding \in {"JSONRPC", "HTTP+JSON"}
  /\ written = [items |-> <<>>, comments |-> 0]
  /\ feed = <<>> /\ link = "open"
  /\ buf = <<>> /\ pending = <<>> /\ yielded = <<>> /\ heard = <<>>

-----------------------------------------------------------------------------
(* The server.                                                             *)

Frame(it) == <<Id, LF, Data, Half(1, it, binding), Half(2, it, binding), LF, LF>>

WriteItem ==
  /\ link = "open" /\ Len(written.items) < MaxItems
  /\ \E ok \in BOOLEAN :
       LET it == [n |-> Len(written.items) + 1, ok |-> ok]
       IN  /\ written' = [written EXCEPT !.items = Append(@, it)]
           /\ feed' = feed \o Frame(it)
  /\ UNCHANGED <<binding, link, buf, pending, yielded, heard>>

KeepAlive ==
  /\ link = "open" /\ written.comments < MaxComments
  /\ written' = [written EXCEPT !.comments = @ + 1]
  /\ feed' = feed \o <<Comment, LF, LF>>
  /\ UNCHANGED <<binding, link, buf, pending, yielded, heard>>

EndResponse ==
  /\ link = "open" /\ link' = "ended"
  /\ UNCHANGED <<binding, written, feed, buf, pending, yielded, heard>>

(* The connection is lost: the client sees an error before the end of the  *)
(* body, or only the end.                                                  *)
LoseConnection ==
  /\ link = "open" \/ (link = "ended" /\ feed # <<>>)
  /\ feed' = <<>> /\ link' \in {"failing", "ended"}
  /\ UNCHANGED <<binding, written, buf, pending, yielded, heard>>

-----------------------------------------------------------------------------
(* The parser.                                                             *)

Boundaries(b) == {i \in 1 .. Len(b) - 1 : b[i] = LF /\ b[i + 1] = LF}

(* find_event_boundary: where the first event ends, 0 if it has not.       *)
FindEventBoundary(b) ==
  IF Boundaries(b) = {} THEN 0
  ELSE CHOOSE i \in Boundaries(b) : \A j \in Boundaries(b) : i <= j

Halves(b) == {t \in Range(b) : t.tag = "half"}

Whole(halves) == {t.i : t \in halves} = {1, 2}

FirstHalf(halves) == CHOOSE t \in halves : t.i = 1

(* The two parse_event callbacks, on the data of one event: nothing, an    *)
(* item, or bytes that are no payload of the binding.  A JSON-RPC envelope *)
(* holds a result or an error; of a bare payload the JSON-RPC transport    *)
(* reads only an event.                                                    *)
ParseSseStream(b) ==
  LET d == Halves(b) first == FirstHalf(d)
  IN  CASE d = {} -> <<>>
        [] Whole(d) /\ (first.env = "JSONRPC" \/ first.item.ok) -> <<first.item>>
        [] OTHER -> <<Garbled>>

ParseSseStreamRest(b) ==
  LET d == Halves(b) first == FirstHalf(d)
  IN  CASE d = {} -> <<>>
        [] Whole(d) /\ first.env = "HTTP+JSON" -> <<first.item>>
        [] OTHER -> <<Garbled>>

ParseEvent(b) ==
  IF binding = "JSONRPC" THEN ParseSseStream(b) ELSE ParseSseStreamRest(b)

(* parse_stream_tail: what the bytes left at the end of the body give.     *)
(* Slip: they are dropped.                                                 *)
TailDropped(b) == <<>>

ParseStreamTail(b) ==
  CASE \A i \in DOMAIN b : b[i] = LF        -> <<>>
    [] \E i \in DOMAIN b : b[i] = Data      -> ParseEvent(b)
    [] OTHER                                -> <<Garbled>>

(* The loop over the boundaries of the buffer, n rounds of it at most: the *)
(* results and the rest.                                                   *)
Drain[n \in Nat] ==
  [b \in Seq(Token) |->
     LET i == FindEventBoundary(b)
     IN  IF n = 0 \/ i = 0 THEN [items |-> <<>>, rest |-> b]
         ELSE LET more == Drain[n - 1][SubSeq(b, i + 2, Len(b))]
              IN  [items |-> ParseEvent(SubSeq(b, 1, i - 1)) \o more.items,
                   rest |-> more.rest]]

(* Slip: one event is taken from a chunk.                                  *)
DrainOne(b) == Drain[1][b]

DrainAll(b) == Drain[Len(b)][b]

(* The next chunk: any part of what is on the way.                         *)
TakeChunk ==
  /\ pending = <<>> /\ feed # <<>> /\ link \in {"open", "ended"}
  /\ \E n \in 1 .. Len(feed) :
       LET d == DrainAll(buf \o SubSeq(feed, 1, n))
       IN  /\ buf' = d.rest /\ pending' = d.items
           /\ heard' = heard \o SubSeq(feed, 1, n)
           /\ feed' = SubSeq(feed, n + 1, Len(feed))
  /\ UNCHANGED <<binding, written, link, yielded>>

(* stream.next() is an error: reported; the body is then at its end.       *)
TakeError ==
  /\ pending = <<>> /\ link = "failing"
  /\ pending' = <<Garbled>> /\ link' = "ended"
  /\ UNCHANGED <<binding, written, feed, buf, yielded, heard>>

(* stream.next() is None: the tail is the last result.                     *)
TakeEnd ==
  /\ pending = <<>> /\ feed = <<>> /\ link = "ended"
  /\ link' = "closed" /\ buf' = <<>>
  /\ yielded' = yielded \o ParseStreamTail(buf)
  /\ UNCHANGED <<binding, written, feed, pending, heard>>

Yield ==
  /\ pending # <<>>
  /\ yielded' = Append(yielded, Head(pending)) /\ pending' = Tail(pending)
  /\ UNCHANGED <<binding, written, feed, link, buf, heard>>

SseNext ==
  \/ WriteItem \/ KeepAlive \/ EndResponse \/ LoseConnection
  \/ TakeChunk \/ TakeError \/ TakeEnd \/ Yield

-----------------------------------------------------------------------------

SseTypeOK ==
  /\ Len(written.items) <= MaxItems /\ written.comments <= MaxComments
  /\ link \in {"open", "ended", "failing", "closed"}
  /\ FindEventBoundary(buf) = 0

SseSpec == SseInit /\ [][SseNext]_sseVars

(* The items of which a byte of payload arrived, all of it, and all of it  *)
(* with the line that ends it and the empty line.                          *)
BegunItems(h) == {h[k].item.n : k \in {j \in DOMAIN h : h[j].tag = "half" /\ h[j].i = 1}}

WholeItems(h) == {h[k].item.n : k \in {j \in DOMAIN h : h[j].tag = "half" /\ h[j].i = 2}}

FramedItems(h) ==
  {h[k].item.n : k \in {j \in 1 .. Len(h) - 2 : h[j].tag = "half" /\ h[j].i = 2}}

(* Which results are items, and which items they are.                      *)
ItemPlaces(got) == {k \in DOMAIN got : got[k] # Garbled}

ToldItems(got) == {got[k].n : k \in ItemPlaces(got)}

(* However the body is cut into chunks and wherever the connection fails,  *)
(* the caller gets the items the server wrote, unchanged, from the first   *)
(* on without a gap, in their order, each once, none that did not arrive   *)
(* whole; every complete frame counts as soon as it is in; and a stream    *)
(* that closes without an error has yielded every item of which a byte of  *)
(* payload arrived.                                                        *)
StreamFaithful ==
  LET got == yielded \o pending
  IN  /\ \A k \in ItemPlaces(got) :
           /\ got[k].n \in DOMAIN written.items /\ got[k] = written.items[got[k].n]
           /\ 1 .. got[k].n \subseteq ToldItems(got)
      /\ \A k, l \in ItemPlaces(got) : k < l => got[k].n < got[l].n
      /\ ToldItems(got) \subseteq WholeItems(heard)
      /\ link # "closed" => ToldItems(got) = FramedItems(heard)
      /\ link = "closed" /\ Garbled \notin Range(yielded) => ToldItems(got) = BegunItems(heard)

=============================================================================
