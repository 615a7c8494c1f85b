-------------------------- MODULE RouteFetchProofs --------------------------
(***************************************************************************)
(* The client's fetch of the routing table, for every table and every      *)
(* number of commands, changes and crashes:                                *)
(*   - the receive buffer of its RpcClient stays aligned with the frames   *)
(*     in it until a new connection is made over a part of a frame, and    *)
(*     timeouts come at any byte of a frame (StreamInv);                   *)
(*   - a command with a sound start, during which the Master stays up,     *)
(*     gets its table with one retry at most (CalmInv);                    *)
(*   - until then, the table a command gets routes every key to a node     *)
(*     that owned the key during the command, if no split overtakes a walk *)
(*     over the table and no key has a ':' (FreshInv).                     *)
(***************************************************************************)
EXTENDS RouteFetch, TabletTableProofs, FiniteSetTheorems, WellFoundedInduction

-----------------------------------------------------------------------------
\* s is a sequence, whatever it holds.
IsSeq(s) == s \in Seq(ToSet(s))

\* What the client has received and not taken, followed by what is under way.
Stream == buf \o wire

HeaderAt(s, i) == s[i].kind = "header" /\ s[i].size \in Nat

OneFrame(s) ==
    /\ Len(s) > 0
    /\ HeaderAt(s, 1)
    /\ Len(s) = s[1].size + 1

TwoFrames(s) ==
    /\ Len(s) > 0
    /\ HeaderAt(s, 1)
    /\ Len(s) > s[1].size + 1
    /\ HeaderAt(s, s[1].size + 2)
    /\ Len(s) = s[1].size + s[s[1].size + 2].size + 2

\* s is n whole frames.
Frames(s, n) ==
    \/ n = 0 /\ s = <<>>
    \/ n = 1 /\ OneFrame(s)
    \/ n = 2 /\ TwoFrames(s)

Busy == IF reader = Idle THEN 0 ELSE 1

\* A request that was reset, or sent on a closed connection, has no reply.
Lost == IF peer = "rst" THEN 1 ELSE 0

\* How many requests of the current connection can be unanswered or have a
\* reply that was not taken.  A timed out second attempt leaves one behind;
\* the next command adds its own.
Limit ==
    IF cpc = "connect" \/ (cpc = "recv" /\ attempt = 1) THEN 2
    ELSE IF cpc = "send" /\ attempt = 2 THEN 0
    ELSE 1

ReaderOK ==
    reader # Idle => /\ reader = [rid |-> reader.rid, size |-> reader.size,
                                  body |-> reader.body, freed |-> reader.freed]
                     /\ IsSeq(reader.body)

\* The stream is whole frames, but for what a crash cut off its end.
Whole ==
    \E n \in 0..2 : \E rest :
        /\ IsSeq(rest)
        /\ peer = "open" => rest = <<>>
        /\ Frames(Stream \o rest, n)
        /\ n + Busy + Len(requests) + Lost <= Limit

\* Until a connection is closed in the middle of a frame.
StreamInv ==
    /\ IsSeq(buf) /\ IsSeq(wire) /\ IsSeq(requests)
    /\ ReaderOK
    /\ cpc \in {"prompt", "connect", "send", "recv", "killed"}
    /\ attempt \in {1, 2}
    /\ Whole
    \* the server side of a connection it lost is gone
    /\ peer # "open" => requests = <<>> /\ reader = Idle
    /\ fd = "none" => cpc \in {"prompt", "connect"} /\ buf = <<>>
    /\ fd = "failed" => peer = "dead"


-----------------------------------------------------------------------------
(* Sequences of cells of any kind.                                         *)

\* A sequence over some set is one over the set of its elements.
LEMMA SeqIsSeq == ASSUME NEW S, NEW s \in Seq(S) PROVE IsSeq(s)
<1>1. \A i \in 1..Len(s) : s[i] \in ToSet(s)
  BY DEF ToSet
<1> QED
  BY <1>1 DEF IsSeq

\* The empty sequence.
LEMMA EmptyIsSeq == IsSeq(<<>>)
  BY SeqIsSeq, <<>> \in Seq({})

\* Append, whatever is appended.
LEMMA AppendIsSeq ==
  ASSUME NEW s, IsSeq(s), NEW e PROVE IsSeq(Append(s, e)) /\ Len(Append(s, e)) = Len(s) + 1
<1> DEFINE S == ToSet(s) \cup {e}
<1>1. s \in Seq(S) /\ e \in S
  BY DEF IsSeq
<1> HIDE DEF S
<1>2. Append(s, e) \in Seq(S) /\ Len(Append(s, e)) = Len(s) + 1
  BY <1>1
<1> QED
  BY <1>2, SeqIsSeq

\* Two sequences have a common set of elements.
LEMMA CommonSet ==
  ASSUME NEW s, IsSeq(s), NEW t, IsSeq(t) PROVE \E S : s \in Seq(S) /\ t \in Seq(S)
<1>1. s \in Seq(ToSet(s) \cup ToSet(t)) /\ t \in Seq(ToSet(s) \cup ToSet(t))
  BY DEF IsSeq
<1> QED
  BY <1>1

\* Concatenation: its length and its elements.
LEMMA ConcatIsSeq ==
  ASSUME NEW s, IsSeq(s), NEW t, IsSeq(t)
  PROVE  /\ IsSeq(s \o t)
         /\ Len(s) \in Nat /\ Len(t) \in Nat
         /\ Len(s \o t) = Len(s) + Len(t)
         /\ \A i \in 1..Len(s) : (s \o t)[i] = s[i]
         /\ \A i \in 1..Len(t) : (s \o t)[Len(s) + i] = t[i]
         /\ t = <<>> => s \o t = s
         /\ s = <<>> => s \o t = t
<1>1. PICK S : s \in Seq(S) /\ t \in Seq(S)
  BY CommonSet
<1>2. s \o t \in Seq(S)
  BY <1>1
<1>3. IsSeq(s \o t)
  BY <1>2, SeqIsSeq
<1>4. /\ Len(s) \in Nat /\ Len(t) \in Nat
      /\ Len(s \o t) = Len(s) + Len(t)
      /\ \A i \in 1..Len(s) : (s \o t)[i] = s[i]
      /\ \A i \in 1..Len(t) : (s \o t)[Len(s) + i] = t[i]
  BY <1>1
<1>5. /\ t = <<>> => s \o t = s
      /\ s = <<>> => s \o t = t
  BY <1>1
<1> QED
  BY <1>3, <1>4, <1>5

\* Concatenation is associative.
LEMMA ConcatAssoc ==
  ASSUME NEW b, IsSeq(b), NEW w, IsSeq(w), NEW f, IsSeq(f)
  PROVE  b \o (w \o f) = (b \o w) \o f
<1>1. PICK S : b \in Seq(S) /\ w \in Seq(S) /\ f \in Seq(S)
  <2> DEFINE S == ToSet(b) \cup ToSet(w) \cup ToSet(f)
  <2>1. b \in Seq(S) /\ w \in Seq(S) /\ f \in Seq(S)
    BY DEF IsSeq
  <2> QED
    BY <2>1
<1> QED
  BY <1>1

\* SubSeq: its length and its elements.
LEMMA SubSeqIsSeq ==
  ASSUME NEW s, IsSeq(s), NEW m \in 1..(Len(s) + 1), NEW n \in 0..Len(s), m =< n + 1
  PROVE  /\ IsSeq(SubSeq(s, m, n))
         /\ Len(SubSeq(s, m, n)) = n - m + 1
         /\ \A i \in 1..(n - m + 1) : SubSeq(s, m, n)[i] = s[m + i - 1]
<1> DEFINE S == ToSet(s)
<1>1. s \in Seq(S)
  BY DEF IsSeq
<1> HIDE DEF S
<1>2. SubSeq(s, m, n) \in Seq(S)
  BY <1>1
<1>3. IsSeq(SubSeq(s, m, n))
  BY <1>2, SeqIsSeq
<1>4. /\ Len(SubSeq(s, m, n)) = n - m + 1
      /\ \A i \in 1..(n - m + 1) : SubSeq(s, m, n)[i] = s[m + i - 1]
  BY <1>1
<1> QED
  BY <1>3, <1>4

\* Sequences with the same elements at the same places are equal.
LEMMA SameCells ==
  ASSUME NEW s, IsSeq(s), NEW t, IsSeq(t), Len(s) = Len(t),
         \A i \in 1..Len(s) : s[i] = t[i]
  PROVE  s = t
<1>1. PICK S : s \in Seq(S) /\ t \in Seq(S)
  BY CommonSet
<1> QED
  BY <1>1

\* Receiving moves cells from the front of the wire to the end of the buffer.
LEMMA MoveCells ==
  ASSUME NEW b, IsSeq(b), NEW w, IsSeq(w), NEW n \in 0..Len(w)
  PROVE  /\ IsSeq(b \o SubSeq(w, 1, n)) /\ IsSeq(SubSeq(w, n + 1, Len(w)))
         /\ (b \o SubSeq(w, 1, n)) \o SubSeq(w, n + 1, Len(w)) = b \o w
<1> DEFINE x == SubSeq(w, 1, n)  y == SubSeq(w, n + 1, Len(w))
           u == (b \o x) \o y    v == b \o w
<1>0. Len(w) \in Nat /\ Len(b) \in Nat
  BY ConcatIsSeq
<1>1. IsSeq(x) /\ Len(x) = n /\ \A i \in 1..n : x[i] = w[i]
  <2>1. 1 \in 1..(Len(w) + 1) /\ n \in 0..Len(w) /\ 1 =< n + 1 /\ n - 1 + 1 = n
    BY <1>0
  <2>2. IsSeq(x) /\ Len(x) = n - 1 + 1 /\ \A i \in 1..(n - 1 + 1) : x[i] = w[1 + i - 1]
    BY <2>1, SubSeqIsSeq
  <2> QED
    BY <2>1, <2>2
<1>2. IsSeq(y) /\ Len(y) = Len(w) - n /\ \A i \in 1..(Len(w) - n) : y[i] = w[n + i]
  <2>1. n + 1 \in 1..(Len(w) + 1) /\ Len(w) \in 0..Len(w) /\ n + 1 =< Len(w) + 1
    BY <1>0
  <2>2. IsSeq(y) /\ Len(y) = Len(w) - (n + 1) + 1
        /\ \A i \in 1..(Len(w) - (n + 1) + 1) : y[i] = w[(n + 1) + i - 1]
    BY <2>1, SubSeqIsSeq
  <2> QED
    BY <1>0, <2>2
<1> HIDE DEF x, y
<1>3. /\ IsSeq(b \o x) /\ Len(b \o x) = Len(b) + n
      /\ \A i \in 1..Len(b) : (b \o x)[i] = b[i]
      /\ \A i \in 1..n : (b \o x)[Len(b) + i] = x[i]
  <2>0. IsSeq(x)
    BY <1>1
  <2>1. /\ IsSeq(b \o x) /\ Len(b \o x) = Len(b) + Len(x)
        /\ \A i \in 1..Len(b) : (b \o x)[i] = b[i]
        /\ \A i \in 1..Len(x) : (b \o x)[Len(b) + i] = x[i]
    BY <2>0, ConcatIsSeq
  <2> QED
    BY <1>1, <2>1, Zenon
<1>4. /\ IsSeq(u) /\ Len(u) = Len(b) + n + (Len(w) - n)
      /\ \A i \in 1..(Len(b) + n) : u[i] = (b \o x)[i]
      /\ \A i \in 1..(Len(w) - n) : u[Len(b) + n + i] = y[i]
  <2> DEFINE c == b \o x
  <2>1. IsSeq(c) /\ Len(c) = Len(b) + n
    BY <1>3
  <2> HIDE DEF c
  <2>2. /\ IsSeq(c \o y) /\ Len(c \o y) = Len(c) + Len(y)
        /\ \A i \in 1..Len(c) : (c \o y)[i] = c[i]
        /\ \A i \in 1..Len(y) : (c \o y)[Len(c) + i] = y[i]
    <3>1. IsSeq(c) /\ IsSeq(y)
      BY <1>2, <2>1
    <3> QED
      BY <3>1, ConcatIsSeq
  <2> QED
    BY <1>2, <2>1, <2>2, Zenon DEF c, u
<1>5. /\ IsSeq(v) /\ Len(v) = Len(b) + Len(w)
      /\ \A i \in 1..Len(b) : v[i] = b[i]
      /\ \A i \in 1..Len(w) : v[Len(b) + i] = w[i]
  BY ConcatIsSeq
<1> HIDE DEF u, v
<1>6. ASSUME NEW i \in 1..Len(u) PROVE u[i] = v[i]
  <2>1. CASE i \in 1..Len(b)
    BY <1>0, <1>3, <1>4, <1>5, <2>1
  <2>2. ASSUME NEW j \in 1..n, i = Len(b) + j PROVE u[i] = v[i]
    BY <1>0, <1>1, <1>3, <1>4, <1>5, <2>2
  <2>3. ASSUME NEW j \in 1..(Len(w) - n), i = Len(b) + n + j PROVE u[i] = v[i]
    <3>1. u[i] = w[n + j]
      BY <1>2, <1>4, <2>3
    <3>2. n + j \in 1..Len(w) /\ i = Len(b) + (n + j)
      BY <1>0, <2>3
    <3> QED
      BY <1>5, <3>1, <3>2
  <2>4. \/ i \in 1..Len(b)
        \/ i - Len(b) \in 1..n /\ i = Len(b) + (i - Len(b))
        \/ i - Len(b) - n \in 1..(Len(w) - n) /\ i = Len(b) + n + (i - Len(b) - n)
    BY <1>0, <1>4
  <2> QED
    BY <2>1, <2>2, <2>3, <2>4
<1>7. u = v
  <2>1. Len(u) = Len(v)
    BY <1>0, <1>4, <1>5
  <2> QED
    BY <1>4, <1>5, <1>6, <2>1, SameCells
<1> QED
  BY <1>2, <1>3, <1>7 DEF u, v, x, y

\* Erasing from the buffer erases from the stream.
LEMMA CutStream ==
  ASSUME NEW b, IsSeq(b), NEW w, IsSeq(w), NEW k \in 1..(Len(b) + 1)
  PROVE  /\ IsSeq(SubSeq(b, k, Len(b)))
         /\ SubSeq(b, k, Len(b)) \o w = SubSeq(b \o w, k, Len(b \o w))
<1> DEFINE x == SubSeq(b, k, Len(b))  s == b \o w
           u == x \o w                v == SubSeq(s, k, Len(s))
<1>0. /\ Len(b) \in Nat /\ Len(w) \in Nat
      /\ IsSeq(s) /\ Len(s) = Len(b) + Len(w)
      /\ \A i \in 1..Len(b) : s[i] = b[i]
      /\ \A i \in 1..Len(w) : s[Len(b) + i] = w[i]
  BY ConcatIsSeq
<1>1. IsSeq(x) /\ Len(x) = Len(b) - k + 1 /\ \A i \in 1..(Len(b) - k + 1) : x[i] = b[k + i - 1]
  <2>1. Len(b) \in 0..Len(b) /\ k =< Len(b) + 1
    BY <1>0
  <2> QED
    BY <2>1, SubSeqIsSeq
<1> HIDE DEF s
<1>2. IsSeq(v) /\ Len(v) = Len(s) - k + 1 /\ \A i \in 1..(Len(s) - k + 1) : v[i] = s[k + i - 1]
  <2>1. Len(s) \in 0..Len(s) /\ k =< Len(s) + 1 /\ k \in 1..(Len(s) + 1)
    BY <1>0
  <2> QED
    BY <1>0, <2>1, SubSeqIsSeq
<1> HIDE DEF x
<1>3. /\ IsSeq(u) /\ Len(u) = Len(x) + Len(w)
      /\ \A i \in 1..Len(x) : u[i] = x[i]
      /\ \A i \in 1..Len(w) : u[Len(x) + i] = w[i]
  <2>1. IsSeq(x)
    BY <1>1
  <2> QED
    BY <2>1, ConcatIsSeq
<1> HIDE DEF u, v
<1>4. ASSUME NEW i \in 1..Len(u) PROVE u[i] = v[i]
  <2>1. CASE i \in 1..Len(x)
    <3>1. u[i] = b[k + i - 1]
      BY <1>1, <1>3, <2>1
    <3>2. k + i - 1 \in 1..Len(b) /\ i \in 1..(Len(s) - k + 1)
      BY <1>0, <1>1, <2>1
    <3> QED
      BY <1>0, <1>2, <3>1, <3>2
  <2>2. ASSUME NEW j \in 1..Len(w), i = Len(x) + j PROVE u[i] = v[i]
    <3>1. u[i] = w[j]
      BY <1>3, <2>2
    <3>2. k + i - 1 = Len(b) + j /\ i \in 1..(Len(s) - k + 1)
      BY <1>0, <1>1, <2>2
    <3> QED
      BY <1>0, <1>2, <3>1, <3>2
  <2>3. i \in 1..Len(x) \/ (i - Len(x) \in 1..Len(w) /\ i = Len(x) + (i - Len(x)))
    BY <1>0, <1>1, <1>3
  <2> QED
    BY <2>1, <2>2, <2>3
<1>5. u = v
  <2>1. Len(u) = Len(v)
    BY <1>0, <1>1, <1>2, <1>3
  <2> QED
    BY <1>2, <1>3, <1>4, <2>1, SameCells
<1> QED
  BY <1>1, <1>5 DEF u, v, x, s


-----------------------------------------------------------------------------
(* Frames in a stream.                                                     *)

\* EncodeResponse makes one whole frame.
LEMMA FrameIsWhole ==
  ASSUME NEW id, NEW body, IsSeq(body) PROVE IsSeq(Frame(id, body)) /\ OneFrame(Frame(id, body))
<1> DEFINE h == [kind |-> "header", rid |-> id, size |-> Len(body)]
           c == [i \in DOMAIN body |-> [kind |-> "segment", parts |-> body[i]]]
<1>1. Len(body) \in Nat /\ DOMAIN body = 1..Len(body)
  BY DEF IsSeq
<1>2. IsSeq(c) /\ Len(c) = Len(body)
  <2>1. c \in Seq({c[i] : i \in 1..Len(body)})
    BY <1>1
  <2>2. IsSeq(c)
    BY <2>1, SeqIsSeq
  <2>3. DOMAIN c = 1..Len(body)
    BY <1>1
  <2> QED
    BY <1>1, <2>1, <2>2, <2>3
<1>3. h.kind = "header" /\ h.size = Len(body)
  OBVIOUS
<1> HIDE DEF h, c
<1>4. IsSeq(<<h>>) /\ Len(<<h>>) = 1 /\ <<h>>[1] = h
  <2>1. <<h>> \in Seq({h})
    OBVIOUS
  <2> QED
    BY <2>1, SeqIsSeq
<1>5. IsSeq(c)
  BY <1>2
<1>6. IsSeq(<<h>> \o c) /\ Len(<<h>> \o c) = Len(body) + 1 /\ (<<h>> \o c)[1] = h
  <2> DEFINE g == <<h>>
  <2>1. IsSeq(g) /\ Len(g) = 1 /\ g[1] = h
    BY <1>4
  <2> HIDE DEF g
  <2>2. IsSeq(g)
    BY <2>1
  <2>3. /\ IsSeq(g \o c) /\ Len(g \o c) = Len(g) + Len(c)
        /\ \A i \in 1..Len(g) : (g \o c)[i] = g[i]
    BY <1>5, <2>2, ConcatIsSeq
  <2>4. IsSeq(g \o c) /\ Len(g \o c) = Len(body) + 1 /\ (g \o c)[1] = h
    BY <1>1, <1>2, <2>1, <2>3
  <2> QED
    BY <2>4 DEF g
<1>7. Frame(id, body) = <<h>> \o c
  BY DEF Frame, h, c
<1> DEFINE f == <<h>> \o c
<1> HIDE DEF f
<1>8. IsSeq(f) /\ OneFrame(f)
  BY <1>1, <1>3, <1>6 DEF f, OneFrame, HeaderAt
<1> QED
  BY <1>7, <1>8 DEF f

\* A frame sent after n frames makes n + 1.
LEMMA AddFrame ==
  ASSUME NEW s, IsSeq(s), NEW f, IsSeq(f), NEW n \in 0..1
  PROVE  Frames(s, n) /\ OneFrame(f) => Frames(s \o f, n + 1)
<1>1. /\ IsSeq(s \o f)
      /\ Len(s) \in Nat /\ Len(f) \in Nat
      /\ Len(s \o f) = Len(s) + Len(f)
      /\ \A i \in 1..Len(s) : (s \o f)[i] = s[i]
      /\ \A i \in 1..Len(f) : (s \o f)[Len(s) + i] = f[i]
      /\ s = <<>> => s \o f = f
  <2>1. IsSeq(s) /\ IsSeq(f)
    OBVIOUS
  <2>2. s = <<>> => s \o f = f
    BY <2>1, ConcatIsSeq
  <2>3. Len(s) \in Nat /\ Len(f) \in Nat
    BY <2>1, ConcatIsSeq
  <2>4. /\ IsSeq(s \o f)
        /\ Len(s \o f) = Len(s) + Len(f)
        /\ \A i \in 1..Len(s) : (s \o f)[i] = s[i]
        /\ \A i \in 1..Len(f) : (s \o f)[Len(s) + i] = f[i]
    BY <2>1, ConcatIsSeq
  <2> QED
    BY <2>2, <2>3, <2>4
<1> HAVE Frames(s, n) /\ OneFrame(f)
<1> DEFINE u == s \o f
<1>2. CASE n = 0
  BY <1>1, <1>2 DEF Frames
<1>3. CASE n = 1
  <2>1. OneFrame(s)
    BY <1>3 DEF Frames
  <2>2. u[1] = s[1] /\ u[Len(s) + 1] = f[1] /\ Len(u) = Len(s) + Len(f)
    BY <1>1, <2>1 DEF OneFrame
  <2> HIDE DEF u
  <2>3. TwoFrames(u)
    <3>1. Len(s) = s[1].size + 1 /\ Len(f) = f[1].size + 1 /\ HeaderAt(s, 1) /\ HeaderAt(f, 1)
      BY <2>1 DEF OneFrame
    <3>2. Len(s) + 1 = u[1].size + 2
      BY <2>2, <3>1 DEF HeaderAt
    <3>3. u[u[1].size + 2] = f[1]
      BY <2>2, <3>2
    <3> QED
      <4>1. HeaderAt(u, 1) /\ HeaderAt(u, u[1].size + 2)
        BY <2>2, <3>1, <3>3 DEF HeaderAt
      <4>2. u[1].size = s[1].size /\ u[u[1].size + 2].size = f[1].size
        BY <2>2, <3>3
      <4>3. PICK a \in Nat, d \in Nat : s[1].size = a /\ f[1].size = d
        BY <3>1 DEF HeaderAt
      <4>4. Len(u) = a + d + 2 /\ u[1].size = a /\ u[u[1].size + 2].size = d
        BY <2>2, <3>1, <4>2, <4>3
      <4>5. Len(u) > 0 /\ Len(u) > a + 1
        BY <4>4
      <4> QED
        BY <4>1, <4>4, <4>5 DEF TwoFrames
  <2> QED
    BY <1>3, <2>3 DEF Frames, u
<1> QED
  BY <1>2, <1>3

\* A stream that is not empty starts with a whole frame, and without it one
\* frame less is left.
LEMMA TakeFrame ==
  ASSUME NEW s, IsSeq(s), NEW n \in 0..2, Frames(s, n), s # <<>>
  PROVE  /\ n >= 1
         /\ HeaderAt(s, 1)
         /\ Len(s) \in Nat /\ Len(s) > s[1].size
         /\ Frames(SubSeq(s, s[1].size + 2, Len(s)), n - 1)
<1>1. n = 1 \/ n = 2
  BY DEF Frames
<1>2. Len(s) \in Nat
  BY DEF IsSeq
<1>3. HeaderAt(s, 1) /\ Len(s) > s[1].size
  BY <1>1, <1>2 DEF Frames, OneFrame, TwoFrames, HeaderAt
<1> DEFINE m == s[1].size + 2  r == SubSeq(s, m, Len(s))
<1>4. m \in 1..(Len(s) + 1) /\ Len(s) \in 0..Len(s) /\ m =< Len(s) + 1
  BY <1>2, <1>3 DEF HeaderAt
<1>5. IsSeq(r) /\ Len(r) = Len(s) - m + 1 /\ \A i \in 1..(Len(s) - m + 1) : r[i] = s[m + i - 1]
  <2> HIDE DEF m
  <2> QED
    BY <1>4, SubSeqIsSeq
<1> HIDE DEF r
<1>6. CASE n = 1
  <2>1. Len(r) = 0
    BY <1>2, <1>3, <1>5, <1>6 DEF Frames, OneFrame, HeaderAt
  <2>2. r = <<>>
    BY <1>5, <2>1 DEF IsSeq
  <2> QED
    BY <1>2, <1>3, <1>6, <2>2 DEF Frames, r
<1>7. CASE n = 2
  <2>1. /\ Len(s) > s[1].size + 1
        /\ HeaderAt(s, m)
        /\ Len(s) = s[1].size + s[m].size + 2
    BY <1>7 DEF Frames, TwoFrames
  <2>2. 1 \in 1..(Len(s) - m + 1) /\ m + 1 - 1 = m
    BY <1>2, <1>3, <2>1 DEF HeaderAt
  <2>3. r[1] = s[m]
    BY <1>5, <2>2
  <2>4. OneFrame(r)
    <3>1. PICK a \in Nat, d \in Nat : s[1].size = a /\ s[m].size = d
      BY <1>3, <2>1 DEF HeaderAt
    <3>2. Len(s) = a + d + 2 /\ Len(r) = Len(s) - (a + 2) + 1
      BY <1>5, <2>1, <3>1
    <3>3. Len(r) > 0 /\ Len(r) = d + 1 /\ r[1].size = d
      BY <2>3, <3>1, <3>2
    <3>4. HeaderAt(r, 1)
      BY <2>1, <2>3 DEF HeaderAt
    <3> QED
      BY <3>3, <3>4 DEF OneFrame
  <2> QED
    BY <1>2, <1>3, <1>7, <2>4 DEF Frames, r
<1> QED
  BY <1>1, <1>6, <1>7


-----------------------------------------------------------------------------
(* The invariant.                                                          *)

\* At first nothing is under way.
LEMMA StreamInvInit == FetchInit => StreamInv
<1> SUFFICES ASSUME FetchInit PROVE StreamInv
  OBVIOUS
<1>1. /\ buf = <<>> /\ wire = <<>> /\ requests = <<>> /\ reader = Idle
      /\ cpc = "prompt" /\ attempt = 1 /\ peer = "dead" /\ fd = "none"
  BY DEF FetchInit
<1>2. Stream = <<>>
  BY <1>1 DEF Stream
<1>3. Whole
  <2>1. Stream \o <<>> = <<>>
    BY <1>2, EmptyIsSeq, ConcatIsSeq
  <2>2. PICK e : e = <<>>
    OBVIOUS
  <2>3. IsSeq(e) /\ Frames(Stream \o e, 0) /\ 0 + Busy + Len(requests) + Lost <= Limit
    BY <1>1, <2>1, <2>2, EmptyIsSeq DEF Frames, Busy, Lost, Limit
  <2>4. 0 \in 0..2
    OBVIOUS
  <2> QED
    BY <2>2, <2>3, <2>4, Zenon DEF Whole
<1>4. IsSeq(buf) /\ IsSeq(wire) /\ IsSeq(requests)
  BY <1>1, EmptyIsSeq
<1> QED
  BY <1>1, <1>3, <1>4 DEF StreamInv, ReaderOK

\* A stream that is whole after a step.
LEMMA WholeNext ==
  ASSUME NEW n \in 0..2, NEW x, IsSeq(x), peer' = "open" => x = <<>>,
         Frames(Stream' \o x, n), n + Busy' + Len(requests') + Lost' <= Limit'
  PROVE  Whole'
<1>1. Frames(Stream \o x, n)' /\ IsSeq(x)' /\ (n + Busy + Len(requests) + Lost <= Limit)'
  BY DEF Frames, OneFrame, TwoFrames, HeaderAt, IsSeq, ToSet
<1> QED
  BY <1>1 DEF Whole

\* Steps of the balancer and a restart leave the client, the connection and
\* what the worker has written alone.
LEMMA QuietStep ==
  ASSUME StreamInv, UNCHANGED <<connVars, clientVars>>, ReaderOK',
         (reader' = Idle) <=> (reader = Idle)
  PROVE  StreamInv'
<1> USE DEF connVars, clientVars
<1>1. PICK n \in 0..2 :
         \E x : /\ IsSeq(x) /\ (peer = "open" => x = <<>>)
               /\ Frames(Stream \o x, n) /\ n + Busy + Len(requests) + Lost <= Limit
  BY DEF StreamInv, Whole
<1>0. PICK rest : /\ IsSeq(rest) /\ (peer = "open" => rest = <<>>)
                  /\ Frames(Stream \o rest, n) /\ n + Busy + Len(requests) + Lost <= Limit
  BY <1>1
<1>2. Stream' = Stream /\ Lost' = Lost /\ Limit' = Limit
  BY DEF Stream, Lost, Limit
<1>3. Busy' = Busy
  BY DEF Busy
<1>4. Frames(Stream' \o rest, n) /\ n + Busy' + Len(requests') + Lost' <= Limit'
  BY <1>0, <1>2, <1>3
<1>5. Whole'
  BY <1>0, <1>4, WholeNext
<1>6. /\ IsSeq(buf') /\ IsSeq(wire') /\ IsSeq(requests')
      /\ cpc' \in {"prompt", "connect", "send", "recv", "killed"}
      /\ attempt' \in {1, 2}
  BY DEF StreamInv
<1>7. /\ peer' # "open" => requests' = <<>> /\ reader' = Idle
      /\ fd' = "none" => cpc' \in {"prompt", "connect"} /\ buf' = <<>>
      /\ fd' = "failed" => peer' = "dead"
  BY DEF StreamInv
<1> QED
  BY <1>5, <1>6, <1>7 DEF StreamInv, IsSeq, ToSet

\* The balancer.
LEMMA BalancerStep ==
  ASSUME StreamInv, Balancer \/ MasterRestart PROVE StreamInv'
<1>1. UNCHANGED <<connVars, clientVars>>
  BY DEF Balancer, SplitLeft, SplitInsert, FlipRoute, MasterRestart
<1>2. CASE reader' = reader
  <2>1. ReaderOK'
    BY <1>2 DEF StreamInv, ReaderOK, IsSeq, ToSet, Idle
  <2> QED
    BY <1>1, <1>2, <2>1, QuietStep
<1>3. CASE reader' # reader
  <2>1. PICK x : reader # Idle /\ reader' = [reader EXCEPT !.freed = x]
    BY <1>3 DEF Balancer, SplitLeft, SplitInsert, FlipRoute, MasterRestart
  <2>2. PICK r, z, b, f : reader = [rid |-> r, size |-> z, body |-> b, freed |-> f] /\ IsSeq(b)
    BY <2>1 DEF StreamInv, ReaderOK
  <2>3. reader' = [rid |-> r, size |-> z, body |-> b, freed |-> x]
    BY <2>1, <2>2
  <2>4. reader' # Idle
    BY <2>3 DEF Idle
  <2>5. ReaderOK'
    BY <2>2, <2>3 DEF ReaderOK, IsSeq, ToSet
  <2> QED
    BY <1>1, <2>1, <2>4, <2>5, QuietStep
<1> QED
  BY <1>2, <1>3


\* The worker: a request becomes a reply, which becomes a frame.
LEMMA WorkerStep ==
  ASSUME StreamInv, Worker PROVE StreamInv'
<1> USE DEF connVars, clientVars
<1>1. PICK n \in 0..2 :
         \E x : /\ IsSeq(x) /\ (peer = "open" => x = <<>>)
               /\ Frames(Stream \o x, n) /\ n + Busy + Len(requests) + Lost <= Limit
  BY DEF StreamInv, Whole
<1>0. PICK rest : /\ IsSeq(rest) /\ (peer = "open" => rest = <<>>)
                  /\ Frames(Stream \o rest, n) /\ n + Busy + Len(requests) + Lost <= Limit
  BY <1>1
<1>2. CASE ShardsBegin
  <2>1. /\ reader = Idle /\ peer = "open" /\ peer' = peer /\ wire' = wire /\ buf' = buf
        /\ UNCHANGED clientVars
        /\ requests # <<>> /\ requests' = Tail(requests)
    BY <1>2 DEF ShardsBegin
  <2>2. IsSeq(requests') /\ Len(requests') = Len(requests) - 1
    <3> DEFINE S == ToSet(requests)
    <3>1. requests \in Seq(S)
      BY DEF StreamInv, IsSeq
    <3> HIDE DEF S
    <3>2. requests' \in Seq(S) /\ Len(requests') = Len(requests) - 1
      BY <2>1, <3>1
    <3> QED
      BY <3>2, SeqIsSeq
  <2>3. PICK r, z : reader' = [rid |-> r, size |-> z, body |-> <<>>, freed |-> <<>>]
    BY <1>2 DEF ShardsBegin
  <2>4. reader' # Idle
    BY <2>3 DEF Idle
  <2>5. ReaderOK'
    BY <2>3, EmptyIsSeq DEF ReaderOK, IsSeq, ToSet
  <2>6. n + Busy' + Len(requests') + Lost' <= Limit'
    <3>1. Len(requests) \in Nat
      BY DEF StreamInv, IsSeq
    <3>2. Busy = 0 /\ Busy' = 1 /\ Lost = 0 /\ Lost' = 0 /\ Limit' = Limit
      BY <2>1, <2>4 DEF Busy, Lost, Limit
    <3>3. Limit \in Int
      BY DEF Limit
    <3> QED
      BY <1>0, <2>2, <3>1, <3>2, <3>3
  <2>7. Stream' = Stream
    BY <2>1 DEF Stream
  <2>8. Whole'
    BY <1>0, <2>1, <2>6, <2>7, WholeNext
  <2> QED
    BY <2>1, <2>2, <2>5, <2>8 DEF StreamInv, IsSeq, ToSet
<1>3. CASE ShardsRead
  <2>1. PICK e : reader # Idle /\ reader' = [reader EXCEPT !.body = Append(@, e)]
    BY <1>3 DEF ShardsRead
  <2>2. PICK r, z, b, f : reader = [rid |-> r, size |-> z, body |-> b, freed |-> f] /\ IsSeq(b)
    BY <2>1 DEF StreamInv, ReaderOK
  <2>3. PICK c : c = Append(b, e)
    OBVIOUS
  <2>4. IsSeq(c)
    BY <2>2, <2>3, AppendIsSeq
  <2>5. reader' = [rid |-> r, size |-> z, body |-> c, freed |-> f]
    BY <2>1, <2>2, <2>3
  <2>6. reader' # Idle
    BY <2>5 DEF Idle
  <2>7. ReaderOK'
    BY <2>4, <2>5 DEF ReaderOK, IsSeq, ToSet
  <2>8. UNCHANGED <<connVars, clientVars>>
    BY <1>3 DEF ShardsRead
  <2> QED
    BY <2>1, <2>6, <2>7, <2>8, QuietStep
<1>4. CASE ShardsReply
  <2>1. /\ reader # Idle /\ reader' = Idle
        /\ UNCHANGED <<peer, requests, clientVars>>
        /\ wire' = wire \o Frame(reader.rid, reader.body)
    BY <1>4 DEF ShardsReply
  <2>2. IsSeq(reader.body) /\ IsSeq(buf) /\ IsSeq(wire)
    BY <2>1 DEF StreamInv, ReaderOK
  <2>3. PICK f : f = Frame(reader.rid, reader.body)
    OBVIOUS
  <2>4. IsSeq(f) /\ OneFrame(f)
    BY <2>2, <2>3, FrameIsWhole
  <2>5. PICK b, w : b = buf /\ w = wire
    OBVIOUS
  <2>6. IsSeq(b) /\ IsSeq(w) /\ IsSeq(f)
    BY <2>2, <2>4, <2>5
  <2>7. /\ IsSeq(w \o f)
        /\ IsSeq(b \o w)
        /\ b \o (w \o f) = (b \o w) \o f
    <3>1. IsSeq(w \o f) /\ IsSeq(b \o w)
      BY <2>6, ConcatIsSeq
    <3> QED
      BY <2>6, <3>1, ConcatAssoc
  <2>8. Stream' = Stream \o f /\ IsSeq(Stream)
    BY <2>1, <2>3, <2>5, <2>7 DEF Stream
  <2>9. n \in 0..1 /\ n + 1 + Busy' + Len(requests') + Lost' <= Limit'
    <3>1. Len(requests) \in Nat
      BY DEF StreamInv, IsSeq
    <3>2. Busy = 1 /\ Busy' = 0 /\ Lost' = Lost /\ Lost \in 0..1 /\ Limit' = Limit /\ Limit \in 0..2
      BY <2>1 DEF Busy, Lost, Limit
    <3> QED
      BY <1>0, <2>1, <3>1, <3>2
  <2>10. PICK s : s = Stream
    OBVIOUS
  <2>11. Frames(s, n) /\ IsSeq(s)
    <3>1. rest = <<>>
      BY <1>0, <2>1 DEF StreamInv
    <3>2. IsSeq(s) /\ IsSeq(rest)
      BY <1>0, <2>8, <2>10
    <3>3. s \o rest = s
      BY <3>1, <3>2, ConcatIsSeq
    <3> QED
      BY <1>0, <2>10, <3>2, <3>3
  <2>12. Frames(s \o f, n + 1) /\ IsSeq(s \o f)
    BY <2>4, <2>9, <2>11, AddFrame, ConcatIsSeq
  <2>14. (s \o f) \o <<>> = s \o f
    <3>1. PICK u : u = s \o f
      OBVIOUS
    <3>2. IsSeq(u)
      BY <2>12, <3>1
    <3> QED
      BY <3>1, <3>2, EmptyIsSeq, ConcatIsSeq
  <2>15. Whole'
    <3>1. n + 1 \in 0..2
      BY <2>9
    <3> QED
      BY <2>8, <2>9, <2>10, <2>12, <2>14, <3>1, EmptyIsSeq, WholeNext
  <2>13. IsSeq(wire') /\ IsSeq(buf') /\ IsSeq(requests')
    BY <2>1, <2>3, <2>5, <2>7 DEF StreamInv
  <2> QED
    BY <2>1, <2>13, <2>15
       DEF StreamInv, ReaderOK, IsSeq, ToSet, Idle
<1> QED
  BY <1>2, <1>3, <1>4 DEF Worker

\* A crash may cut the stream: what is lost is the end of it.
LEMMA CutByCrash ==
  ASSUME StreamInv, MasterCrash, NEW rest, IsSeq(rest), peer = "open" => rest = <<>>
  PROVE  \E x : IsSeq(x) /\ IsSeq(wire') /\ Stream' \o x = Stream \o rest
<1>1. PICK d, w : d = buf /\ w = wire /\ IsSeq(d) /\ IsSeq(w)
  BY DEF StreamInv
<1>2. buf' = d
  BY <1>1 DEF MasterCrash, clientVars
<1>3. CASE peer # "open"
  <2>1. wire' = SubSeq(wire, 1, Len(wire))
    BY <1>3 DEF MasterCrash
  <2>2. wire' = wire
    BY <1>1, <2>1 DEF IsSeq
  <2>3. Stream' = Stream
    BY <1>1, <1>2, <2>2 DEF Stream
  <2> QED
    BY <1>1, <2>2, <2>3
<1>4. CASE peer = "open"
  <2>1. PICK k \in 0..Len(w) : wire' = SubSeq(w, 1, k)
    BY <1>1, <1>4 DEF MasterCrash
  <2>2. PICK y, z : y = SubSeq(w, 1, k) /\ z = SubSeq(w, k + 1, Len(w))
    OBVIOUS
  <2>3. IsSeq(z) /\ (d \o y) \o z = d \o w
    BY <1>1, <2>1, <2>2, MoveCells
  <2>4. IsSeq(y)
    <3>1. Len(w) \in Nat
      BY <1>1 DEF IsSeq
    <3>2. 1 \in 1..(Len(w) + 1) /\ k \in 0..Len(w) /\ 1 =< k + 1
      BY <3>1
    <3> QED
      BY <1>1, <2>2, <3>2, SubSeqIsSeq
  <2>5. Stream' \o z = Stream
    BY <1>1, <1>2, <2>1, <2>2, <2>3 DEF Stream
  <2>6. Stream \o rest = Stream
    <3>1. PICK v : v = d \o w
      OBVIOUS
    <3>2. IsSeq(v)
      BY <1>1, <3>1, ConcatIsSeq
    <3>3. v \o rest = v
      BY <1>4, <3>2, ConcatIsSeq
    <3> QED
      BY <1>1, <3>1, <3>3 DEF Stream
  <2> QED
    BY <2>1, <2>2, <2>3, <2>4, <2>5, <2>6
<1> QED
  BY <1>3, <1>4

\* A crash loses the requests, the reply the worker had not sent, and the end of
\* what it had sent.
LEMMA CrashStep ==
  ASSUME StreamInv, MasterCrash PROVE StreamInv'
<1> USE DEF connVars, clientVars
<1>1. PICK n \in 0..2 :
         \E x : /\ IsSeq(x) /\ (peer = "open" => x = <<>>)
               /\ Frames(Stream \o x, n) /\ n + Busy + Len(requests) + Lost <= Limit
  BY DEF StreamInv, Whole
<1>0. PICK rest : /\ IsSeq(rest) /\ (peer = "open" => rest = <<>>)
                  /\ Frames(Stream \o rest, n) /\ n + Busy + Len(requests) + Lost <= Limit
  BY <1>1
<1>2. /\ reader' = Idle /\ requests' = <<>> /\ UNCHANGED clientVars
      /\ peer' # "open"
      /\ peer' = IF peer # "open" THEN peer
                 ELSE IF requests = <<>> THEN "fin" ELSE "rst"
  BY DEF MasterCrash
<1>3. PICK x : IsSeq(x) /\ IsSeq(wire') /\ Stream' \o x = Stream \o rest
  BY <1>0, CutByCrash
<1>4. IsSeq(x) /\ IsSeq(wire') /\ Frames(Stream' \o x, n)
  BY <1>0, <1>3
<1>5. PICK b \in 0..1, q \in Nat, l \in 0..1, m \in 0..1, z \in 0..2 :
          /\ Busy = b /\ Len(requests) = q /\ Lost = l /\ Lost' = m /\ Limit = z
  BY DEF StreamInv, IsSeq, Busy, Lost, Limit
<1>6. n + Busy' + Len(requests') + Lost' <= Limit'
  <2>1. m <= q + l
    <3>1. requests # <<>> => q >= 1
      BY <1>5 DEF StreamInv, IsSeq
    <3> QED
      BY <1>2, <1>5, <3>1 DEF Lost
  <2>2. n + m <= z
    BY <1>0, <1>5, <2>1
  <2>3. Busy' = 0 /\ Len(requests') = 0 /\ Limit' = z
    BY <1>2, <1>5 DEF Busy, Limit
  <2> QED
    BY <1>5, <2>2, <2>3
<1>7. Whole'
  BY <1>2, <1>4, <1>6, WholeNext
<1>8. IsSeq(wire') /\ IsSeq(buf') /\ IsSeq(requests')
  BY <1>2, <1>4, EmptyIsSeq DEF StreamInv, clientVars
<1>9. /\ peer' # "open" => requests' = <<>> /\ reader' = Idle
      /\ fd' = "none" => cpc' \in {"prompt", "connect"} /\ buf' = <<>>
      /\ fd' = "failed" => peer' = "dead"
      /\ cpc' \in {"prompt", "connect", "send", "recv", "killed"}
      /\ attempt' \in {1, 2}
  BY <1>2 DEF StreamInv
<1> QED
  BY <1>2, <1>7, <1>8, <1>9
     DEF StreamInv, ReaderOK, IsSeq, ToSet, Idle


\* Steps of the client that do not touch the stream.
LEMMA CommandStep ==
  ASSUME StreamInv, Command \/ Send \/ SendKills PROVE StreamInv'
<1> USE DEF masterVars, connVars, clientVars
<1>1. PICK n \in 0..2 :
         \E x : /\ IsSeq(x) /\ (peer = "open" => x = <<>>)
               /\ Frames(Stream \o x, n) /\ n + Busy + Len(requests) + Lost <= Limit
  BY DEF StreamInv, Whole
<1>0. PICK rest : /\ IsSeq(rest) /\ (peer = "open" => rest = <<>>)
                  /\ Frames(Stream \o rest, n) /\ n + Busy + Len(requests) + Lost <= Limit
  BY <1>1
<1>2. PICK b \in 0..1, q \in Nat, l \in 0..1, z \in 0..2 :
          /\ Busy = b /\ Len(requests) = q /\ Lost = l /\ Limit = z
  BY DEF StreamInv, IsSeq, Busy, Lost, Limit
<1>3. n + b + q + l <= z
  BY <1>0, <1>2
<1>4. /\ buf' = buf /\ wire' = wire /\ reader' = reader /\ fd' = fd
      /\ Stream' = Stream /\ Busy' = b
  BY <1>2 DEF Command, Send, SendKills, Stream, Busy
<1>5. CASE Command
  <2>1. /\ cpc = "prompt" /\ requests' = requests /\ peer' = peer
        /\ attempt' = 1 /\ cpc' = IF fd = "none" THEN "connect" ELSE "send"
    BY <1>5 DEF Command
  <2>2. z = 1 /\ Limit' >= 1 /\ Limit' \in 0..2 /\ Lost' = l /\ Len(requests') = q
    BY <1>2, <2>1 DEF Limit, Lost
  <2>3. n + Busy' + Len(requests') + Lost' <= Limit'
    BY <1>3, <1>4, <2>2
  <2>4. Whole'
    BY <1>0, <1>4, <2>1, <2>3, WholeNext
  <2>5. /\ peer' # "open" => requests' = <<>> /\ reader' = Idle
        /\ fd' = "none" => cpc' \in {"prompt", "connect"} /\ buf' = <<>>
        /\ fd' = "failed" => peer' = "dead"
        /\ cpc' \in {"prompt", "connect", "send", "recv", "killed"}
        /\ attempt' \in {1, 2}
    BY <1>4, <2>1 DEF StreamInv
  <2> QED
    BY <1>4, <2>1, <2>4, <2>5
       DEF StreamInv, ReaderOK, IsSeq, ToSet, Idle
<1>6. CASE Send
  <2>1. /\ cpc = "send" /\ fd = "conn" /\ peer \in {"open", "fin"} /\ attempt' = attempt
        /\ requests' = IF peer = "open" THEN Append(requests, rid) ELSE requests
        /\ peer' = (IF peer = "fin" THEN "rst" ELSE peer) /\ cpc' = "recv"
    BY <1>6 DEF Send
  <2>2. attempt \in {1, 2} /\ IsSeq(requests)
    BY DEF StreamInv
  <2>3. Limit' = z + 1
    BY <1>2, <2>1, <2>2 DEF Limit
  <2>4. IsSeq(requests') /\ Len(requests') + Lost' = q + l + 1
    <3>1. CASE peer = "open"
      <4>1. IsSeq(Append(requests, rid)) /\ Len(Append(requests, rid)) = Len(requests) + 1
        BY <2>2, AppendIsSeq
      <4>2. Lost' = 0 /\ l = 0
        BY <1>2, <2>1, <3>1 DEF Lost
      <4> QED
        BY <1>2, <2>1, <3>1, <4>1, <4>2
    <3>2. CASE peer = "fin"
      <4>1. Lost' = 1 /\ l = 0 /\ requests' = requests
        BY <1>2, <2>1, <3>2 DEF Lost
      <4> QED
        BY <1>2, <2>2, <4>1
    <3> QED
      BY <2>1, <3>1, <3>2
  <2>5. n + Busy' + Len(requests') + Lost' <= Limit'
    <3>1. PICK k \in Nat, m \in 0..1 : Len(requests') = k /\ Lost' = m
      BY <2>4 DEF IsSeq, Lost
    <3>2. k + m = q + l + 1
      BY <2>4, <3>1
    <3>3. n + b + k + m <= z + 1
      BY <1>3, <3>2
    <3> QED
      BY <1>4, <2>3, <3>1, <3>3
  <2>6. Whole'
    BY <1>0, <1>4, <2>1, <2>5, WholeNext
  <2>7. /\ peer' # "open" => requests' = <<>> /\ reader' = Idle
        /\ fd' = "none" => cpc' \in {"prompt", "connect"} /\ buf' = <<>>
        /\ fd' = "failed" => peer' = "dead"
        /\ cpc' \in {"prompt", "connect", "send", "recv", "killed"}
        /\ attempt' \in {1, 2}
    BY <1>4, <2>1 DEF StreamInv
  <2> QED
    BY <1>4, <2>4, <2>6, <2>7
       DEF StreamInv, ReaderOK, IsSeq, ToSet, Idle
<1>7. CASE SendKills
  <2>1. /\ cpc = "send" /\ cpc' = "killed" /\ attempt' = attempt
        /\ requests' = requests /\ peer' = peer
        /\ fd = "failed" \/ peer = "dead"
    BY <1>7 DEF SendKills
  <2>2. z <= 1 /\ Limit' = 1 /\ Lost' = l /\ Len(requests') = q
    BY <1>2, <2>1 DEF Limit, Lost
  <2>3. n + Busy' + Len(requests') + Lost' <= Limit'
    BY <1>3, <1>4, <2>2
  <2>4. Whole'
    BY <1>0, <1>4, <2>1, <2>3, WholeNext
  <2>5. /\ peer' # "open" => requests' = <<>> /\ reader' = Idle
        /\ fd' = "none" => cpc' \in {"prompt", "connect"} /\ buf' = <<>>
        /\ fd' = "failed" => peer' = "dead"
        /\ cpc' \in {"prompt", "connect", "send", "recv", "killed"}
        /\ attempt' \in {1, 2}
    BY <1>4, <2>1 DEF StreamInv
  <2> QED
    BY <1>4, <2>1, <2>4, <2>5
       DEF StreamInv, ReaderOK, IsSeq, ToSet, Idle
<1> QED
  BY <1>5, <1>6, <1>7

\* A new connection carries nothing, and finds the buffer empty or torn.
LEMMA ConnectStep ==
  ASSUME StreamInv, Connect, ~torn' PROVE StreamInv'
<1>1. /\ cpc = "connect" /\ buf' = buf /\ attempt' = attempt
      /\ requests' = <<>> /\ wire' = <<>> /\ reader' = Idle
      /\ \/ fd' = "conn" /\ peer' = "open" /\ cpc' = "send"
         \/ fd' = "failed" /\ peer' = "dead" /\ cpc' = "prompt"
  BY DEF Connect
<1>2. buf' = <<>> /\ attempt' \in {1, 2}
  BY <1>1 DEF StreamInv, Connect
<1>3. Stream' \o <<>> = <<>>
  BY <1>1, <1>2, EmptyIsSeq, ConcatIsSeq DEF Stream
<1>4. Frames(Stream' \o <<>>, 0) /\ 0 + Busy' + Len(requests') + Lost' <= Limit'
  BY <1>1, <1>2, <1>3 DEF Frames, Busy, Lost, Limit
<1>5. IsSeq(buf') /\ IsSeq(wire') /\ IsSeq(requests')
  BY <1>1, <1>2, EmptyIsSeq
<1>6. Whole'
  <2>1. PICK e : e = <<>>
    OBVIOUS
  <2>2. /\ IsSeq(e) /\ Frames(Stream' \o e, 0) /\ 0 \in 0..2
        /\ 0 + Busy' + Len(requests') + Lost' <= Limit'
    BY <1>4, <2>1, EmptyIsSeq
  <2> QED
    BY <2>1, <2>2, WholeNext
<1> QED
  BY <1>1, <1>2, <1>5, <1>6 DEF StreamInv, ReaderOK, IsSeq, ToSet, Idle


\* A failed SendAndRecv leaves the stream as it is.
LEMMA FailStep ==
  ASSUME StreamInv, SendFails \/ RecvFails \/ RecvTimeout PROVE StreamInv'
<1> USE DEF masterVars, connVars, clientVars
<1>1. PICK n \in 0..2 :
         \E x : /\ IsSeq(x) /\ (peer = "open" => x = <<>>)
               /\ Frames(Stream \o x, n) /\ n + Busy + Len(requests) + Lost <= Limit
  BY DEF StreamInv, Whole
<1>0. PICK rest : /\ IsSeq(rest) /\ (peer = "open" => rest = <<>>)
                  /\ Frames(Stream \o rest, n) /\ n + Busy + Len(requests) + Lost <= Limit
  BY <1>1
<1>2. PICK b \in 0..1, q \in Nat, l \in 0..1, z \in 0..2 :
          /\ Busy = b /\ Len(requests) = q /\ Lost = l /\ Limit = z
  BY DEF StreamInv, IsSeq, Busy, Lost, Limit
<1>3. n + b + q + l <= z
  BY <1>0, <1>2
<1>4. /\ buf' = buf /\ wire' = wire /\ reader' = reader /\ fd' = fd /\ requests' = requests
      /\ peer' = peer \/ (peer = "rst" /\ peer' = "dead")
      /\ cpc \in {"send", "recv"} /\ attempt \in {1, 2}
      /\ \/ attempt = 1 /\ cpc' = "connect" /\ attempt' = 2
         \/ attempt = 2 /\ cpc' = "prompt" /\ attempt' = 2
  BY DEF SendFails, RecvFails, RecvTimeout, SendAndRecvFails, StreamInv
<1>5. Stream' = Stream /\ Busy' = b /\ Len(requests') = q
  BY <1>2, <1>4 DEF Stream, Busy
<1>7. n + Busy' + Len(requests') + Lost' <= Limit'
  <2>1. PICK m \in 0..1, y \in 1..2 : Lost' = m /\ m <= l /\ Limit' = y /\ z <= y
    BY <1>2, <1>4 DEF Lost, Limit
  <2>2. n + b + q + m <= y
    BY <1>3, <2>1
  <2> QED
    BY <1>5, <2>1, <2>2
<1>8. Whole'
  BY <1>0, <1>4, <1>5, <1>7, WholeNext
<1>9. /\ peer' # "open" => requests' = <<>> /\ reader' = Idle
      /\ fd' = "none" => cpc' \in {"prompt", "connect"} /\ buf' = <<>>
      /\ fd' = "failed" => peer' = "dead"
      /\ cpc' \in {"prompt", "connect", "send", "recv", "killed"}
      /\ attempt' \in {1, 2}
  BY <1>4 DEF StreamInv
<1> QED
  BY <1>4, <1>8, <1>9
     DEF StreamInv, ReaderOK, IsSeq, ToSet, Idle

\* recv, with any number of bytes.
LEMMA RecvStep ==
  ASSUME StreamInv, Recv PROVE StreamInv'
<1> USE DEF masterVars, connVars, clientVars
<1>1. PICK n \in 0..2 :
         \E x : /\ IsSeq(x) /\ (peer = "open" => x = <<>>)
               /\ Frames(Stream \o x, n) /\ n + Busy + Len(requests) + Lost <= Limit
  BY DEF StreamInv, Whole
<1>0. PICK rest : /\ IsSeq(rest) /\ (peer = "open" => rest = <<>>)
                  /\ Frames(Stream \o rest, n) /\ n + Busy + Len(requests) + Lost <= Limit
  BY <1>1
<1>2. PICK b, w : b = buf /\ w = wire
  OBVIOUS
<1>3. IsSeq(b) /\ IsSeq(w)
  BY <1>2 DEF StreamInv
<1>4. PICK k \in 1..Len(w) : buf' = b \o SubSeq(w, 1, k) /\ wire' = SubSeq(w, k + 1, Len(w))
  <2>1. DOMAIN w = 1..Len(w)
    BY <1>3 DEF IsSeq
  <2> QED
    BY <1>2, <2>1 DEF Recv
<1>5. cpc = "recv" /\ UNCHANGED <<reader, peer, requests, cpc, attempt, fd>>
  BY DEF Recv
<1>6. /\ IsSeq(b \o SubSeq(w, 1, k)) /\ IsSeq(SubSeq(w, k + 1, Len(w)))
      /\ (b \o SubSeq(w, 1, k)) \o SubSeq(w, k + 1, Len(w)) = b \o w
  <2>1. k \in 0..Len(w)
    OBVIOUS
  <2> QED
    BY <1>3, <2>1, MoveCells
<1>7. IsSeq(buf') /\ IsSeq(wire') /\ Stream' = Stream
  BY <1>2, <1>4, <1>6 DEF Stream
<1>8. Busy' = Busy /\ Lost' = Lost /\ Limit' = Limit
  BY <1>5 DEF Busy, Lost, Limit
<1>9. Whole'
  BY <1>0, <1>5, <1>7, <1>8, WholeNext
<1>10. fd # "none"
  BY <1>5 DEF StreamInv
<1> QED
  BY <1>5, <1>7, <1>9, <1>10
     DEF StreamInv, ReaderOK, IsSeq, ToSet, Idle

\* The stream with what was cut off it: the buffer, and what is or was under way.
LEMMA UnderWay ==
  ASSUME StreamInv, NEW x, IsSeq(x)
  PROVE  /\ IsSeq(buf) /\ IsSeq(wire \o x)
         /\ Stream \o x = buf \o (wire \o x)
<1>1. PICK d, w : d = buf /\ w = wire /\ IsSeq(d) /\ IsSeq(w)
  BY DEF StreamInv
<1>2. IsSeq(w \o x)
  BY <1>1, ConcatIsSeq
<1>3. d \o (w \o x) = (d \o w) \o x
  BY <1>1, ConcatAssoc
<1> QED
  BY <1>1, <1>2, <1>3 DEF Stream

\* Taking the reply cuts one whole frame off the stream.
LEMMA TakeStep ==
  ASSUME StreamInv, TakeReply PROVE StreamInv'
<1> USE DEF masterVars, connVars, clientVars
<1>1. PICK n \in 0..2 :
         \E x : /\ IsSeq(x) /\ (peer = "open" => x = <<>>)
               /\ Frames(Stream \o x, n) /\ n + Busy + Len(requests) + Lost <= Limit
  BY DEF StreamInv, Whole
<1>0. PICK rest : /\ IsSeq(rest) /\ (peer = "open" => rest = <<>>)
                  /\ Frames(Stream \o rest, n) /\ n + Busy + Len(requests) + Lost <= Limit
  BY <1>1
<1>2. PICK b \in 0..1, q \in Nat, l \in 0..1, z \in 0..2 :
          /\ Busy = b /\ Len(requests) = q /\ Lost = l /\ Limit = z
  BY DEF StreamInv, IsSeq, Busy, Lost, Limit
<1>3. n + b + q + l <= z
  BY <1>0, <1>2
<1>4. /\ cpc = "recv" /\ FrameComplete /\ cpc' = "prompt"
      /\ UNCHANGED <<reader, peer, requests, wire, attempt, fd>>
      /\ buf' = TakenFrom(buf[1].size + 1)
  BY Zenon DEF TakeReply
<1>5. PICK d, w, s : d = buf /\ w = wire \o rest /\ s = d \o w
  OBVIOUS
<1>6. IsSeq(d) /\ IsSeq(w) /\ Frames(s, n)
  BY <1>0, <1>5, UnderWay
<1>7. /\ IsSeq(d \o w)
      /\ Len(d) \in Nat /\ Len(w) \in Nat
      /\ Len(d \o w) = Len(d) + Len(w)
      /\ \A i \in 1..Len(d) : (d \o w)[i] = d[i]
  BY <1>6, ConcatIsSeq
<1>8. Len(d) >= 1 /\ Len(d) > d[1].size
  <2>1. d # <<>> /\ Len(d) > d[1].size
    BY <1>4, <1>5 DEF FrameComplete
  <2> QED
    BY <1>6, <2>1 DEF IsSeq
<1>9. s[1] = d[1] /\ Len(s) > 0 /\ IsSeq(s)
  BY <1>5, <1>7, <1>8
<1>10. /\ n >= 1 /\ HeaderAt(s, 1)
       /\ Frames(SubSeq(s, s[1].size + 2, Len(s)), n - 1)
  <2>1. s # <<>>
    BY <1>9
  <2> QED
    BY <1>6, <1>9, <2>1, TakeFrame
<1>11. PICK k \in Nat : d[1].size = k /\ s[1].size = k
  BY <1>9, <1>10 DEF HeaderAt
<1>12. /\ IsSeq(SubSeq(d, k + 2, Len(d)))
       /\ SubSeq(d, k + 2, Len(d)) \o w = SubSeq(s, k + 2, Len(s))
  <2>1. k + 2 \in 1..(Len(d) + 1)
    BY <1>7, <1>8, <1>11
  <2> QED
    BY <1>5, <1>6, <2>1, CutStream
<1>13. buf' = SubSeq(d, k + 2, Len(d))
  <2>1. buf' = SubSeq(d, (k + 1) + 1, Len(d))
    BY <1>4, <1>5, <1>11 DEF TakenFrom
  <2> QED
    BY <2>1
<1>14. IsSeq(buf') /\ IsSeq(wire') /\ Frames(Stream' \o rest, n - 1)
  <2>1. IsSeq(buf') /\ IsSeq(wire') /\ wire' = wire /\ IsSeq(rest)
    BY <1>0, <1>4, <1>12, <1>13 DEF StreamInv
  <2>2. PICK e, v : e = buf' /\ v = wire
    OBVIOUS
  <2>3. IsSeq(e) /\ IsSeq(v) /\ IsSeq(rest)
    BY <2>1, <2>2
  <2>4. e \o (v \o rest) = (e \o v) \o rest
    BY <2>3, ConcatAssoc
  <2>5. Stream' \o rest = buf' \o w
    BY <1>5, <2>1, <2>2, <2>4 DEF Stream
  <2> QED
    BY <1>10, <1>11, <1>12, <1>13, <2>1, <2>5
<1>15. n - 1 \in 0..2 /\ (n - 1) + Busy' + Len(requests') + Lost' <= Limit'
  <2>1. Busy' = b /\ Len(requests') = q /\ Lost' = l /\ Limit' = 1
    BY <1>2, <1>4 DEF Busy, Lost, Limit
  <2>2. (n - 1) + b + q + l <= 1
    BY <1>3
  <2> QED
    BY <1>10, <2>1, <2>2
<1>16. Whole'
  BY <1>0, <1>4, <1>14, <1>15, WholeNext
<1>17. fd # "none"
  BY <1>4 DEF StreamInv
<1> QED
  BY <1>4, <1>14, <1>16, <1>17
     DEF StreamInv, ReaderOK, IsSeq, ToSet, Idle

\* Every step keeps the invariant, or closes a connection inside a frame.
LEMMA StreamInvNext ==
  ASSUME StreamInv, [FetchNext]_fetchVars PROVE torn' \/ StreamInv'
<1>1. CASE UNCHANGED fetchVars
  <2>1. UNCHANGED <<connVars, clientVars>> /\ reader' = reader
    BY <1>1 DEF fetchVars, masterVars
  <2>2. ReaderOK'
    BY <2>1 DEF StreamInv, ReaderOK, IsSeq, ToSet, Idle
  <2> QED
    BY <2>1, <2>2, QuietStep
<1> QED
  BY <1>1, CommandStep, ConnectStep, FailStep, RecvStep, TakeStep, WorkerStep, BalancerStep, CrashStep
     DEF FetchNext, FetchRouteTable

\* What is torn stays torn.
LEMMA TornStays ==
  ASSUME torn, [FetchNext]_fetchVars PROVE torn'
  BY DEF FetchNext, FetchRouteTable, Worker, Balancer, Command, Connect, Send, SendFails,
         SendKills, Recv, RecvFails, RecvTimeout, TakeReply, ShardsBegin, ShardsRead,
         ShardsReply, SplitLeft, SplitInsert, FlipRoute, MasterCrash, MasterRestart, fetchVars

\* The front of the buffer is the front of the stream.
LEMMA StreamAligned == StreamInv => BufferAligned
<1> SUFFICES ASSUME StreamInv PROVE BufferAligned
  OBVIOUS
<1>1. PICK n \in 0..2 : \E x : IsSeq(x) /\ Frames(Stream \o x, n)
  BY DEF StreamInv, Whole
<1>2. PICK rest : IsSeq(rest) /\ Frames(Stream \o rest, n)
  BY <1>1
<1>3. PICK d, w, s : d = buf /\ w = wire \o rest /\ s = d \o w
  OBVIOUS
<1>4. IsSeq(d) /\ IsSeq(w) /\ Frames(s, n)
  BY <1>2, <1>3, UnderWay
<1>5. /\ IsSeq(d \o w)
      /\ Len(d) \in Nat /\ Len(w) \in Nat
      /\ Len(d \o w) = Len(d) + Len(w)
      /\ \A i \in 1..Len(d) : (d \o w)[i] = d[i]
  BY <1>4, ConcatIsSeq
<1>6. CASE d # <<>>
  <2>1. Len(d) >= 1
    BY <1>4, <1>6 DEF IsSeq
  <2>2. s[1] = d[1] /\ Len(s) > 0 /\ IsSeq(s)
    BY <1>3, <1>5, <2>1
  <2>3. s # <<>>
    BY <2>2
  <2>4. HeaderAt(s, 1)
    BY <1>4, <2>2, <2>3, TakeFrame
  <2> QED
    BY <1>3, <2>2, <2>4 DEF BufferAligned, HeaderAt
<1> QED
  BY <1>3, <1>6 DEF BufferAligned

\* The boundary between frames is lost in one way only, a connection closed in
\* the middle of a frame: until then RecvFrame finds a frame header at the front
\* of buf_ whenever it is not empty, for timeouts and ends of the stream at any
\* byte, late replies, crashes of the Master that cut replies, retries and
\* reconnects, every table, every interleaving with the balancer and any number
\* of commands.
THEOREM BufferAlignedAlways == FetchSpec => []BufferAligned
<1>1. torn \/ StreamInv => BufferAligned
  BY StreamAligned DEF BufferAligned
<1>2. (torn \/ StreamInv) /\ [FetchNext]_fetchVars => (torn \/ StreamInv)'
  BY StreamInvNext, TornStays
<1> QED
  BY <1>1, <1>2, StreamInvInit, PTL DEF FetchSpec


-----------------------------------------------------------------------------
(* The tables of the Master.                                               *)

\* Every tablet's node is among the owners o[k] of its keys.
FreshTable(ts, o) ==
    \A i \in DOMAIN ts : \A k \in Key :
        InRange(k, ts[i].start_key, ts[i].end_key) => ts[i].node_id \in o[k]

\* Between the two steps of a split the saved table is the one before it.
Splitting ==
    \E i \in DOMAIN saved, median \in Key :
        LET split == SplitTablet(saved, i, saved[i], median, 2 * Len(saved) - 1)
        IN  /\ CanSplitAt(saved[i], median)
            /\ tablets = [saved EXCEPT ![i] = split[i]]
            /\ half = [at |-> i + 1, tablet |-> split[i + 1]]

TablesInv ==
    /\ saved \in Seq(Tablet) /\ IsPartition(saved)
    /\ (half = NoHalf /\ tablets = saved) \/ Splitting
    /\ rid \in Nat
    /\ rid > 0 => FreshTable(saved, owners)

\* The halves of a tablet are on its node.
LEMMA SplitFresh ==
  ASSUME NEW ts \in Seq(Tablet), NEW i \in DOMAIN ts, NEW median \in Key, NEW id, NEW o,
         CanSplitAt(ts[i], median), FreshTable(ts, o)
  PROVE  FreshTable(SplitTablet(ts, i, ts[i], median, id), o)
<1> DEFINE us == SplitTablet(ts, i, ts[i], median, id)
           left == [ts[i] EXCEPT !.id = id, !.end_key = median,
                                 !.key_count = LeftCount(ts[i].key_count)]
           right == [ts[i] EXCEPT !.id = id + 1, !.start_key = median,
                                  !.key_count = RightCount(ts[i].key_count)]
<1>1. /\ Len(ts) \in Nat /\ DOMAIN ts = 1..Len(ts)
      /\ ts[i].start_key \in Nat /\ ts[i].end_key \in Nat /\ median \in Nat
      /\ ts[i] \in Tablet
  BY TabletFields, MaxKeyAssumption DEF Key
<1>2. /\ left.start_key = ts[i].start_key /\ left.end_key = median /\ left.node_id = ts[i].node_id
      /\ right.start_key = median /\ right.end_key = ts[i].end_key
      /\ right.node_id = ts[i].node_id
  BY <1>1 DEF Tablet
<1> HIDE DEF left, right
<1>3. /\ DOMAIN us = 1..(Len(ts) + 1)
      /\ \A j \in 1..(Len(ts) + 1) :
            us[j] = IF j < i THEN ts[j]
                    ELSE IF j = i THEN left
                    ELSE IF j = i + 1 THEN right
                    ELSE ts[j - 1]
  BY DEF SplitTablet, left, right
<1> HIDE DEF us
<1>4. ASSUME NEW j \in DOMAIN us, NEW k \in Key, InRange(k, us[j].start_key, us[j].end_key)
      PROVE  us[j].node_id \in o[k]
  <2>0. k \in Nat
    BY MaxKeyAssumption DEF Key
  <2>1. CASE j < i
    <3>1. us[j] = ts[j] /\ j \in DOMAIN ts
      BY <1>1, <1>3, <2>1
    <3> QED
      BY <1>4, <3>1 DEF FreshTable
  <2>2. CASE j > i + 1
    <3>1. j \in 1..(Len(ts) + 1) /\ i \in 1..Len(ts) /\ ~(j < i) /\ j # i /\ j # i + 1
      BY <1>1, <1>3, <2>2
    <3>2. us[j] = ts[j - 1]
      BY <1>3, <3>1, Zenon
    <3>3. j - 1 \in DOMAIN ts
      BY <1>1, <3>1
    <3> QED
      BY <1>4, <3>2, <3>3 DEF FreshTable
  <2>3. CASE j = i
    <3>1. us[j] = left
      BY <1>1, <1>3, <2>3
    <3>2. InRange(k, ts[i].start_key, ts[i].end_key)
      BY <1>1, <1>2, <1>4, <2>0, <3>1 DEF InRange, CanSplitAt, Empty
    <3> QED
      BY <1>2, <3>1, <3>2 DEF FreshTable
  <2>4. CASE j = i + 1
    <3>1. us[j] = right
      BY <1>1, <1>3, <2>4
    <3>2. InRange(k, ts[i].start_key, ts[i].end_key)
      BY <1>1, <1>2, <1>4, <2>0, <3>1 DEF InRange, CanSplitAt, Empty
    <3> QED
      BY <1>2, <3>1, <3>2 DEF FreshTable
  <2> QED
    BY <1>1, <1>3, <2>1, <2>2, <2>3, <2>4
<1> QED
  BY <1>4 DEF FreshTable, us

\* tablets_[idx] = left and tablets_.insert of right make the split table.
LEMMA InsertHalf ==
  ASSUME NEW ts \in Seq(Tablet), NEW i \in DOMAIN ts, NEW us, IsSeq(us), Len(us) = Len(ts) + 1,
         \A j \in DOMAIN ts : (j < i => us[j] = ts[j]) /\ (j > i => us[j + 1] = ts[j])
  PROVE  InsertAt([ts EXCEPT ![i] = us[i]], i + 1, us[i + 1]) = us
<1> DEFINE vs == [ts EXCEPT ![i] = us[i]]  n == Len(ts)  e == us[i + 1]
           a == SubSeq(vs, 1, i)  c == SubSeq(vs, i + 1, n)
<1>1. n \in Nat /\ DOMAIN ts = 1..n /\ i \in 1..n
  OBVIOUS
<1>2. vs \in Seq(Tablet \cup {us[i]}) /\ Len(vs) = n
      /\ vs[i] = us[i] /\ \A j \in 1..n : j # i => vs[j] = ts[j]
  BY <1>1
<1>3. IsSeq(vs)
  BY <1>2, SeqIsSeq
<1> HIDE DEF vs
<1>4. IsSeq(a) /\ Len(a) = i /\ \A j \in 1..i : a[j] = vs[j]
  <2>1. 1 \in 1..(Len(vs) + 1) /\ i \in 0..Len(vs) /\ 1 =< i + 1 /\ i - 1 + 1 = i
    BY <1>1, <1>2
  <2>2. IsSeq(a) /\ Len(a) = i - 1 + 1 /\ \A j \in 1..(i - 1 + 1) : a[j] = vs[1 + j - 1]
    BY <1>3, <2>1, SubSeqIsSeq
  <2> QED
    BY <1>1, <2>2
<1>5. IsSeq(c) /\ Len(c) = n - i /\ \A j \in 1..(n - i) : c[j] = vs[i + j]
  <2>1. i + 1 \in 1..(Len(vs) + 1) /\ n \in 0..Len(vs) /\ i + 1 =< n + 1
    BY <1>1, <1>2
  <2>2. IsSeq(c) /\ Len(c) = n - (i + 1) + 1
        /\ \A j \in 1..(n - (i + 1) + 1) : c[j] = vs[(i + 1) + j - 1]
    BY <1>3, <2>1, SubSeqIsSeq
  <2> QED
    BY <1>1, <2>2
<1>6. InsertAt(vs, i + 1, e) = (a \o <<e>>) \o c
  <2>1. InsertAt(vs, i + 1, e) = (SubSeq(vs, 1, (i + 1) - 1) \o <<e>>) \o SubSeq(vs, i + 1, Len(vs))
    BY DEF InsertAt
  <2>2. (i + 1) - 1 = i
    BY <1>1
  <2> QED
    BY <1>2, <2>1, <2>2
<1> HIDE DEF a, c, e, n
<1>7. PICK d : d = a \o <<e>>
  OBVIOUS
<1>8. IsSeq(d) /\ Len(d) = i + 1 /\ (\A j \in 1..i : d[j] = a[j]) /\ d[i + 1] = e
  <2>0. PICK f : f = <<e>>
    OBVIOUS
  <2>1. f = <<e>> /\ IsSeq(f) /\ Len(f) = 1 /\ f[1] = e
    <3>1. f \in Seq({e})
      BY <2>0
    <3>2. IsSeq(f)
      BY <3>1, SeqIsSeq
    <3> QED
      BY <2>0, <3>2
  <2>2. IsSeq(a) /\ IsSeq(f)
    BY <1>4, <2>1
  <2>3. /\ IsSeq(a \o f) /\ Len(a \o f) = Len(a) + Len(f)
        /\ \A j \in 1..Len(a) : (a \o f)[j] = a[j]
        /\ \A j \in 1..Len(f) : (a \o f)[Len(a) + j] = f[j]
    BY <2>2, ConcatIsSeq
  <2>4. IsSeq(d) /\ Len(d) = i + 1 /\ (\A j \in 1..i : d[j] = a[j])
    BY <1>4, <1>7, <2>1, <2>3
  <2>5. d[i + 1] = e
    <3>1. 1 \in 1..Len(f)
      BY <2>1
    <3> QED
      BY <1>4, <1>7, <2>1, <2>3, <3>1
  <2> QED
    BY <2>4, <2>5
<1>9. PICK w : w = d \o c
  OBVIOUS
<1>10. /\ IsSeq(w) /\ Len(w) = n + 1
       /\ \A j \in 1..(i + 1) : w[j] = d[j]
       /\ \A j \in 1..(n - i) : w[i + 1 + j] = c[j]
  <2>1. IsSeq(d) /\ IsSeq(c)
    BY <1>5, <1>8
  <2>2. /\ IsSeq(d \o c) /\ Len(d \o c) = Len(d) + Len(c)
        /\ \A j \in 1..Len(d) : (d \o c)[j] = d[j]
        /\ \A j \in 1..Len(c) : (d \o c)[Len(d) + j] = c[j]
    BY <2>1, ConcatIsSeq
  <2> QED
    BY <1>1, <1>5, <1>8, <1>9, <2>2
<1>11. ASSUME NEW j \in 1..Len(w) PROVE w[j] = us[j]
  <2>1. CASE j <= i
    <3>1. w[j] = vs[j]
      BY <1>1, <1>4, <1>8, <1>10, <2>1
    <3>2. j \in 1..n
      BY <1>1, <1>10, <2>1
    <3> QED
      BY <1>1, <1>2, <2>1, <3>1, <3>2
  <2>2. CASE j = i + 1
    BY <1>1, <1>8, <1>10, <2>2 DEF e
  <2>3. ASSUME NEW m \in 1..(n - i), j = i + 1 + m PROVE w[j] = us[j]
    <3>1. w[j] = vs[i + m] /\ i + m \in 1..n /\ i + m > i /\ j = (i + m) + 1
      BY <1>1, <1>5, <1>10, <2>3
    <3> QED
      BY <1>1, <1>2, <3>1
  <2>4. j <= i \/ j = i + 1 \/ (j - i - 1 \in 1..(n - i) /\ j = i + 1 + (j - i - 1))
    BY <1>1, <1>10
  <2> QED
    BY <2>1, <2>2, <2>3, <2>4
<1>12. w = us
  <2>1. Len(w) = Len(us)
    BY <1>10 DEF n
  <2> QED
    BY <1>10, <1>11, <2>1, SameCells
<1> QED
  BY <1>6, <1>7, <1>9, <1>12 DEF vs, e

\* At first.
LEMMA TablesInvInit == FetchInit => TablesInv
  BY InitialTable DEF FetchInit, TablesInv

\* Steps that change no table and begin no command.
LEMMA TablesQuiet ==
  ASSUME TablesInv, UNCHANGED <<tablets, half, saved, rid, owners>> PROVE TablesInv'
  BY DEF TablesInv, Splitting, FreshTable, NoHalf

\* No half is left over unless a split is under way.
LEMMA NoHalfSaved ==
  ASSUME TablesInv, half = NoHalf PROVE tablets = saved
<1>1. ASSUME Splitting PROVE FALSE
  <2>1. PICK i \in DOMAIN saved : half.at = i + 1
    BY <1>1 DEF Splitting
  <2>2. i \in Nat /\ i + 1 = 0
    BY <2>1 DEF NoHalf, TablesInv
  <2> QED
    BY <2>2
<1> QED
  BY <1>1 DEF TablesInv

\* The first step of a split.
LEMMA SplitLeftTables ==
  ASSUME TablesInv, SplitLeft PROVE TablesInv'
<1>1. /\ half = NoHalf /\ UNCHANGED <<saved, rid, owners>>
      /\ \E i \in DOMAIN tablets, median \in Key :
            /\ CanSplitAt(tablets[i], median)
            /\ LET split == SplitTablet(tablets, i, tablets[i], median, NextTabletId)
               IN  /\ tablets' = [tablets EXCEPT ![i] = split[i]]
                   /\ half' = [at |-> i + 1, tablet |-> split[i + 1]]
  BY DEF SplitLeft, MayChange, clientVars
<1>2. tablets = saved /\ saved' = saved
  BY <1>1, NoHalfSaved
<1>3. Splitting'
  BY <1>1, <1>2 DEF Splitting, NextTabletId
<1> QED
  BY <1>1, <1>3 DEF TablesInv, FreshTable

\* The second step.
LEMMA SplitInsertTables ==
  ASSUME TablesInv, SplitInsert PROVE TablesInv'
<1>1. /\ half # NoHalf /\ half' = NoHalf /\ UNCHANGED <<rid, owners>>
      /\ tablets' = InsertAt(tablets, half.at, half.tablet)
      /\ saved' = tablets'
  BY DEF SplitInsert, clientVars
<1>2. Splitting /\ saved \in Seq(Tablet) /\ IsPartition(saved)
  BY <1>1 DEF TablesInv
<1>3. PICK ts, ow, n : ts = saved /\ ow = owners /\ n = 2 * Len(saved) - 1
  OBVIOUS
<1>4. ts \in Seq(Tablet) /\ IsPartition(ts) /\ Len(ts) \in Nat /\ n \in Int
  BY <1>2, <1>3
<1>5. PICK i \in DOMAIN ts, median \in Key :
          /\ CanSplitAt(ts[i], median)
          /\ tablets = [ts EXCEPT ![i] = SplitTablet(ts, i, ts[i], median, n)[i]]
          /\ half = [at |-> i + 1, tablet |-> SplitTablet(ts, i, ts[i], median, n)[i + 1]]
  BY <1>2, <1>3 DEF Splitting
<1>6. PICK us : us = SplitTablet(ts, i, ts[i], median, n)
  OBVIOUS
<1>7. us \in Seq(Tablet) /\ IsPartition(us)
  <2>1. ts[i] \in Tablet /\ median \in Bound /\ n \in Nat
    BY <1>3, <1>4 DEF Bound
  <2> QED
    BY <1>4, <1>5, <1>6, <2>1, SplitTable
<1>8. rid > 0 => FreshTable(us, ow)
  <2> HAVE rid > 0
  <2>1. FreshTable(ts, ow)
    BY <1>3 DEF TablesInv
  <2> QED
    BY <1>4, <1>5, <1>6, <2>1, SplitFresh
<1>9. InsertAt([ts EXCEPT ![i] = us[i]], i + 1, us[i + 1]) = us
  <2>1. Len(us) = Len(ts) + 1
    BY <1>4, <1>6, <1>7 DEF SplitTablet
  <2>2. \A j \in DOMAIN ts : (j < i => us[j] = ts[j]) /\ (j > i => us[j + 1] = ts[j])
    <3>1. DOMAIN ts = 1..Len(ts)
      BY <1>4
    <3>2. ASSUME NEW j \in 1..Len(ts), j < i PROVE us[j] = ts[j]
      BY <1>4, <1>6, <3>1, <3>2 DEF SplitTablet
    <3>3. ASSUME NEW j \in 1..Len(ts), j > i PROVE us[j + 1] = ts[j]
      <4>1. j + 1 \in 1..(Len(ts) + 1) /\ ~(j + 1 < i) /\ j + 1 # i /\ j + 1 # i + 1 /\ (j + 1) - 1 = j
        BY <1>4, <3>1, <3>3
      <4>2. us[j + 1] = ts[(j + 1) - 1]
        BY <1>6, <4>1, Zenon DEF SplitTablet
      <4> QED
        BY <4>1, <4>2
    <3> QED
      BY <3>1, <3>2, <3>3
  <2>3. IsSeq(us)
    BY <1>7, SeqIsSeq
  <2> QED
    BY <1>4, <2>1, <2>2, <2>3, InsertHalf
<1>10. tablets' = us /\ saved' = us
  BY <1>1, <1>5, <1>6, <1>9
<1>11. rid' \in Nat /\ (rid' > 0 => FreshTable(us, owners'))
  BY <1>1, <1>3, <1>8 DEF TablesInv
<1> QED
  BY <1>1, <1>7, <1>10, <1>11 DEF TablesInv, FreshTable, IsPartition, NonEmptyRanges, Ordered, Covering

\* What a migration does to a table and to the owners.
LEMMA FlipEffect ==
  ASSUME NEW ts, ts = tablets, NEW o, o = owners, FlipRoute
  PROVE  \E i \in DOMAIN ts, dst \in LoadedNodes(ts) :
            /\ tablets' = [ts EXCEPT ![i].node_id = dst]
            /\ owners' = [k \in Key |->
                  IF InRange(k, ts[i].start_key, ts[i].end_key) THEN o[k] \cup {dst} ELSE o[k]]
<1>1. PICK i \in DOMAIN tablets, dst \in LoadedNodes(tablets) :
          /\ tablets' = [tablets EXCEPT ![i].node_id = dst]
          /\ owners' = [k \in Key |->
                IF InRange(k, tablets[i].start_key, tablets[i].end_key)
                THEN owners[k] \cup {dst} ELSE owners[k]]
  BY Zenon DEF FlipRoute
<1>2. tablets' = [ts EXCEPT ![i].node_id = dst]
  BY <1>1
<1>3. owners' = [k \in Key |->
          IF InRange(k, ts[i].start_key, ts[i].end_key) THEN o[k] \cup {dst} ELSE o[k]]
  BY <1>1
<1>4. i \in DOMAIN ts /\ dst \in LoadedNodes(ts)
  BY <1>1
<1> QED
  BY <1>2, <1>3, <1>4, Zenon

\* A new owner of a tablet is an owner of its keys.
LEMMA FlipTables ==
  ASSUME TablesInv, FlipRoute PROVE TablesInv'
<1>1. PICK ts, ow : ts = saved /\ ow = owners
  OBVIOUS
<1>2. /\ half = NoHalf /\ half' = half /\ rid' = rid /\ saved' = tablets' /\ tablets = ts
      /\ ts \in Seq(Tablet) /\ IsPartition(ts)
  BY <1>1, NoHalfSaved DEF FlipRoute, MayChange, clientVars, TablesInv
<1>3. PICK i \in DOMAIN ts, dst \in LoadedNodes(ts) :
          /\ tablets' = [ts EXCEPT ![i].node_id = dst]
          /\ owners' = [k \in Key |->
                IF InRange(k, ts[i].start_key, ts[i].end_key) THEN ow[k] \cup {dst} ELSE ow[k]]
  BY <1>1, <1>2, FlipEffect
<1>4. PICK us, op : us = tablets' /\ op = owners'
  OBVIOUS
<1>5. /\ Len(ts) \in Nat /\ DOMAIN ts = 1..Len(ts) /\ DOMAIN us = DOMAIN ts
      /\ \A j \in DOMAIN ts : ts[j] \in Tablet
  BY <1>2, <1>3, <1>4
<1>6. /\ \A j \in DOMAIN ts : j # i => us[j] = ts[j]
      /\ us[i] = [ts[i] EXCEPT !.node_id = dst]
  BY <1>3, <1>4
<1>7. dst \in DataNode
  BY <1>3, <1>5 DEF LoadedNodes, Tablet
<1>8. us[i] \in Tablet /\ us[i].node_id = dst
  BY <1>5, <1>6, <1>7 DEF Tablet
<1>9. \A j \in DOMAIN ts : /\ us[j].start_key = ts[j].start_key
                           /\ us[j].end_key = ts[j].end_key
                           /\ us[j].id = ts[j].id
  <2>1. /\ us[i].start_key = ts[i].start_key /\ us[i].end_key = ts[i].end_key
        /\ us[i].id = ts[i].id
    BY <1>5, <1>6 DEF Tablet
  <2> QED
    BY <1>6, <2>1
<1>10. us \in Seq(Tablet)
  <2>1. \A j \in DOMAIN ts : us[j] \in Tablet
    BY <1>5, <1>6, <1>8
  <2>2. us \in [1..Len(ts) -> Tablet]
    BY <1>2, <1>3, <1>4, <1>5, <2>1
  <2> QED
    BY <1>5, <2>2
<1>11. IsPartition(us)
  BY <1>2, <1>5, <1>9, SameRanges
<1>12. ASSUME rid > 0 PROVE FreshTable(us, op)
  <2>1. FreshTable(ts, ow)
    BY <1>1, <1>12 DEF TablesInv
  <2>2. ASSUME NEW j \in DOMAIN us, NEW k \in Key, InRange(k, us[j].start_key, us[j].end_key)
        PROVE  us[j].node_id \in op[k]
    <3>1. InRange(k, ts[j].start_key, ts[j].end_key) /\ j \in DOMAIN ts
      BY <1>5, <1>9, <2>2
    <3>2. ts[j].node_id \in ow[k]
      BY <2>1, <3>1 DEF FreshTable
    <3>3. CASE j = i
      BY <1>3, <1>4, <1>8, <3>1, <3>3
    <3>4. CASE j # i
      BY <1>3, <1>4, <1>6, <3>1, <3>2, <3>4
    <3> QED
      BY <3>3, <3>4
  <2> QED
    BY <2>2 DEF FreshTable
<1> QED
  BY <1>2, <1>4, <1>10, <1>11, <1>12
     DEF TablesInv, FreshTable, IsPartition, NonEmptyRanges, Ordered, Covering

\* When a command begins, the owners of a key are those of the saved table,
\* between the two steps of a split too.
LEMMA CommandTables ==
  ASSUME TablesInv, Command PROVE TablesInv'
<1>1. PICK ts, op : ts = saved /\ op = owners'
  OBVIOUS
<1>2. /\ UNCHANGED <<tablets, half, saved>> /\ rid' = rid + 1
      /\ op = [k \in Key |->
            {t.node_id : t \in {u \in ToSet(ts) : InRange(k, u.start_key, u.end_key)}}]
  BY <1>1 DEF Command, masterVars
<1>3. FreshTable(ts, op)
  <2>1. ASSUME NEW j \in DOMAIN ts, NEW k \in Key, InRange(k, ts[j].start_key, ts[j].end_key)
        PROVE  ts[j].node_id \in op[k]
    <3>1. ts[j] \in {u \in ToSet(ts) : InRange(k, u.start_key, u.end_key)}
      BY <2>1 DEF ToSet
    <3>2. op[k] = {t.node_id : t \in {u \in ToSet(ts) : InRange(k, u.start_key, u.end_key)}}
      BY <1>2
    <3> QED
      BY <3>1, <3>2
  <2> QED
    BY <2>1 DEF FreshTable
<1>4. FreshTable(saved, owners)'
  BY <1>1, <1>2, <1>3 DEF FreshTable
<1>5. rid' \in Nat
  BY <1>2 DEF TablesInv
<1> QED
  BY <1>2, <1>4, <1>5 DEF TablesInv, Splitting

\* A restart reads the saved table.
LEMMA CrashTables ==
  ASSUME TablesInv, MasterCrash PROVE TablesInv'
<1>1. tablets' = saved /\ half' = NoHalf /\ UNCHANGED <<saved, rid, owners>>
  BY DEF MasterCrash, clientVars
<1> QED
  BY <1>1 DEF TablesInv, FreshTable

\* Every step keeps the tables.
LEMMA TablesInvNext ==
  ASSUME TablesInv, [FetchNext]_fetchVars PROVE TablesInv'
<1> USE DEF masterVars, connVars, clientVars
<1>1. CASE FetchRouteTable
  <2>1. UNCHANGED <<tablets, half, saved, rid, owners>>
    BY <1>1, Zenon DEF FetchRouteTable, Connect, Send, SendFails, SendKills,
                       Recv, RecvFails, RecvTimeout, TakeReply
  <2> QED
    BY <2>1, TablesQuiet
<1>2. CASE Worker \/ MasterRestart
  <2>1. UNCHANGED <<tablets, half, saved, rid, owners>>
    BY <1>2 DEF Worker, ShardsBegin, ShardsRead, ShardsReply, MasterRestart
  <2> QED
    BY <2>1, TablesQuiet
<1>3. CASE UNCHANGED fetchVars
  BY <1>3, TablesQuiet DEF fetchVars
<1> QED
  BY <1>1, <1>2, <1>3, CommandTables, CrashTables, FlipTables, SplitLeftTables, SplitInsertTables
     DEF FetchNext, Balancer

\* The table the worker walks has a tablet.
LEMMA TabletsNotEmpty ==
  ASSUME TablesInv PROVE Len(tablets) \in Nat /\ Len(tablets) >= 1
<1>1. Len(saved) \in Nat /\ Len(saved) >= 1 /\ DOMAIN saved = 1..Len(saved)
  <2>1. 1 \in Key
    BY MaxKeyAssumption DEF Key
  <2>2. DOMAIN saved # {}
    BY <2>1 DEF TablesInv, IsPartition, Covering
  <2> QED
    BY <2>2 DEF TablesInv
<1>2. CASE Splitting
  <2>1. PICK i, x : i \in DOMAIN saved /\ tablets = [saved EXCEPT ![i] = x]
    BY <1>2 DEF Splitting
  <2>2. DOMAIN tablets = 1..Len(saved)
    BY <1>1, <2>1 DEF TablesInv
  <2>3. tablets \in Seq(Tablet \cup {x})
    BY <2>1 DEF TablesInv
  <2> QED
    BY <1>1, <2>2, <2>3
<1> QED
  BY <1>1, <1>2 DEF TablesInv

-----------------------------------------------------------------------------
(* A calm command: it began on a sound connection with nothing late, and   *)
(* no fault has happened since.                                            *)

\* A whole reply to request r, with at least one segment.
ReplyIn(s, r) ==
    /\ OneFrame(s)
    /\ s[1].rid = r
    /\ s[1].size >= 1
    /\ \A i \in 2..Len(s) : s[i].kind = "segment"

\* The request, the worker or the reply: where the answer is.
Asked ==
    requests = <<rid>> /\ reader = Idle /\ buf = <<>> /\ wire = <<>>

Walking ==
    /\ requests = <<>> /\ buf = <<>> /\ wire = <<>>
    /\ \E body, freed : \E n \in Nat :
          /\ n >= 1 /\ IsSeq(body)
          /\ reader = [rid |-> rid, size |-> n, body |-> body, freed |-> freed]

Replied ==
    /\ requests = <<>> /\ reader = Idle
    /\ IsSeq(buf) /\ IsSeq(wire)
    /\ ReplyIn(Stream, rid)

Calm ==
    /\ up
    /\ attempt \in {1, 2}
    /\ cpc \in {"prompt", "connect", "send", "recv"}
    /\ cpc = "prompt" => fetched # <<>>
    /\ cpc = "connect" => buf = <<>>
    /\ cpc = "send" => /\ fd = "conn" /\ NothingLate
                       /\ peer = "open" \/ (attempt = 1 /\ peer \in {"fin", "rst"})
    /\ cpc = "recv" => \/ peer = "open" /\ (Asked \/ Walking \/ Replied)
                       \/ peer = "rst" /\ attempt = 1 /\ NothingLate

CalmInv ==
    /\ peer \in {"open", "fin", "rst", "dead"}
    /\ calm => Calm

\* Table f is the m cells taken in the order p, which is the order of keys.
Sorting(cells, m, p, f) ==
    /\ p \in [1..m -> 1..m]
    /\ \A i, j \in 1..m : p[i] = p[j] => i = j
    /\ \A i, j \in 1..m : i < j =>
          ParseSegment(cells[p[i]].parts).start_key <= ParseSegment(cells[p[j]].parts).start_key
    /\ f = [i \in 1..m |-> ParseSegment(cells[p[i]].parts)]

\* A body of segments only gives a table with as many entries.
LEMMA ParseSize ==
  ASSUME NEW m \in Nat, NEW cells, IsSeq(cells), Len(cells) = m,
         \A i \in 1..m : cells[i].kind = "segment",
         NEW f \in ParseBody(cells)
  PROVE  \E p : Sorting(cells, m, p, f)
<1>1. DOMAIN cells = 1..m
  BY DEF IsSeq
<1>2. {i \in DOMAIN cells : cells[i].kind = "segment"} = 1..m
  BY <1>1
<1>3. Cardinality(1..m) = m
  BY FS_Interval
<1> DEFINE Entry(i) == ParseSegment(cells[i].parts)
           InOrder(p) == \A i, j \in 1..m :
                            i < j => Entry(p[i]).start_key <= Entry(p[j]).start_key
<1> HIDE DEF Entry
<1>4. f \in {[i \in 1..m |-> Entry(p[i])] : p \in {q \in Injection(1..m, 1..m) : InOrder(q)}}
  BY <1>2, <1>3, Zenon DEF ParseBody, Entry
<1>5. PICK p \in Injection(1..m, 1..m) : InOrder(p) /\ f = [i \in 1..m |-> Entry(p[i])]
  BY <1>4
<1>6. p \in [1..m -> 1..m] /\ \A i, j \in 1..m : p[i] = p[j] => i = j
  BY DEF Injection, IsInjective
<1> QED
  BY <1>5, <1>6 DEF Entry, Sorting

\* The reply to the current request is taken with a table in it.
LEMMA TakenTable ==
  ASSUME NEW d, IsSeq(d), NEW w, IsSeq(w), NEW r, NEW k,
         ReplyIn(d \o w, r), Len(d) > 0, d[1].size = k, Len(d) > k
  PROVE  /\ k \in Nat /\ k >= 1 /\ d[1].rid = r /\ d[1].kind = "header"
         /\ \A f \in ParseBody(SubSeq(d, 2, k + 1)) : f # <<>>
<1> DEFINE s == d \o w
<1>1. /\ Len(d) \in Nat /\ Len(w) \in Nat
      /\ IsSeq(s) /\ Len(s) = Len(d) + Len(w)
      /\ \A i \in 1..Len(d) : s[i] = d[i]
  BY ConcatIsSeq
<1>2. ReplyIn(s, r)
  OBVIOUS
<1> HIDE DEF s
<1>3. s[1] = d[1]
  BY <1>1
<1>4. k \in Nat /\ k >= 1 /\ d[1].rid = r /\ d[1].kind = "header" /\ Len(s) = k + 1
  BY <1>2, <1>3 DEF ReplyIn, OneFrame, HeaderAt
<1>5. Len(d) = k + 1
  BY <1>1, <1>4
<1>6. PICK c : c = SubSeq(d, 2, k + 1)
  OBVIOUS
<1>7. IsSeq(c) /\ Len(c) = k /\ \A i \in 1..k : c[i] = d[i + 1]
  <2>1. 2 \in 1..(Len(d) + 1) /\ k + 1 \in 0..Len(d) /\ 2 =< (k + 1) + 1 /\ (k + 1) - 2 + 1 = k
    BY <1>4, <1>5
  <2>2. IsSeq(c) /\ Len(c) = (k + 1) - 2 + 1
        /\ \A i \in 1..((k + 1) - 2 + 1) : c[i] = d[2 + i - 1]
    BY <1>6, <2>1, SubSeqIsSeq
  <2> QED
    BY <1>4, <2>1, <2>2
<1>8. \A i \in 1..k : c[i].kind = "segment"
  <2>1. ASSUME NEW i \in 1..k PROVE c[i].kind = "segment"
    <3>1. c[i] = s[i + 1] /\ i + 1 \in 2..Len(s)
      BY <1>1, <1>4, <1>5, <1>7
    <3> QED
      BY <1>2, <3>1 DEF ReplyIn
  <2> QED
    BY <2>1
<1>9. ASSUME NEW f \in ParseBody(c) PROVE f # <<>>
  <2>1. PICK p : Sorting(c, k, p, f)
    BY <1>4, <1>7, <1>8, ParseSize
  <2>2. DOMAIN f = 1..k /\ 1 \in 1..k
    BY <1>4, <2>1 DEF Sorting
  <2>3. DOMAIN <<>> = {}
    OBVIOUS
  <2> QED
    BY <2>2, <2>3
<1> QED
  BY <1>4, <1>6, <1>9

\* No command has begun.
LEMMA CalmInvInit == FetchInit => CalmInv
  BY DEF FetchInit, CalmInv

\* A command begins.
LEMMA CommandCalm ==
  ASSUME CalmInv, Command PROVE CalmInv'
<1>1. /\ UNCHANGED <<up, reader, peer, requests, wire, fd, buf>>
      /\ attempt' = 1 /\ cpc' = IF fd = "none" THEN "connect" ELSE "send"
      /\ calm' = (up /\ NothingLate /\ (fd = "none" \/ (fd = "conn" /\ peer # "dead")))
  BY Zenon DEF Command, SoundStart, masterVars, connVars
<1>2. peer' \in {"open", "fin", "rst", "dead"}
  BY <1>1 DEF CalmInv
<1>3. ASSUME calm' PROVE Calm'
  <2>1. up /\ NothingLate /\ (fd = "none" \/ (fd = "conn" /\ peer # "dead"))
    BY <1>1, <1>3, Zenon
  <2>2. up' /\ NothingLate'
    BY <1>1, <2>1, Zenon DEF NothingLate
  <2>3. buf' = <<>>
    BY <2>2 DEF NothingLate
  <2>4. CASE fd = "none"
    <3>1. cpc' = "connect"
      BY <1>1, <2>4
    <3> QED
      BY <1>1, <2>2, <2>3, <3>1, Zenon DEF Calm
  <2>5. CASE fd = "conn" /\ peer # "dead"
    <3>1. cpc' = "send" /\ fd' = "conn"
      BY <1>1, <2>5
    <3>2. peer' = "open" \/ peer' \in {"fin", "rst"}
      BY <1>1, <1>2, <2>5
    <3>3. /\ attempt' \in {1, 2} /\ cpc' \in {"prompt", "connect", "send", "recv"}
          /\ cpc' # "prompt" /\ cpc' # "connect" /\ cpc' # "recv"
      BY <1>1, <3>1
    <3> QED
      BY <1>1, <2>2, <3>1, <3>2, <3>3, Zenon DEF Calm
  <2> QED
    BY <2>1, <2>4, <2>5
<1> QED
  BY <1>2, <1>3 DEF CalmInv

\* Connect, send and their failures: one retry is enough, and no send meets a
\* socket that kills the process.
LEMMA SendCalm ==
  ASSUME CalmInv, Connect \/ Send \/ SendFails \/ SendKills PROVE CalmInv'
<1> USE DEF masterVars, connVars, clientVars
<1>1. peer' \in {"open", "fin", "rst", "dead"} /\ calm' = calm /\ up' = up
  BY DEF CalmInv, Connect, Send, SendFails, SendKills
<1>2. ASSUME calm' PROVE Calm'
  <2>0. Calm
    BY <1>1, <1>2 DEF CalmInv
  <2>1. CASE Connect
    <3>1. /\ up /\ up' /\ cpc' = "send" /\ fd' = "conn" /\ peer' = "open"
          /\ buf' = <<>> /\ requests' = <<>> /\ wire' = <<>> /\ reader' = Idle
          /\ attempt' \in {1, 2}
      <4>1. up /\ cpc = "connect" /\ buf = <<>> /\ attempt \in {1, 2}
        BY <2>0, <2>1 DEF Calm, Connect
      <4> QED
        BY <2>1, <4>1 DEF Connect
    <3> QED
      BY <3>1 DEF Calm, NothingLate, Idle
  <2>2. CASE Send
    <3>1. /\ cpc = "send" /\ cpc' = "recv" /\ UNCHANGED <<reader, wire, attempt, buf, rid, up>>
          /\ requests' = IF peer = "open" THEN Append(requests, rid) ELSE requests
          /\ peer' = (IF peer = "fin" THEN "rst" ELSE peer)
          /\ peer \in {"open", "fin"}
      BY <2>2 DEF Send
    <3>2. /\ up /\ attempt \in {1, 2} /\ NothingLate
          /\ peer = "open" \/ (attempt = 1 /\ peer \in {"fin", "rst"})
      BY <2>0, <3>1 DEF Calm
    <3>3. CASE peer = "open"
      <4>1. requests' = <<rid'>> /\ peer' = "open"
        BY <3>1, <3>2, <3>3 DEF NothingLate
      <4>2. Asked'
        BY <3>1, <3>2, <4>1 DEF Asked, NothingLate, Idle
      <4> QED
        BY <3>1, <3>2, <4>1, <4>2 DEF Calm
    <3>4. CASE peer = "fin"
      <4>1. requests' = requests /\ peer' = "rst" /\ attempt' = 1
        BY <3>1, <3>2, <3>4
      <4>2. NothingLate'
        BY <3>1, <3>2, <4>1 DEF NothingLate, Idle
      <4> QED
        BY <3>1, <3>2, <4>1, <4>2 DEF Calm
    <3> QED
      BY <3>1, <3>3, <3>4
  <2>3. CASE SendFails
    <3>1. cpc = "send" /\ peer = "rst" /\ buf' = buf /\ up' = up /\ SendAndRecvFails
      BY <2>3 DEF SendFails
    <3>2. up /\ attempt = 1 /\ buf = <<>>
      BY <2>0, <3>1 DEF Calm, NothingLate
    <3>3. cpc' = "connect" /\ attempt' = 2 /\ buf' = <<>> /\ up'
      BY <3>1, <3>2 DEF SendAndRecvFails
    <3> QED
      BY <3>3 DEF Calm
  <2>4. CASE SendKills
    BY <2>0, <2>4 DEF Calm, SendKills
  <2> QED
    BY <2>1, <2>2, <2>3, <2>4
<1> QED
  BY <1>1, <1>2 DEF CalmInv

\* Receiving: the reply arrives in any number of parts.  A receive that times
\* out ends the calm, but for the first attempt with nothing received.
LEMMA RecvCalm ==
  ASSUME CalmInv, Recv \/ RecvFails \/ RecvTimeout PROVE CalmInv'
<1> USE DEF masterVars, connVars, clientVars
<1>1. /\ peer' \in {"open", "fin", "rst", "dead"} /\ up' = up /\ cpc = "recv"
      /\ calm' => calm
  <2>1. peer' \in {"open", "fin", "rst", "dead"} /\ up' = up /\ cpc = "recv"
    BY DEF CalmInv, Recv, RecvFails, RecvTimeout
  <2>2. calm' => calm
    BY Zenon DEF Recv, RecvFails, RecvTimeout
  <2> QED
    BY <2>1, <2>2
<1>2. ASSUME calm' PROVE Calm'
  <2>0. Calm
    BY <1>1, <1>2 DEF CalmInv
  <2>1. CASE Recv
    <3>1. PICK b, w : b = buf /\ w = wire
      OBVIOUS
    <3>2. PICK k \in DOMAIN w : buf' = b \o SubSeq(w, 1, k) /\ wire' = SubSeq(w, k + 1, Len(w))
      BY <2>1, <3>1 DEF Recv
    <3>3. UNCHANGED <<up, reader, peer, requests, cpc, attempt, rid>>
      BY <2>1 DEF Recv
    <3>4. wire # <<>>
      BY <3>1, <3>2
    <3>5. Replied /\ peer = "open"
      BY <1>1, <2>0, <3>4 DEF Calm, Asked, Walking, NothingLate
    <3>6. IsSeq(b) /\ IsSeq(w)
      BY <3>1, <3>5 DEF Replied
    <3>7. /\ IsSeq(b \o SubSeq(w, 1, k)) /\ IsSeq(SubSeq(w, k + 1, Len(w)))
          /\ (b \o SubSeq(w, 1, k)) \o SubSeq(w, k + 1, Len(w)) = b \o w
      <4>1. k \in 0..Len(w)
        BY <3>6 DEF IsSeq
      <4> QED
        BY <3>6, <4>1, MoveCells
    <3>8. IsSeq(buf') /\ IsSeq(wire') /\ Stream' = Stream
      BY <3>1, <3>2, <3>7 DEF Stream
    <3>9. PICK s : s = Stream /\ s = Stream'
      BY <3>8
    <3>10. ReplyIn(s, rid) /\ requests' = <<>> /\ reader' = Idle /\ rid' = rid
      BY <3>3, <3>5, <3>9 DEF Replied
    <3>11. ReplyIn(Stream', rid')
      BY <3>9, <3>10
    <3>12. Replied'
      BY <3>8, <3>10, <3>11 DEF Replied, ReplyIn, OneFrame, HeaderAt, IsSeq, ToSet, Idle
    <3> QED
      BY <1>1, <2>0, <3>3, <3>5, <3>12 DEF Calm
  <2>2. CASE RecvFails
    <3>1. peer # "open" /\ buf' = buf /\ up' = up /\ SendAndRecvFails
      BY <2>2 DEF RecvFails, ReceiveFailed
    <3>2. up /\ attempt = 1 /\ buf = <<>>
      BY <1>1, <2>0, <3>1 DEF Calm, NothingLate
    <3>3. cpc' = "connect" /\ attempt' = 2 /\ buf' = <<>> /\ up'
      BY <3>1, <3>2 DEF SendAndRecvFails
    <3> QED
      BY <3>3 DEF Calm
  <2>3. CASE RecvTimeout
    <3>1. attempt = 1 /\ buf = <<>> /\ buf' = buf /\ up' = up /\ SendAndRecvFails
      BY <1>2, <2>3, Zenon DEF RecvTimeout
    <3>2. cpc' = "connect" /\ attempt' = 2 /\ buf' = <<>> /\ up'
      BY <2>0, <3>1 DEF SendAndRecvFails, Calm
    <3> QED
      BY <3>2 DEF Calm
  <2> QED
    BY <1>1, <1>2, <2>1, <2>2, <2>3
<1> QED
  BY <1>1, <1>2 DEF CalmInv

\* Taking the reply.
LEMMA TakeCalm ==
  ASSUME CalmInv, TakeReply PROVE CalmInv'
<1> USE DEF masterVars, connVars, clientVars
<1>1. UNCHANGED <<up, peer, calm, attempt>> /\ cpc = "recv" /\ FrameComplete /\ cpc' = "prompt"
  BY Zenon DEF TakeReply
<1>2. ASSUME calm' PROVE Calm'
  <2>0. Calm /\ calm
    BY <1>1, <1>2 DEF CalmInv
  <2>1. buf # <<>>
    BY <1>1 DEF FrameComplete
  <2>2. Replied
    BY <1>1, <2>0, <2>1 DEF Calm, Asked, Walking, NothingLate
  <2>3. PICK d, w, r, k : d = buf /\ w = wire /\ r = rid /\ k = d[1].size
    OBVIOUS
  <2>4. IsSeq(d) /\ IsSeq(w) /\ ReplyIn(d \o w, r)
    BY <2>2, <2>3 DEF Replied, Stream
  <2>5. Len(d) > 0 /\ d[1].size = k /\ Len(d) > k
    <3>1. Len(d) > k /\ d # <<>>
      BY <1>1, <2>3 DEF FrameComplete
    <3> QED
      BY <2>3, <2>4, <3>1 DEF IsSeq
  <2>6. d[1].rid = r /\ \A f \in ParseBody(SubSeq(d, 2, k + 1)) : f # <<>>
    BY <2>4, <2>5, TakenTable
  <2>7. Answers(d[1].rid) => fetched' \in ParseBody(SubSeq(d, 2, k + 1))
    BY <2>3, Zenon DEF TakeReply
  <2>8. fetched' # <<>>
    BY <2>3, <2>6, <2>7, Zenon DEF Answers
  <2> QED
    BY <1>1, <2>0, <2>8 DEF Calm
<1> QED
  BY <1>1, <1>2 DEF CalmInv

\* The cells of a reply.
LEMMA FrameCells ==
  ASSUME NEW id, NEW body, IsSeq(body), NEW n, n = Len(body)
  PROVE  /\ n \in Nat
         /\ IsSeq(Frame(id, body)) /\ Len(Frame(id, body)) = n + 1
         /\ Frame(id, body)[1] = [kind |-> "header", rid |-> id, size |-> n]
         /\ \A i \in 1..n : Frame(id, body)[i + 1] = [kind |-> "segment", parts |-> body[i]]
<1> DEFINE h == [kind |-> "header", rid |-> id, size |-> n]
           c == [i \in DOMAIN body |-> [kind |-> "segment", parts |-> body[i]]]
<1>1. n \in Nat /\ DOMAIN body = 1..n
  BY DEF IsSeq
<1>2. IsSeq(c) /\ Len(c) = n /\ \A i \in 1..n : c[i] = [kind |-> "segment", parts |-> body[i]]
  <2>1. c \in Seq({c[i] : i \in 1..n})
    BY <1>1
  <2>2. IsSeq(c)
    BY <2>1, SeqIsSeq
  <2>3. DOMAIN c = 1..n
    BY <1>1
  <2> QED
    BY <1>1, <2>1, <2>2, <2>3
<1>3. Frame(id, body) = <<h>> \o c
  BY DEF Frame
<1> HIDE DEF h, c
<1>4. PICK g : g = <<h>>
  OBVIOUS
<1>5. IsSeq(g) /\ Len(g) = 1 /\ g[1] = h
  <2>1. g \in Seq({h})
    BY <1>4
  <2>2. IsSeq(g)
    BY <2>1, SeqIsSeq
  <2> QED
    BY <1>4, <2>2
<1>6. /\ IsSeq(g \o c) /\ Len(g \o c) = Len(g) + Len(c)
      /\ \A i \in 1..Len(g) : (g \o c)[i] = g[i]
      /\ \A i \in 1..Len(c) : (g \o c)[Len(g) + i] = c[i]
  <2>1. IsSeq(g) /\ IsSeq(c)
    BY <1>2, <1>5
  <2> QED
    BY <2>1, ConcatIsSeq
<1>7. PICK f : f = g \o c
  OBVIOUS
<1>8. IsSeq(f) /\ Len(f) = n + 1 /\ f[1] = h
  BY <1>1, <1>2, <1>5, <1>6, <1>7
<1>9. ASSUME NEW i \in 1..n PROVE f[i + 1] = c[i]
  <2>1. f[1 + i] = c[i] /\ 1 + i = i + 1
    BY <1>1, <1>2, <1>5, <1>6, <1>7
  <2> QED
    BY <2>1
<1> QED
  BY <1>1, <1>2, <1>3, <1>4, <1>7, <1>8, <1>9 DEF h

\* The worker: the request is taken, the table walked, the reply sent.
LEMMA WorkerCalm ==
  ASSUME CalmInv, TablesInv, Worker PROVE CalmInv'
<1> USE DEF masterVars, connVars, clientVars
<1>1. /\ UNCHANGED <<up, peer, calm, cpc, attempt, fd, buf, rid, fetched>>
      /\ requests # <<>> \/ reader # Idle
  BY DEF Worker, ShardsBegin, ShardsRead, ShardsReply
<1>2. ASSUME calm' PROVE Calm'
  <2>0. Calm
    BY <1>1, <1>2 DEF CalmInv
  <2>1. ~NothingLate
    BY <1>1 DEF NothingLate
  <2>2. CASE cpc # "recv"
    BY <1>1, <2>0, <2>1, <2>2 DEF Calm
  <2>3. CASE cpc = "recv"
    <3>1. peer = "open" /\ (Asked \/ Walking \/ Replied)
      BY <2>0, <2>1, <2>3 DEF Calm
    <3>2. PICK r : r = rid /\ r = rid'
      BY <1>1
    <3>3. ASSUME Asked PROVE Walking'
      <4>1. ShardsBegin
        BY <3>3 DEF Asked, Worker, ShardsRead, ShardsReply
      <4>2. PICK n : n = Len(tablets)
        OBVIOUS
      <4>3. n \in Nat /\ n >= 1
        BY <4>2, TabletsNotEmpty
      <4>4. reader' = [rid |-> r, size |-> n, body |-> <<>>, freed |-> <<>>]
        BY <3>2, <3>3, <4>1, <4>2 DEF ShardsBegin, Asked
      <4>5. requests' = <<>> /\ buf' = <<>> /\ wire' = <<>>
        BY <1>1, <3>3, <4>1 DEF ShardsBegin, Asked
      <4> QED
        BY <3>2, <4>3, <4>4, <4>5, EmptyIsSeq DEF Walking, IsSeq, ToSet
    <3>4. ASSUME Walking PROVE Walking' \/ Replied'
      <4>1. PICK n, body, freed :
                /\ n \in Nat /\ n >= 1 /\ IsSeq(body)
                /\ reader = [rid |-> r, size |-> n, body |-> body, freed |-> freed]
        BY <3>2, <3>4 DEF Walking
      <4>2. requests = <<>> /\ buf = <<>> /\ wire = <<>> /\ buf' = <<>>
        BY <1>1, <3>4 DEF Walking
      <4>3. ~ShardsBegin
        BY <4>2 DEF ShardsBegin
      <4>4. CASE ShardsRead
        <5>1. PICK e : reader' = [reader EXCEPT !.body = Append(@, e)]
          BY <4>4 DEF ShardsRead
        <5>2. PICK c : c = Append(body, e)
          OBVIOUS
        <5>3. IsSeq(c)
          BY <4>1, <5>2, AppendIsSeq
        <5>4. reader' = [rid |-> r, size |-> n, body |-> c, freed |-> freed]
          BY <4>1, <5>1, <5>2
        <5>5. requests' = <<>> /\ wire' = <<>>
          BY <4>2, <4>4 DEF ShardsRead
        <5> QED
          BY <3>2, <4>1, <4>2, <5>3, <5>4, <5>5 DEF Walking, IsSeq, ToSet
      <4>5. CASE ShardsReply
        <5>1. Len(body) = n /\ wire' = wire \o Frame(r, body) /\ reader' = Idle /\ requests' = <<>>
          BY <4>1, <4>2, <4>5 DEF ShardsReply
        <5>2. PICK f : f = Frame(r, body)
          OBVIOUS
        <5>3. /\ IsSeq(f) /\ Len(f) = n + 1
              /\ f[1] = [kind |-> "header", rid |-> r, size |-> n]
              /\ \A i \in 1..n : f[i + 1] = [kind |-> "segment", parts |-> body[i]]
          BY <4>1, <5>1, <5>2, FrameCells
        <5>4. wire' = f /\ Stream' = f
          <6>1. wire' = <<>> \o f
            BY <4>2, <5>1, <5>2
          <6>2. <<>> \o f = f
            BY <5>3, EmptyIsSeq, ConcatIsSeq
          <6> QED
            BY <4>2, <6>1, <6>2 DEF Stream
        <5>5. ReplyIn(f, r)
          <6>1. OneFrame(f) /\ f[1].rid = r /\ f[1].size >= 1
            BY <4>1, <5>3 DEF OneFrame, HeaderAt
          <6>2. ASSUME NEW i \in 2..Len(f) PROVE f[i].kind = "segment"
            <7>1. i - 1 \in 1..n /\ (i - 1) + 1 = i
              BY <4>1, <5>3
            <7>2. f[(i - 1) + 1] = [kind |-> "segment", parts |-> body[i - 1]]
              BY <5>3, <7>1
            <7> QED
              BY <7>1, <7>2
          <6> QED
            BY <6>1, <6>2 DEF ReplyIn
        <5>6. ReplyIn(Stream', rid') /\ IsSeq(buf') /\ IsSeq(wire')
          BY <3>2, <4>2, <5>3, <5>4, <5>5, EmptyIsSeq
        <5> QED
          BY <5>1, <5>6 DEF Replied, ReplyIn, OneFrame, HeaderAt, IsSeq, ToSet, Idle
      <4> QED
        BY <4>3, <4>4, <4>5 DEF Worker
    <3>5. ~Replied
      BY <1>1 DEF Replied
    <3> QED
      BY <1>1, <2>0, <2>3, <3>1, <3>3, <3>4, <3>5 DEF Calm
  <2> QED
    BY <2>2, <2>3
<1> QED
  BY <1>1, <1>2 DEF CalmInv

\* The balancer may move the vector under the worker.
LEMMA MasterCalm ==
  ASSUME CalmInv, Balancer \/ MasterCrash \/ MasterRestart PROVE CalmInv'
<1> USE DEF masterVars, connVars, clientVars
<1>1. CASE MasterCrash
  BY <1>1 DEF MasterCrash, CalmInv
<1>2. CASE MasterRestart
  BY <1>2 DEF MasterRestart, CalmInv, Calm
<1>3. CASE Balancer
  <2>1. UNCHANGED <<up, peer, requests, wire, calm, cpc, attempt, fd, buf, rid, fetched>>
    BY <1>3 DEF Balancer, SplitLeft, SplitInsert, FlipRoute
  <2>2. \/ reader' = reader
        \/ reader # Idle /\ \E x : reader' = [reader EXCEPT !.freed = x]
    BY <1>3 DEF Balancer, SplitLeft, SplitInsert, FlipRoute
  <2>3. CASE reader' = reader
    BY <2>1, <2>3 DEF CalmInv, Calm, NothingLate, Asked, Walking, Replied, Stream,
                      ReplyIn, OneFrame, HeaderAt, IsSeq, ToSet, Idle
  <2>4. CASE reader # Idle /\ \E x : reader' = [reader EXCEPT !.freed = x]
    <3>1. ~NothingLate /\ ~Asked /\ ~Replied
      BY <2>4 DEF NothingLate, Asked, Replied
    <3>2. ASSUME Walking PROVE Walking'
      <4>1. PICK n, body, freed :
                /\ n \in Nat /\ n >= 1 /\ IsSeq(body)
                /\ reader = [rid |-> rid, size |-> n, body |-> body, freed |-> freed]
        BY <3>2 DEF Walking
      <4>2. PICK x : reader' = [reader EXCEPT !.freed = x]
        BY <2>4
      <4>3. reader' = [rid |-> rid', size |-> n, body |-> body, freed |-> x]
        BY <2>1, <4>1, <4>2
      <4> QED
        BY <2>1, <3>2, <4>1, <4>3 DEF Walking, IsSeq, ToSet
    <3> QED
      BY <2>1, <3>1, <3>2 DEF CalmInv, Calm
  <2> QED
    BY <2>2, <2>3, <2>4
<1> QED
  BY <1>1, <1>2, <1>3

\* Every step keeps the invariant.
LEMMA CalmInvNext ==
  ASSUME CalmInv, TablesInv, [FetchNext]_fetchVars PROVE CalmInv'
<1>1. CASE UNCHANGED fetchVars
  BY <1>1 DEF fetchVars, masterVars, connVars, clientVars,
              CalmInv, Calm, NothingLate, Asked, Walking, Replied, Stream,
              ReplyIn, OneFrame, HeaderAt, IsSeq, ToSet, Idle
<1> QED
  BY <1>1, CommandCalm, SendCalm, RecvCalm, TakeCalm, WorkerCalm, MasterCalm
     DEF FetchNext, FetchRouteTable

\* A command with a sound start gets a table: the Master is up and stays up, no
\* reply to an earlier request is under way, and the client has no connection
\* or one that may have been closed or reset since, but neither a connect that
\* failed nor a reset it was told of; its first attempt may time out before any
\* of the reply has come, no later receive does.  The one retry is then enough
\* and SIGPIPE does not strike, whatever the balancer does to the table while
\* the worker walks it.
THEOREM ReconnectWorksAlways == FetchSpec => []ReconnectWorks
<1>1. CalmInv => ReconnectWorks
  BY DEF CalmInv, Calm, ReconnectWorks
<1>2. CalmInv /\ TablesInv /\ [FetchNext]_fetchVars => CalmInv' /\ TablesInv'
  BY CalmInvNext, TablesInvNext
<1> QED
  BY <1>1, <1>2, CalmInvInit, TablesInvInit, PTL DEF FetchSpec

-----------------------------------------------------------------------------
(* What a reply to the current request says while the buffer is aligned,   *)
(* no split overtakes a walk and no key has a ':'.                         *)

GoodTable(ts, o) == ts \in Seq(Tablet) /\ IsPartition(ts) /\ FreshTable(ts, o)

\* The table in the frame whose header is at i.
TableAt(s, i) == [j \in 1..s[i].size |-> ParseSegment(s[i + j].parts)]

\* A frame is complete and answers request r or an earlier one; if it answers
\* r, its table is good.
FrameFresh(s, i, r, o) ==
    s[i].kind = "header" =>
        /\ s[i].size \in Nat /\ i + s[i].size <= Len(s)
        /\ s[i].rid \in 1..r
        /\ s[i].rid = r => /\ GoodTable(TableAt(s, i), o)
                           /\ \A j \in 1..s[i].size : s[i + j].kind = "segment"

FramesFresh(s, r, o) == \A i \in 1..Len(s) : FrameFresh(s, i, r, o)

\* An entry of the reply names a range of the table, and a node that has owned
\* its keys since the command began: perhaps not the owner any more.
SegmentFresh(parts, t, o) ==
    LET p == ParseSegment(parts)
    IN  /\ p \in Tablet
        /\ p.id = t.id /\ p.start_key = t.start_key /\ p.end_key = t.end_key
        /\ \A k \in Key : InRange(k, p.start_key, p.end_key) => p.node_id \in o[k]

\* The worker w has copied the first entries of table ts.
WorkerFresh(w, ts, r, o) ==
    /\ w = [rid |-> w.rid, size |-> Len(ts), body |-> w.body, freed |-> <<>>]
    /\ IsSeq(w.body) /\ Len(w.body) <= Len(ts)
    /\ w.rid \in 1..r
    /\ w.rid = r => \A i \in 1..Len(w.body) : SegmentFresh(w.body[i], ts[i], o)

FreshInv ==
    /\ cpc # "prompt" => rid >= 1
    /\ requests \in Seq(1..rid)
    /\ reader # Idle => half = NoHalf /\ WorkerFresh(reader, tablets, rid, owners)
    /\ \E rest : /\ IsSeq(rest)
                 /\ peer = "open" => rest = <<>>
                 /\ FramesFresh(Stream \o rest, rid, owners)
    /\ fetched # <<>> => GoodTable(fetched, owners)

-----------------------------------------------------------------------------
(* Sorting the entries of a good table leaves them where they are.         *)

\* An increasing function from 1..m to itself is the identity: the least i with
\* p[i] < i would have p[p[i]] < p[i], and the greatest with p[i] > i likewise.
LEMMA IncreasingIsIdentity ==
  ASSUME NEW m \in Nat, NEW p \in [1..m -> 1..m],
         \A i, j \in 1..m : i < j => p[i] < p[j]
  PROVE  \A i \in 1..m : p[i] = i
<1>1. ASSUME NEW I \in SUBSET Nat, I # {} PROVE \E x \in I : \A y \in I : x =< y
  <2> DEFINE R == OpToRel(<, Nat)
  <2>1. IsWellFoundedOn(R, Nat)
    BY NatLessThanWellFounded, Zenon
  <2>2. \A x, y \in I : y < x => <<y, x>> \in R
    BY DEF OpToRel
  <2> HIDE DEF R
  <2>3. PICK x \in I : \A y \in I : ~ (<<y, x>> \in R)
    BY <1>1, <2>1, WFMin, Zenon
  <2>4. ASSUME NEW y \in I PROVE x =< y
    <3>1. ~ (y < x)
      BY <2>2, <2>3, Zenon
    <3>2. x \in Nat /\ y \in Nat
      OBVIOUS
    <3> QED
      BY <3>1, <3>2
  <2> QED
    BY <2>4
<1>2. \A i \in 1..m : p[i] \in 1..m
  OBVIOUS
<1>3. \A i \in 1..m : ~(p[i] < i)
  <2> DEFINE I == {i \in 1..m : p[i] < i}
  <2>1. SUFFICES ASSUME I # {} PROVE FALSE
    OBVIOUS
  <2>2. I \in SUBSET Nat
    OBVIOUS
  <2>3. PICK x \in I : \A y \in I : x =< y
    <3> HIDE DEF I
    <3> QED
      BY <1>1, <2>1, <2>2
  <2>4. PICK y \in 1..m : y = p[x] /\ y < x /\ x \in 1..m
    BY <1>2
  <2>5. p[y] < y
    BY <2>4
  <2>6. y \in I
    BY <2>4, <2>5
  <2> QED
    BY <2>3, <2>4, <2>6
<1>4. \A i \in 1..m : ~(p[i] > i)
  <2> DEFINE I == {i \in 1..m : p[i] > i}
             J == {m - i : i \in I}
  <2>1. SUFFICES ASSUME I # {} PROVE FALSE
    OBVIOUS
  <2>2. J \in SUBSET Nat /\ J # {}
    BY <2>1
  <2>3. PICK z \in J : \A y \in J : z =< y
    <3> HIDE DEF J
    <3> QED
      BY <1>1, <2>2
  <2>4. PICK x \in I : z = m - x
    OBVIOUS
  <2>5. PICK y \in 1..m : y = p[x] /\ x < y /\ x \in 1..m
    BY <1>2
  <2>6. y < p[y]
    BY <2>5
  <2>7. y \in I /\ m - y \in J
    BY <2>5, <2>6
  <2>8. m - x =< m - y
    BY <2>3, <2>4, <2>7
  <2> QED
    BY <2>5, <2>8
<1>5. ASSUME NEW i \in 1..m PROVE p[i] = i
  <2>1. PICK x \in 1..m : x = p[i]
    BY <1>2
  <2>2. ~(x < i) /\ ~(x > i)
    BY <1>3, <1>4, <2>1
  <2> QED
    BY <2>1, <2>2
<1> QED
  BY <1>5

\* The client's table is the one in the reply.
LEMMA ParseGood ==
  ASSUME NEW m \in Nat, NEW cells, IsSeq(cells), Len(cells) = m,
         \A i \in 1..m : cells[i].kind = "segment",
         NEW ts \in Seq(Tablet), IsPartition(ts),
         ts = [i \in 1..m |-> ParseSegment(cells[i].parts)],
         NEW f \in ParseBody(cells)
  PROVE  f = ts
<1>1. PICK p : Sorting(cells, m, p, f)
  BY ParseSize
<1>2. p \in [1..m -> 1..m]
  BY <1>1 DEF Sorting
<1>3. DOMAIN ts = 1..m /\ \A i \in 1..m : ts[i] = ParseSegment(cells[i].parts)
  OBVIOUS
<1>4. \A i \in 1..m : ts[i].start_key \in Nat /\ ts[i].end_key \in Nat
  BY <1>3, TabletFields
<1>5. \A i, j \in 1..m : i < j => ts[i].start_key < ts[j].start_key
  <2>1. ASSUME NEW i \in 1..m, NEW j \in 1..m, i < j PROVE ts[i].start_key < ts[j].start_key
    <3>1. ts[i].end_key # Empty /\ ts[i].end_key <= ts[j].start_key
      BY <1>3, <2>1 DEF IsPartition, Ordered
    <3>2. ts[i].start_key < ts[i].end_key
      BY <1>3, <3>1 DEF IsPartition, NonEmptyRanges
    <3> QED
      BY <1>4, <3>1, <3>2
  <2> QED
    BY <2>1
<1>6. \A i, j \in 1..m : i < j => p[i] < p[j]
  <2>1. ASSUME NEW i \in 1..m, NEW j \in 1..m, i < j PROVE p[i] < p[j]
    <3>1. PICK a \in 1..m, b \in 1..m : a = p[i] /\ b = p[j]
      BY <1>2
    <3>2. a # b
      BY <1>1, <2>1, <3>1 DEF Sorting
    <3>3. ts[a].start_key <= ts[b].start_key
      BY <1>1, <1>3, <2>1, <3>1 DEF Sorting
    <3>4. ~(b < a)
      <4>1. b < a => ts[b].start_key < ts[a].start_key
        BY <1>5
      <4>2. PICK x \in Nat, y \in Nat : x = ts[a].start_key /\ y = ts[b].start_key
        BY <1>4
      <4> QED
        BY <3>3, <4>1, <4>2
    <3> QED
      BY <3>1, <3>2, <3>4
  <2> QED
    BY <2>1
<1>7. \A i \in 1..m : p[i] = i
  BY <1>2, <1>6, IncreasingIsIdentity
<1>8. f = [i \in 1..m |-> ParseSegment(cells[p[i]].parts)]
  BY <1>1 DEF Sorting
<1> QED
  BY <1>7, <1>8

-----------------------------------------------------------------------------
(* The frames of a stream, as it and the owners change.                    *)

\* Owners are only added while a command runs.
LEMMA GoodGrows ==
  ASSUME NEW o, NEW q, \A k \in Key : o[k] \subseteq q[k]
  PROVE  /\ \A ts : GoodTable(ts, o) => GoodTable(ts, q)
         /\ \A s, r : FramesFresh(s, r, o) => FramesFresh(s, r, q)
         /\ \A parts, t : SegmentFresh(parts, t, o) => SegmentFresh(parts, t, q)
<1>1. \A ts : FreshTable(ts, o) => FreshTable(ts, q)
  BY DEF FreshTable
<1>2. ASSUME NEW ts, GoodTable(ts, o) PROVE GoodTable(ts, q)
  BY <1>1, <1>2 DEF GoodTable
<1>3. ASSUME NEW s, NEW r, FramesFresh(s, r, o) PROVE FramesFresh(s, r, q)
  <2>1. ASSUME NEW i \in 1..Len(s) PROVE FrameFresh(s, i, r, q)
    <3>1. FrameFresh(s, i, r, o)
      BY <1>3 DEF FramesFresh
    <3> QED
      BY <1>2, <3>1 DEF FrameFresh
  <2> QED
    BY <2>1 DEF FramesFresh
<1>4. ASSUME NEW parts, NEW t, SegmentFresh(parts, t, o) PROVE SegmentFresh(parts, t, q)
  BY <1>4 DEF SegmentFresh
<1> QED
  BY <1>2, <1>3, <1>4

\* A new request has no reply yet.
LEMMA FramesOlder ==
  ASSUME NEW s, NEW r \in Nat, NEW o, NEW q, FramesFresh(s, r, o)
  PROVE  FramesFresh(s, r + 1, q)
<1>1. ASSUME NEW i \in 1..Len(s) PROVE FrameFresh(s, i, r + 1, q)
  <2>1. FrameFresh(s, i, r, o)
    BY DEF FramesFresh
  <2>2. s[i].rid \in 1..r => s[i].rid \in 1..(r + 1) /\ s[i].rid # r + 1
    OBVIOUS
  <2> QED
    BY <2>1, <2>2 DEF FrameFresh
<1> QED
  BY <1>1 DEF FramesFresh

\* The cells of a frame can be elsewhere in another sequence.
LEMMA FrameMoved ==
  ASSUME NEW s, NEW u, NEW i \in Nat, NEW j \in Nat, NEW r, NEW o,
         FrameFresh(s, i, r, o), u[j] = s[i],
         s[i].kind = "header" => /\ j + s[i].size <= Len(u)
                                 /\ \A m \in 1..s[i].size : u[j + m] = s[i + m]
  PROVE  FrameFresh(u, j, r, o)
<1> SUFFICES ASSUME u[j].kind = "header"
             PROVE  /\ u[j].size \in Nat /\ j + u[j].size <= Len(u)
                    /\ u[j].rid \in 1..r
                    /\ u[j].rid = r => /\ GoodTable(TableAt(u, j), o)
                                       /\ \A m \in 1..u[j].size : u[j + m].kind = "segment"
  BY DEF FrameFresh
<1>1. PICK n : n = s[i].size
  OBVIOUS
<1>2. /\ n \in Nat /\ s[i].rid \in 1..r
      /\ s[i].rid = r => /\ GoodTable(TableAt(s, i), o)
                         /\ \A m \in 1..n : s[i + m].kind = "segment"
  BY <1>1 DEF FrameFresh
<1>3. /\ u[j].size = n /\ u[j].rid = s[i].rid /\ j + n <= Len(u)
      /\ \A m \in 1..n : u[j + m] = s[i + m]
  BY <1>1
<1>4. TableAt(u, j) = TableAt(s, i)
  BY <1>1, <1>3 DEF TableAt
<1> QED
  BY <1>2, <1>3, <1>4

\* Frames taken from the front.
LEMMA FramesTaken ==
  ASSUME NEW s, IsSeq(s), NEW c \in 1..(Len(s) + 1), NEW r, NEW o, FramesFresh(s, r, o)
  PROVE  FramesFresh(SubSeq(s, c, Len(s)), r, o)
<1> DEFINE u == SubSeq(s, c, Len(s))
<1>1. Len(s) \in Nat
  BY DEF IsSeq
<1>2. Len(u) = Len(s) - c + 1 /\ \A i \in 1..(Len(s) - c + 1) : u[i] = s[c + i - 1]
  <2>1. Len(s) \in 0..Len(s) /\ c =< Len(s) + 1
    BY <1>1
  <2> QED
    BY <2>1, SubSeqIsSeq
<1> HIDE DEF u
<1>3. ASSUME NEW j \in 1..Len(u) PROVE FrameFresh(u, j, r, o)
  <2>1. PICK i \in 1..Len(s) : i = c + j - 1
    BY <1>1, <1>2
  <2>2. FrameFresh(s, i, r, o) /\ u[j] = s[i] /\ i \in Nat /\ j \in Nat
    BY <1>2, <2>1 DEF FramesFresh
  <2>3. s[i].kind = "header" => /\ j + s[i].size <= Len(u)
                                /\ \A m \in 1..s[i].size : u[j + m] = s[i + m]
    <3> HAVE s[i].kind = "header"
    <3>1. PICK n \in Nat : n = s[i].size /\ i + n <= Len(s)
      BY <2>2 DEF FrameFresh
    <3>2. j + n <= Len(u)
      <4>1. i + n <= Len(s) /\ Len(u) = Len(s) - c + 1
        BY <1>2, <3>1
      <4>2. PICK l \in Nat, h \in Int : l = Len(s) /\ h = Len(u)
        BY <1>1, <4>1
      <4>3. i + n <= l /\ h = l - c + 1 /\ j \in 1..h /\ c \in 1..(l + 1)
        BY <4>1, <4>2
      <4>4. j + n <= h
        BY <2>1, <4>3
      <4> QED
        BY <4>2, <4>4
    <3>3. ASSUME NEW m \in 1..n PROVE u[j + m] = s[i + m]
      <4>1. j + m \in 1..(Len(s) - c + 1) /\ c + (j + m) - 1 = i + m
        BY <1>1, <1>2, <2>1, <3>2
      <4> QED
        BY <1>2, <4>1
    <3> QED
      BY <3>1, <3>2, <3>3
  <2> QED
    BY <2>2, <2>3, FrameMoved
<1> QED
  BY <1>3 DEF FramesFresh, u

\* A frame added at the end.
LEMMA FramesAdded ==
  ASSUME NEW s, IsSeq(s), NEW f, IsSeq(f), NEW r, NEW o,
         FramesFresh(s, r, o), FramesFresh(f, r, o)
  PROVE  FramesFresh(s \o f, r, o)
<1> DEFINE u == s \o f
<1>1. /\ Len(s) \in Nat /\ Len(f) \in Nat /\ Len(u) = Len(s) + Len(f)
      /\ \A i \in 1..Len(s) : u[i] = s[i]
      /\ \A i \in 1..Len(f) : u[Len(s) + i] = f[i]
  BY ConcatIsSeq
<1> HIDE DEF u
<1>2. ASSUME NEW j \in 1..Len(s) PROVE FrameFresh(u, j, r, o)
  <2>1. FrameFresh(s, j, r, o) /\ u[j] = s[j] /\ j \in Nat
    BY <1>1 DEF FramesFresh
  <2>2. s[j].kind = "header" => /\ j + s[j].size <= Len(u)
                                /\ \A m \in 1..s[j].size : u[j + m] = s[j + m]
    <3> HAVE s[j].kind = "header"
    <3>1. PICK n \in Nat : n = s[j].size /\ j + n <= Len(s)
      BY <2>1 DEF FrameFresh
    <3>2. ASSUME NEW m \in 1..n PROVE u[j + m] = s[j + m]
      BY <1>1, <3>1
    <3> QED
      BY <1>1, <3>1, <3>2
  <2> QED
    BY <2>1, <2>2, FrameMoved
<1>3. ASSUME NEW i \in 1..Len(f) PROVE FrameFresh(u, Len(s) + i, r, o)
  <2>0. PICK j \in Nat : j = Len(s) + i
    BY <1>1
  <2>1. FrameFresh(f, i, r, o) /\ u[j] = f[i] /\ i \in Nat
    BY <1>1, <2>0 DEF FramesFresh
  <2>4. PICK ls \in Nat, lf \in Nat :
            ls = Len(s) /\ lf = Len(f) /\ Len(u) = ls + lf /\ j = ls + i /\ i \in 1..lf
    BY <1>1, <2>0
  <2>5. Len(s) = ls /\ Len(f) = lf
    BY <2>4
  <2>2. f[i].kind = "header" => /\ j + f[i].size <= Len(u)
                                /\ \A m \in 1..f[i].size : u[j + m] = f[i + m]
    <3> HAVE f[i].kind = "header"
    <3>1. PICK n \in Nat : n = f[i].size /\ i + n <= Len(f)
      BY <2>1 DEF FrameFresh
    <3>4. i + n <= lf
      BY <2>4, <3>1
    <3>2. ASSUME NEW m \in 1..n PROVE u[j + m] = f[i + m]
      <4>1. i + m \in 1..Len(f) /\ j + m = Len(s) + (i + m)
        BY <2>0, <2>4, <2>5, <3>4
      <4> QED
        BY <1>1, <4>1
    <3>3. j + n <= Len(u)
      <4>1. j + n <= ls + lf
        BY <2>4, <3>4
      <4> QED
        BY <2>4, <4>1
    <3> QED
      BY <3>1, <3>2, <3>3
  <2>3. FrameFresh(u, j, r, o)
    BY <2>0, <2>1, <2>2, FrameMoved
  <2> QED
    BY <2>0, <2>3
<1>4. ASSUME NEW j \in 1..Len(u) PROVE FrameFresh(u, j, r, o)
  <2>1. j \in 1..Len(s) \/ (j - Len(s) \in 1..Len(f) /\ j = Len(s) + (j - Len(s)))
    BY <1>1
  <2> QED
    BY <1>2, <1>3, <2>1
<1> QED
  BY <1>4 DEF FramesFresh, u

\* Without a ':' in a key the five parts of a segment are read as written.
LEMMA SegmentParsed ==
  ASSUME ColonKeys = {}, NEW t \in Tablet
  PROVE  ParseSegment(Segment(t)) = [id |-> t.id, start_key |-> t.start_key, end_key |-> t.end_key,
                                     node_id |-> t.node_id, key_count |-> 0]
<1>0. t.id \in Nat /\ t.start_key \in Nat /\ t.end_key \in Nat /\ t.node_id \in Nat
  BY MaxKeyAssumption, TableAssumption DEF Tablet, Bound, Key, Empty, DataNode
<1>1. PICK a \in Nat, b \in Nat, c \in Nat, d \in Nat :
          a = t.id /\ b = t.start_key /\ c = t.end_key /\ d = t.node_id
  BY <1>0
<1>2. Segment(t) = ((<<a>> \o <<b>>) \o <<c>>) \o <<0, d>>
  BY <1>1 DEF Segment, Text
<1>3. PICK u, v, w, g : u = <<a>> /\ v = <<b>> /\ w = <<c>> /\ g = <<0, d>>
  OBVIOUS
<1>4. /\ IsSeq(u) /\ Len(u) = 1 /\ u[1] = a
      /\ IsSeq(v) /\ Len(v) = 1 /\ v[1] = b
      /\ IsSeq(w) /\ Len(w) = 1 /\ w[1] = c
      /\ IsSeq(g) /\ Len(g) = 2 /\ g[2] = d
  <2>1. u \in Seq(Nat) /\ v \in Seq(Nat) /\ w \in Seq(Nat) /\ g \in Seq(Nat)
    BY <1>3
  <2>2. IsSeq(u) /\ IsSeq(v) /\ IsSeq(w) /\ IsSeq(g)
    BY <2>1, SeqIsSeq
  <2> QED
    BY <1>3, <2>2
<1>5. PICK x : x = u \o v
  OBVIOUS
<1>6. IsSeq(x) /\ Len(x) = 2 /\ x[1] = a /\ x[2] = b
  <2>1. IsSeq(u) /\ IsSeq(v)
    BY <1>4
  <2>2. /\ IsSeq(u \o v) /\ Len(u \o v) = Len(u) + Len(v)
        /\ \A i \in 1..Len(u) : (u \o v)[i] = u[i]
        /\ \A i \in 1..Len(v) : (u \o v)[Len(u) + i] = v[i]
    BY <2>1, ConcatIsSeq
  <2>3. /\ IsSeq(x) /\ Len(x) = 1 + 1
        /\ \A i \in 1..1 : x[i] = u[i]
        /\ x[1 + 1] = v[1]
    BY <1>5, <1>4, <2>2
  <2> QED
    BY <1>4, <2>3
<1>7. PICK y : y = x \o w
  OBVIOUS
<1>8. IsSeq(y) /\ Len(y) = 3 /\ y[1] = a /\ y[2] = b /\ y[3] = c
  <2>1. IsSeq(x) /\ IsSeq(w)
    BY <1>4, <1>6
  <2>2. /\ IsSeq(x \o w) /\ Len(x \o w) = Len(x) + Len(w)
        /\ \A i \in 1..Len(x) : (x \o w)[i] = x[i]
        /\ \A i \in 1..Len(w) : (x \o w)[Len(x) + i] = w[i]
    BY <2>1, ConcatIsSeq
  <2>3. /\ IsSeq(y) /\ Len(y) = 2 + 1
        /\ \A i \in 1..2 : y[i] = x[i]
        /\ y[2 + 1] = w[1]
    BY <1>7, <1>4, <1>6, <2>2
  <2> QED
    BY <1>4, <1>6, <2>3
<1>9. PICK z : z = y \o g
  OBVIOUS
<1>10. z[1] = a /\ z[2] = b /\ z[3] = c /\ z[5] = d
  <2>1. IsSeq(y) /\ IsSeq(g)
    BY <1>4, <1>8
  <2>2. /\ IsSeq(y \o g) /\ Len(y \o g) = Len(y) + Len(g)
        /\ \A i \in 1..Len(y) : (y \o g)[i] = y[i]
        /\ \A i \in 1..Len(g) : (y \o g)[Len(y) + i] = g[i]
    BY <2>1, ConcatIsSeq
  <2>3. /\ IsSeq(z) /\ Len(z) = 3 + 2
        /\ \A i \in 1..3 : z[i] = y[i]
        /\ z[3 + 2] = g[2]
    BY <1>9, <1>4, <1>8, <2>2
  <2> QED
    BY <1>4, <1>8, <2>3
<1>11. Segment(t) = z
  BY <1>2, <1>3, <1>5, <1>7, <1>9
<1> QED
  BY <1>1, <1>10, <1>11 DEF ParseSegment

-----------------------------------------------------------------------------
(* The invariant of fresh replies.                                         *)

\* What the next state has to satisfy.
LEMMA FreshNextState ==
  ASSUME NEW x, IsSeq(x), peer' = "open" => x = <<>>,
         cpc' # "prompt" => rid' >= 1,
         requests' \in Seq(1..rid'),
         reader' # Idle => half' = NoHalf /\ WorkerFresh(reader', tablets', rid', owners'),
         FramesFresh(Stream' \o x, rid', owners'),
         fetched' # <<>> => GoodTable(fetched', owners')
  PROVE  FreshInv'
<1>1. IsSeq(x)' /\ (peer = "open" => x = <<>>)' /\ FramesFresh(Stream \o x, rid, owners)'
  BY Zenon DEF FramesFresh, FrameFresh, GoodTable, TableAt, FreshTable, IsPartition, NonEmptyRanges,
         Ordered, Covering, IsSeq, ToSet, ParseSegment, InRange
<1>2. (\E rest : /\ IsSeq(rest)
                 /\ peer = "open" => rest = <<>>
                 /\ FramesFresh(Stream \o rest, rid, owners))'
  BY <1>1, Zenon
<1> QED
  BY <1>2, Zenon DEF FreshInv, WorkerFresh, SegmentFresh, GoodTable, TableAt, FreshTable,
         IsPartition, NonEmptyRanges, Ordered, Covering, IsSeq, ToSet, ParseSegment, Idle, NoHalf, InRange

\* Nothing is under way at first.
LEMMA FreshInvInit == FetchInit => FreshInv
<1> SUFFICES ASSUME FetchInit PROVE FreshInv
  OBVIOUS
<1>1. /\ buf = <<>> /\ wire = <<>> /\ requests = <<>> /\ reader = Idle /\ rid = 0
      /\ cpc = "prompt" /\ fetched = <<>>
  BY DEF FetchInit
<1>2. Stream = <<>>
  BY <1>1 DEF Stream
<1>3. Stream \o <<>> = <<>>
  BY <1>2, EmptyIsSeq, ConcatIsSeq
<1>4. PICK e : e = <<>>
  OBVIOUS
<1>5. IsSeq(e) /\ FramesFresh(Stream \o e, rid, owners)
  BY <1>3, <1>4, EmptyIsSeq DEF FramesFresh
<1>6. requests \in Seq(1..rid)
  BY <1>1
<1> QED
  BY <1>1, <1>4, <1>5, <1>6, Zenon DEF FreshInv

\* Steps that leave requests, replies, tables and owners alone.
LEMMA FreshKeep ==
  ASSUME FreshInv, UNCHANGED <<rid, owners, reader, tablets, half, fetched, requests>>,
         Stream' = Stream, cpc' # "prompt" => cpc # "prompt", peer' = "open" => peer = "open"
  PROVE  FreshInv'
<1>0. PICK x : IsSeq(x) /\ (peer = "open" => x = <<>>) /\ FramesFresh(Stream \o x, rid, owners)
  BY DEF FreshInv
<1>1. PICK s, r, o, w, ts, f :
          /\ s = Stream \o x /\ r = rid /\ o = owners /\ w = reader /\ ts = tablets /\ f = fetched
  OBVIOUS
<1>2. /\ s = Stream' \o x /\ r = rid' /\ o = owners' /\ w = reader' /\ ts = tablets' /\ f = fetched'
  BY <1>1
<1>3. /\ w # Idle => half = NoHalf /\ WorkerFresh(w, ts, r, o)
      /\ FramesFresh(s, r, o)
      /\ f # <<>> => GoodTable(f, o)
      /\ cpc # "prompt" => r >= 1
      /\ requests \in Seq(1..r)
  BY <1>0, <1>1 DEF FreshInv
<1>4. /\ reader' # Idle => half' = NoHalf /\ WorkerFresh(reader', tablets', rid', owners')
      /\ FramesFresh(Stream' \o x, rid', owners')
      /\ fetched' # <<>> => GoodTable(fetched', owners')
      /\ cpc' # "prompt" => rid' >= 1
      /\ requests' \in Seq(1..rid')
  BY <1>2, <1>3
<1> QED
  BY <1>0, <1>4, FreshNextState

\* A command begins: what is under way answers an earlier one.
LEMMA CommandFresh ==
  ASSUME FreshInv, TablesInv, Command PROVE FreshInv'
<1>0. PICK x : IsSeq(x) /\ (peer = "open" => x = <<>>) /\ FramesFresh(Stream \o x, rid, owners)
  BY DEF FreshInv
<1>1. PICK s, r, o, q, w, ts :
          /\ s = Stream \o x /\ r = rid /\ o = owners /\ q = owners' /\ w = reader /\ ts = tablets
  OBVIOUS
<1>2. /\ s = Stream' \o x /\ r + 1 = rid' /\ w = reader' /\ ts = tablets' /\ peer' = peer
      /\ half' = half /\ fetched' = <<>> /\ requests' = requests /\ r \in Nat
  BY <1>1 DEF Command, masterVars, connVars, Stream, TablesInv
<1>3. /\ w # Idle => half = NoHalf /\ WorkerFresh(w, ts, r, o)
      /\ FramesFresh(s, r, o)
      /\ requests \in Seq(1..r)
  BY <1>0, <1>1 DEF FreshInv
<1>4. FramesFresh(s, r + 1, q)
  BY <1>2, <1>3, FramesOlder
<1>5. w # Idle => WorkerFresh(w, ts, r + 1, q)
  <2> HAVE w # Idle
  <2>1. WorkerFresh(w, ts, r, o)
    BY <1>3
  <2>2. w.rid \in 1..(r + 1) /\ w.rid # r + 1
    BY <1>2, <2>1 DEF WorkerFresh
  <2> QED
    BY <2>1, <2>2 DEF WorkerFresh
<1>6. requests' \in Seq(1..(r + 1)) /\ r + 1 >= 1
  BY <1>2, <1>3
<1>7. /\ reader' # Idle => half' = NoHalf /\ WorkerFresh(reader', tablets', rid', owners')
      /\ FramesFresh(Stream' \o x, rid', owners')
      /\ fetched' # <<>> => GoodTable(fetched', owners')
      /\ cpc' # "prompt" => rid' >= 1
      /\ requests' \in Seq(1..rid')
  BY <1>1, <1>2, <1>3, <1>4, <1>5, <1>6
<1> QED
  BY <1>0, <1>2, <1>7, FreshNextState

\* A new connection carries nothing, and a crash loses the worker.
LEMMA ResetFresh ==
  ASSUME FreshInv, reader' = Idle, requests' = <<>>,
         NEW x, IsSeq(x), peer' = "open" => x = <<>>, FramesFresh(Stream' \o x, rid, owners),
         UNCHANGED <<rid, owners, fetched>>, cpc' # "prompt" => cpc # "prompt"
  PROVE  FreshInv'
<1>1. PICK s, r, o, f : s = Stream' \o x /\ r = rid /\ o = owners /\ f = fetched
  OBVIOUS
<1>2. r = rid' /\ o = owners' /\ f = fetched'
  BY <1>1
<1>3. /\ FramesFresh(s, r, o)
      /\ f # <<>> => GoodTable(f, o)
      /\ cpc # "prompt" => r >= 1
  BY <1>1 DEF FreshInv
<1>5. /\ reader' # Idle => half' = NoHalf /\ WorkerFresh(reader', tablets', rid', owners')
      /\ FramesFresh(Stream' \o x, rid', owners')
      /\ fetched' # <<>> => GoodTable(fetched', owners')
      /\ cpc' # "prompt" => rid' >= 1
      /\ requests' \in Seq(1..rid')
  BY <1>1, <1>2, <1>3
<1> QED
  BY <1>5, FreshNextState

\* The client's steps before the reply is taken.
LEMMA ClientFresh ==
  ASSUME FreshInv, StreamInv, TablesInv,
         Connect \/ Send \/ SendFails \/ SendKills \/ Recv \/ RecvFails \/ RecvTimeout,
         ~torn'
  PROVE  FreshInv'
<1> USE DEF masterVars, connVars, clientVars
<1>0. PICK x : IsSeq(x) /\ (peer = "open" => x = <<>>) /\ FramesFresh(Stream \o x, rid, owners)
  BY DEF FreshInv
<1>1. CASE Connect
  <2>1. /\ cpc = "connect" /\ buf' = buf /\ wire' = <<>> /\ reader' = Idle /\ requests' = <<>>
        /\ UNCHANGED <<rid, owners, fetched>>
    BY <1>1 DEF Connect
  <2>2. buf = <<>>
    BY <1>1, Zenon DEF Connect
  <2>5. buf' = <<>> /\ Stream' = <<>>
    BY <2>1, <2>2 DEF Stream
  <2>3. Stream' \o <<>> = <<>>
    BY <2>5, EmptyIsSeq, ConcatIsSeq
  <2>4. FramesFresh(Stream' \o <<>>, rid, owners)
    BY <2>3 DEF FramesFresh
  <2> QED
    BY <2>1, <2>4, EmptyIsSeq, ResetFresh
<1>2. CASE Send
  <2>1. PICK s, r, o, w, ts, f :
            /\ s = Stream \o x /\ r = rid /\ o = owners /\ w = reader /\ ts = tablets /\ f = fetched
    OBVIOUS
  <2>2. /\ s = Stream' \o x /\ r = rid' /\ o = owners' /\ w = reader' /\ ts = tablets' /\ f = fetched'
        /\ half' = half /\ requests' = (IF peer = "open" THEN Append(requests, r) ELSE requests)
        /\ cpc # "prompt" /\ r \in Nat /\ (peer' = "open" => peer = "open")
    BY <1>2, <2>1 DEF Send, Stream, TablesInv
  <2>3. /\ w # Idle => half = NoHalf /\ WorkerFresh(w, ts, r, o)
        /\ FramesFresh(s, r, o)
        /\ f # <<>> => GoodTable(f, o)
        /\ r >= 1 /\ requests \in Seq(1..r)
    BY <1>0, <2>1, <2>2 DEF FreshInv
  <2>4. requests' \in Seq(1..r)
    <3>1. PICK R : R = 1..r
      OBVIOUS
    <3>2. r \in R /\ requests \in Seq(R)
      BY <2>2, <2>3, <3>1
    <3>3. Append(requests, r) \in Seq(R)
      BY <3>2
    <3> QED
      BY <2>2, <3>1, <3>2, <3>3
  <2>5. /\ reader' # Idle => half' = NoHalf /\ WorkerFresh(reader', tablets', rid', owners')
        /\ FramesFresh(Stream' \o x, rid', owners')
        /\ fetched' # <<>> => GoodTable(fetched', owners')
        /\ cpc' # "prompt" => rid' >= 1
        /\ requests' \in Seq(1..rid')
    BY <2>2, <2>3, <2>4
  <2> QED
    BY <1>0, <2>2, <2>5, FreshNextState
<1>3. CASE Recv
  <2>1. PICK b, w : b = buf /\ w = wire
    OBVIOUS
  <2>2. IsSeq(b) /\ IsSeq(w)
    BY <2>1 DEF StreamInv
  <2>3. PICK k \in 1..Len(w) : buf' = b \o SubSeq(w, 1, k) /\ wire' = SubSeq(w, k + 1, Len(w))
    <3>1. DOMAIN w = 1..Len(w)
      BY <2>2 DEF IsSeq
    <3> QED
      BY <1>3, <2>1, <3>1 DEF Recv
  <2>4. (b \o SubSeq(w, 1, k)) \o SubSeq(w, k + 1, Len(w)) = b \o w
    <3>1. k \in 0..Len(w)
      OBVIOUS
    <3> QED
      BY <2>2, <3>1, MoveCells
  <2>5. Stream' = Stream
    BY <2>1, <2>3, <2>4 DEF Stream
  <2>6. UNCHANGED <<rid, owners, reader, tablets, half, fetched, requests, cpc, peer>>
    BY <1>3 DEF Recv
  <2> QED
    BY <2>5, <2>6, FreshKeep
<1>4. CASE SendFails \/ SendKills \/ RecvFails \/ RecvTimeout
  <2>1. /\ UNCHANGED <<rid, owners, reader, tablets, half, fetched, requests, buf, wire>>
        /\ cpc # "prompt" /\ (peer' = "open" => peer = "open")
    BY <1>4 DEF SendFails, SendKills, RecvFails, RecvTimeout
  <2>2. Stream' = Stream
    BY <2>1 DEF Stream
  <2> QED
    BY <2>1, <2>2, FreshKeep
<1> QED
  BY <1>1, <1>2, <1>3, <1>4

\* The reply is taken: the client sorts a table that is in order.
LEMMA TakeFresh ==
  ASSUME FreshInv, StreamInv, TakeReply PROVE FreshInv'
<1> USE DEF masterVars, connVars, clientVars
<1>0. PICK x : IsSeq(x) /\ (peer = "open" => x = <<>>) /\ FramesFresh(Stream \o x, rid, owners)
  BY DEF FreshInv
<1>1. PICK d, v, s, r, o, w, ts, k :
          /\ d = buf /\ v = wire \o x /\ s = Stream \o x /\ r = rid /\ o = owners
          /\ w = reader /\ ts = tablets /\ k = d[1].size
  OBVIOUS
<1>2. /\ wire' = wire /\ peer' = peer /\ r = rid' /\ o = owners' /\ w = reader' /\ ts = tablets'
      /\ half' = half /\ requests' = requests /\ cpc' = "prompt"
      /\ FrameComplete /\ buf' = TakenFrom(k + 1)
      /\ IF Answers(d[1].rid) THEN fetched' \in ParseBody(SubSeq(d, 2, k + 1)) ELSE fetched' = <<>>
  BY <1>1, Zenon DEF TakeReply
<1>3. /\ w # Idle => half = NoHalf /\ WorkerFresh(w, ts, r, o)
      /\ FramesFresh(s, r, o)
      /\ requests \in Seq(1..r)
  BY <1>0, <1>1 DEF FreshInv
<1>4. IsSeq(d) /\ IsSeq(v) /\ s = d \o v
  BY <1>0, <1>1, UnderWay
<1>5. /\ IsSeq(d \o v) /\ Len(d) \in Nat /\ Len(v) \in Nat
      /\ Len(d \o v) = Len(d) + Len(v)
      /\ \A i \in 1..Len(d) : (d \o v)[i] = d[i]
  BY <1>4, ConcatIsSeq
<1>6. Len(d) >= 1 /\ d[1].kind = "header" /\ Len(d) > k
  <2>1. d # <<>> /\ d[1].kind = "header" /\ Len(d) > k
    BY <1>1, <1>2 DEF FrameComplete
  <2> QED
    BY <1>4, <2>1 DEF IsSeq
<1>7. IsSeq(s) /\ Len(s) >= Len(d) /\ \A i \in 1..Len(d) : s[i] = d[i]
  BY <1>4, <1>5
<1>8. s[1] = d[1] /\ FrameFresh(s, 1, r, o)
  <2>1. 1 \in 1..Len(d) /\ 1 \in 1..Len(s)
    BY <1>5, <1>6, <1>7 DEF IsSeq
  <2> QED
    BY <1>3, <1>7, <2>1 DEF FramesFresh
<1>9. /\ k \in Nat
      /\ d[1].rid = r => /\ GoodTable(TableAt(s, 1), o)
                         /\ \A j \in 1..k : s[1 + j].kind = "segment"
  BY <1>1, <1>6, <1>8 DEF FrameFresh
<1>10. FramesFresh(Stream' \o x, r, o)
  <2>1. k + 2 \in 1..(Len(d) + 1)
    BY <1>5, <1>6, <1>9
  <2>2. /\ IsSeq(SubSeq(d, k + 2, Len(d)))
        /\ SubSeq(d, k + 2, Len(d)) \o v = SubSeq(s, k + 2, Len(s))
    BY <1>4, <2>1, CutStream
  <2>3. buf' = SubSeq(d, k + 2, Len(d))
    <3>1. buf' = SubSeq(d, (k + 1) + 1, Len(d)) /\ (k + 1) + 1 = k + 2
      BY <1>1, <1>2, <1>9 DEF TakenFrom
    <3> QED
      BY <3>1
  <2>4. Stream' \o x = SubSeq(s, k + 2, Len(s))
    <3>1. PICK e, y : e = buf' /\ y = wire
      OBVIOUS
    <3>2. IsSeq(e) /\ IsSeq(y) /\ IsSeq(x)
      BY <1>0, <2>2, <2>3, <3>1 DEF StreamInv
    <3>3. e \o (y \o x) = (e \o y) \o x
      BY <3>2, ConcatAssoc
    <3> QED
      BY <1>1, <1>2, <2>2, <2>3, <3>1, <3>3 DEF Stream
  <2>5. k + 2 \in 1..(Len(s) + 1)
    <3>1. Len(s) \in Nat
      BY <1>7 DEF IsSeq
    <3> QED
      BY <1>5, <1>7, <2>1, <3>1
  <2>6. FramesFresh(SubSeq(s, k + 2, Len(s)), r, o)
    BY <1>3, <1>7, <2>5, FramesTaken
  <2> QED
    BY <2>4, <2>6
<1>11. ASSUME fetched' # <<>> PROVE GoodTable(fetched', o)
  <2>1. d[1].rid = r /\ fetched' \in ParseBody(SubSeq(d, 2, k + 1))
    BY <1>1, <1>2, <1>11 DEF Answers
  <2>2. PICK c, us, f : c = SubSeq(d, 2, k + 1) /\ us = TableAt(s, 1) /\ f = fetched'
    OBVIOUS
  <2>3. IsSeq(c) /\ Len(c) = k /\ \A i \in 1..k : c[i] = s[1 + i]
    <3>1. 2 \in 1..(Len(d) + 1) /\ k + 1 \in 0..Len(d) /\ 2 =< (k + 1) + 1 /\ (k + 1) - 2 + 1 = k
      BY <1>5, <1>6, <1>9
    <3>2. IsSeq(c) /\ Len(c) = (k + 1) - 2 + 1
          /\ \A i \in 1..((k + 1) - 2 + 1) : c[i] = d[2 + i - 1]
      BY <1>4, <2>2, <3>1, SubSeqIsSeq
    <3>3. ASSUME NEW i \in 1..k PROVE c[i] = s[1 + i]
      <4>1. 2 + i - 1 = 1 + i /\ 1 + i \in 1..Len(d)
        BY <1>9, <3>1
      <4> QED
        BY <1>7, <3>1, <3>2, <4>1
    <3> QED
      BY <3>1, <3>2, <3>3
  <2>4. \A i \in 1..k : c[i].kind = "segment"
    BY <1>9, <2>1, <2>3
  <2>5. us = [i \in 1..k |-> ParseSegment(c[i].parts)]
    <3>1. us = [i \in 1..k |-> ParseSegment(s[1 + i].parts)]
      BY <1>1, <1>8, <2>2 DEF TableAt
    <3> QED
      BY <2>3, <3>1
  <2>6. GoodTable(us, o)
    BY <1>9, <2>1, <2>2
  <2>7. us \in Seq(Tablet) /\ IsPartition(us)
    BY <2>6 DEF GoodTable
  <2>8. f \in ParseBody(c)
    BY <2>1, <2>2
  <2>9. f = us
    BY <1>9, <2>3, <2>4, <2>5, <2>7, <2>8, ParseGood, Zenon
  <2> QED
    BY <2>2, <2>6, <2>9
<1>12. /\ reader' # Idle => half' = NoHalf /\ WorkerFresh(reader', tablets', rid', owners')
       /\ FramesFresh(Stream' \o x, rid', owners')
       /\ fetched' # <<>> => GoodTable(fetched', owners')
       /\ cpc' # "prompt" => rid' >= 1
       /\ requests' \in Seq(1..rid')
  BY <1>2, <1>3, <1>10, <1>11
<1> QED
  BY <1>0, <1>2, <1>12, FreshNextState

\* An entry read from the table is as fresh as the table.
LEMMA ReadFresh ==
  ASSUME ColonKeys = {}, NEW ts \in Seq(Tablet), NEW i \in DOMAIN ts, NEW o, FreshTable(ts, o)
  PROVE  SegmentFresh(Segment(ts[i]), ts[i], o)
<1>1. PICK t \in Tablet : t = ts[i]
  OBVIOUS
<1>2. PICK p : p = ParseSegment(Segment(t))
  OBVIOUS
<1>3. p = [id |-> t.id, start_key |-> t.start_key, end_key |-> t.end_key,
           node_id |-> t.node_id, key_count |-> 0]
  BY <1>2, SegmentParsed
<1>4. p \in Tablet
  BY <1>3 DEF Tablet
<1>5. \A k \in Key : InRange(k, t.start_key, t.end_key) => t.node_id \in o[k]
  BY <1>1 DEF FreshTable
<1> QED
  BY <1>1, <1>2, <1>3, <1>4, <1>5 DEF SegmentFresh

\* A finished walk has copied a good table, though it may be no table the
\* Master ever had.
LEMMA WalkGood ==
  ASSUME NEW ts \in Seq(Tablet), IsPartition(ts), NEW o, NEW body, IsSeq(body),
         Len(body) = Len(ts),
         \A i \in 1..Len(body) : SegmentFresh(body[i], ts[i], o)
  PROVE  GoodTable([i \in 1..Len(body) |-> ParseSegment(body[i])], o)
<1>1. PICK n \in Nat : n = Len(ts) /\ n = Len(body)
  OBVIOUS
<1>2. PICK us : us = [i \in 1..n |-> ParseSegment(body[i])]
  OBVIOUS
<1>3. DOMAIN us = 1..n /\ DOMAIN ts = 1..n
  BY <1>1, <1>2
<1>4. ASSUME NEW i \in 1..n
      PROVE  /\ us[i] \in Tablet
             /\ us[i].id = ts[i].id
             /\ us[i].start_key = ts[i].start_key /\ us[i].end_key = ts[i].end_key
             /\ \A k \in Key : InRange(k, us[i].start_key, us[i].end_key) => us[i].node_id \in o[k]
  <2>1. SegmentFresh(body[i], ts[i], o) /\ us[i] = ParseSegment(body[i])
    BY <1>1, <1>2
  <2> QED
    BY <2>1 DEF SegmentFresh
<1>5. us \in Seq(Tablet)
  <2>1. us \in [1..n -> Tablet]
    BY <1>2, <1>4
  <2> QED
    BY <2>1
<1>6. IsPartition(us)
  BY <1>3, <1>4, SameRanges
<1>7. FreshTable(us, o)
  BY <1>3, <1>4 DEF FreshTable
<1>8. GoodTable(us, o)
  BY <1>5, <1>6, <1>7 DEF GoodTable
<1> QED
  BY <1>1, <1>2, <1>8

\* The reply the worker sends.
LEMMA ReplyFresh ==
  ASSUME NEW id, NEW body, IsSeq(body), NEW r, NEW o, id \in 1..r,
         id = r => GoodTable([i \in 1..Len(body) |-> ParseSegment(body[i])], o)
  PROVE  FramesFresh(Frame(id, body), r, o)
<1>1. PICK n, f : n = Len(body) /\ f = Frame(id, body)
  OBVIOUS
<1>2. /\ n \in Nat /\ IsSeq(f) /\ Len(f) = n + 1
      /\ f[1] = [kind |-> "header", rid |-> id, size |-> n]
      /\ \A i \in 1..n : f[i + 1] = [kind |-> "segment", parts |-> body[i]]
  BY <1>1, FrameCells
<1>3. ASSUME NEW i \in 1..Len(f), i # 1 PROVE f[i].kind = "segment"
  <2>1. i - 1 \in 1..n /\ (i - 1) + 1 = i
    BY <1>2, <1>3
  <2>2. f[(i - 1) + 1] = [kind |-> "segment", parts |-> body[i - 1]]
    BY <1>2, <2>1
  <2> QED
    BY <2>1, <2>2
<1>4. f[1].kind = "header" /\ f[1].rid = id /\ f[1].size = n
  BY <1>2
<1>5. \A j \in 1..n : f[1 + j].kind = "segment" /\ f[1 + j].parts = body[j]
  <2>1. ASSUME NEW j \in 1..n PROVE f[1 + j].kind = "segment" /\ f[1 + j].parts = body[j]
    <3>1. PICK i : i = j + 1 /\ i = 1 + j
      BY <1>2
    <3>2. f[i] = [kind |-> "segment", parts |-> body[j]]
      BY <1>2, <3>1
    <3>3. f[i].kind = "segment" /\ f[i].parts = body[j]
      BY <3>2
    <3> QED
      BY <3>1, <3>3
  <2> QED
    BY <2>1
<1>6. TableAt(f, 1) = [i \in 1..n |-> ParseSegment(body[i])]
  BY <1>4, <1>5 DEF TableAt
<1>7. FrameFresh(f, 1, r, o)
  <2>1. 1 + n <= Len(f)
    BY <1>2
  <2> QED
    BY <1>1, <1>2, <1>4, <1>5, <1>6, <2>1 DEF FrameFresh
<1>8. ASSUME NEW i \in 1..Len(f) PROVE FrameFresh(f, i, r, o)
  BY <1>3, <1>7 DEF FrameFresh
<1> QED
  BY <1>1, <1>8 DEF FramesFresh

\* The worker's steps.
LEMMA WorkerFreshStep ==
  ASSUME ~SplitsRace, ColonKeys = {}, FreshInv, TablesInv, StreamInv, Worker PROVE FreshInv'
<1> USE DEF masterVars, connVars, clientVars
<1>0. PICK x : IsSeq(x) /\ (peer = "open" => x = <<>>) /\ FramesFresh(Stream \o x, rid, owners)
  BY DEF FreshInv
<1>1. PICK s, r, o, w, ts, f, q :
          /\ s = Stream \o x /\ r = rid /\ o = owners /\ w = reader /\ ts = tablets /\ f = fetched
          /\ q = requests
  OBVIOUS
<1>2. /\ r = rid' /\ o = owners' /\ ts = tablets' /\ f = fetched' /\ half' = half /\ cpc' = cpc
      /\ buf' = buf /\ peer' = peer
  BY <1>1 DEF Worker, ShardsBegin, ShardsRead, ShardsReply
<1>3. /\ w # Idle => half = NoHalf /\ WorkerFresh(w, ts, r, o)
      /\ FramesFresh(s, r, o)
      /\ f # <<>> => GoodTable(f, o)
      /\ cpc # "prompt" => r >= 1
      /\ q \in Seq(1..r)
      /\ r \in Nat
  BY <1>0, <1>1 DEF FreshInv, TablesInv
<1>4. half = NoHalf => ts \in Seq(Tablet) /\ IsPartition(ts) /\ (r > 0 => FreshTable(ts, o))
  BY <1>1, NoHalfSaved DEF TablesInv
<1>5. Len(ts) \in Nat
  BY <1>1, TabletsNotEmpty
<1>6. CASE ShardsBegin
  <2>1. /\ half = NoHalf /\ q # <<>> /\ requests' = Tail(q) /\ wire' = wire
        /\ reader' = [rid |-> Head(q), size |-> Len(ts), body |-> <<>>, freed |-> <<>>]
    BY <1>1, <1>6 DEF ShardsBegin
  <2>2. PICK id \in 1..r : id = Head(q)
    BY <1>3, <2>1
  <2>3. PICK v : v = [rid |-> id, size |-> Len(ts), body |-> <<>>, freed |-> <<>>]
    OBVIOUS
  <2>4. v.rid = id /\ v.body = <<>> /\ v = reader'
    BY <2>1, <2>2, <2>3
  <2>5. WorkerFresh(v, ts, r, o)
    <3>1. v = [rid |-> v.rid, size |-> Len(ts), body |-> v.body, freed |-> <<>>]
      BY <2>3
    <3>2. IsSeq(v.body) /\ Len(v.body) = 0
      BY <2>4, EmptyIsSeq
    <3>3. \A i \in 1..Len(v.body) : SegmentFresh(v.body[i], ts[i], o)
      BY <3>2
    <3> QED
      BY <1>5, <2>4, <3>1, <3>2, <3>3 DEF WorkerFresh
  <2>6. Stream' \o x = s /\ requests' \in Seq(1..r)
    BY <1>1, <1>2, <1>3, <2>1 DEF Stream
  <2>7. /\ reader' # Idle => half' = NoHalf /\ WorkerFresh(reader', tablets', rid', owners')
        /\ FramesFresh(Stream' \o x, rid', owners')
        /\ fetched' # <<>> => GoodTable(fetched', owners')
        /\ cpc' # "prompt" => rid' >= 1
        /\ requests' \in Seq(1..rid')
    BY <1>2, <1>3, <2>1, <2>4, <2>5, <2>6
  <2> QED
    BY <1>0, <1>2, <2>7, FreshNextState
<1>7. CASE ShardsRead \/ ShardsReply
  <2>1. w # Idle /\ half = NoHalf /\ requests' = q
    BY <1>1, <1>3, <1>7 DEF ShardsRead, ShardsReply
  <2>2. PICK id, body :
            /\ w = [rid |-> id, size |-> Len(ts), body |-> body, freed |-> <<>>]
            /\ IsSeq(body) /\ Len(body) <= Len(ts)
            /\ id \in 1..r
            /\ id = r => \A i \in 1..Len(body) : SegmentFresh(body[i], ts[i], o)
    BY <1>3, <2>1 DEF WorkerFresh
  <2>3. w.rid = id /\ w.size = Len(ts) /\ w.body = body /\ w.freed = <<>>
    BY <2>2
  <2>4. ts \in Seq(Tablet) /\ IsPartition(ts) /\ FreshTable(ts, o)
    BY <1>3, <1>4, <2>1, <2>2
  <2>5. CASE ShardsRead
    <3>1. PICK n : n = Len(body)
      OBVIOUS
    <3>2. n \in Nat /\ n < Len(ts) /\ wire' = wire
      BY <1>1, <2>2, <2>3, <2>5, <3>1 DEF ShardsRead, IsSeq
    <3>3. reader' = [w EXCEPT !.body = Append(body, Segment(ts[n + 1]))]
      BY <1>1, <2>3, <2>5, <3>1 DEF ShardsRead, ReadOutcomes
    <3>4. PICK e, c : e = Segment(ts[n + 1]) /\ c = Append(body, e)
      OBVIOUS
    <3>5. n + 1 \in DOMAIN ts /\ SegmentFresh(e, ts[n + 1], o)
      <4>1. n + 1 \in DOMAIN ts
        BY <1>5, <2>4, <3>2
      <4> QED
        BY <2>4, <3>4, <4>1, ReadFresh
    <3>6. IsSeq(c) /\ Len(c) = n + 1
      BY <2>2, <3>1, <3>4, AppendIsSeq
    <3>7. (\A i \in 1..n : c[i] = body[i]) /\ c[n + 1] = e
      <4>1. PICK S : body \in Seq(S) /\ e \in S
        <5>1. body \in Seq(ToSet(body) \cup {e})
          BY <2>2 DEF IsSeq
        <5> QED
          BY <5>1
      <4> QED
        BY <3>1, <3>4, <4>1
    <3>8. PICK v : v = [rid |-> id, size |-> Len(ts), body |-> c, freed |-> <<>>]
      OBVIOUS
    <3>9. v = reader' /\ v.rid = id /\ v.body = c
      BY <2>2, <3>3, <3>4, <3>8
    <3>10. id = r => \A i \in 1..(n + 1) : SegmentFresh(c[i], ts[i], o)
      <4> HAVE id = r
      <4>1. ASSUME NEW i \in 1..(n + 1) PROVE SegmentFresh(c[i], ts[i], o)
        <5>1. CASE i = n + 1
          BY <3>5, <3>7, <5>1
        <5>2. CASE i \in 1..n
          BY <2>2, <3>1, <3>7, <5>2
        <5> QED
          BY <3>2, <5>1, <5>2
      <4> QED
        BY <4>1
    <3>11. WorkerFresh(v, ts, r, o)
      <4>1. v = [rid |-> v.rid, size |-> Len(ts), body |-> v.body, freed |-> <<>>]
        BY <3>8
      <4>2. Len(c) <= Len(ts)
        BY <1>5, <3>2, <3>6
      <4> QED
        BY <2>2, <3>6, <3>9, <3>10, <4>1, <4>2 DEF WorkerFresh
    <3>12. Stream' \o x = s
      BY <1>1, <1>2, <3>2 DEF Stream
    <3>13. /\ reader' # Idle => half' = NoHalf /\ WorkerFresh(reader', tablets', rid', owners')
           /\ FramesFresh(Stream' \o x, rid', owners')
           /\ fetched' # <<>> => GoodTable(fetched', owners')
           /\ cpc' # "prompt" => rid' >= 1
           /\ requests' \in Seq(1..rid')
      BY <1>2, <1>3, <2>1, <3>9, <3>11, <3>12
    <3> QED
      BY <1>0, <1>2, <3>13, FreshNextState
  <2>6. CASE ShardsReply
    <3>1. Len(body) = Len(ts) /\ wire' = wire \o Frame(id, body) /\ reader' = Idle
      BY <1>1, <2>3, <2>6 DEF ShardsReply
    <3>2. id = r => GoodTable([i \in 1..Len(body) |-> ParseSegment(body[i])], o)
      BY <2>2, <2>4, <3>1, WalkGood
    <3>3. PICK g, b, v : g = Frame(id, body) /\ b = buf /\ v = wire
      OBVIOUS
    <3>4. FramesFresh(g, r, o)
      BY <2>2, <3>2, <3>3, ReplyFresh
    <3>5. IsSeq(g) /\ IsSeq(b) /\ IsSeq(v)
      BY <2>2, <3>3, FrameIsWhole DEF StreamInv
    <3>6. IsSeq(b \o v) /\ b \o (v \o g) = (b \o v) \o g
      <4>1. IsSeq(b \o v)
        BY <3>5, ConcatIsSeq
      <4> QED
        BY <3>5, <4>1, ConcatAssoc
    <3>7. s = Stream /\ x = <<>> /\ IsSeq(s)
      <4>1. x = <<>>
        BY <1>0, <1>1, <2>1 DEF StreamInv
      <4>2. PICK y : y = b \o v
        OBVIOUS
      <4>3. y \o x = y
        BY <1>0, <3>6, <4>1, <4>2, ConcatIsSeq
      <4> QED
        BY <1>1, <3>3, <3>6, <4>1, <4>2, <4>3 DEF Stream
    <3>8. FramesFresh(Stream' \o x, r, o)
      <4>1. PICK y : y = s \o g
        OBVIOUS
      <4>2. FramesFresh(y, r, o) /\ IsSeq(y)
        BY <1>3, <3>4, <3>5, <3>7, <4>1, FramesAdded, ConcatIsSeq
      <4>3. Stream' = y
        BY <1>1, <1>2, <3>1, <3>3, <3>6, <3>7, <4>1 DEF Stream
      <4>4. y \o x = y
        BY <1>0, <3>7, <4>2, ConcatIsSeq
      <4> QED
        BY <4>2, <4>3, <4>4
    <3>9. /\ reader' # Idle => half' = NoHalf /\ WorkerFresh(reader', tablets', rid', owners')
          /\ FramesFresh(Stream' \o x, rid', owners')
          /\ fetched' # <<>> => GoodTable(fetched', owners')
          /\ cpc' # "prompt" => rid' >= 1
          /\ requests' \in Seq(1..rid')
      BY <1>2, <1>3, <2>1, <3>1, <3>8
    <3> QED
      BY <1>0, <1>2, <3>9, FreshNextState
  <2> QED
    BY <1>7, <2>5, <2>6
<1> QED
  BY <1>6, <1>7 DEF Worker

\* The balancer: no split overtakes a walk, and a migration adds an owner.
LEMMA BalancerFresh ==
  ASSUME ~SplitsRace, FreshInv, TablesInv, Balancer PROVE FreshInv'
<1> USE DEF masterVars, connVars, clientVars
<1>0. PICK x : IsSeq(x) /\ (peer = "open" => x = <<>>) /\ FramesFresh(Stream \o x, rid, owners)
  BY DEF FreshInv
<1>1. PICK s, r, o, w, ts, f :
          /\ s = Stream \o x /\ r = rid /\ o = owners /\ w = reader /\ ts = tablets /\ f = fetched
  OBVIOUS
<1>2. /\ s = Stream' \o x /\ r = rid' /\ f = fetched' /\ requests' = requests /\ cpc' = cpc
      /\ peer' = peer
  BY <1>1 DEF Balancer, SplitLeft, SplitInsert, FlipRoute, Stream
<1>3. /\ w # Idle => half = NoHalf /\ WorkerFresh(w, ts, r, o)
      /\ FramesFresh(s, r, o)
      /\ f # <<>> => GoodTable(f, o)
      /\ cpc # "prompt" => r >= 1
      /\ requests \in Seq(1..r)
  BY <1>0, <1>1 DEF FreshInv
<1>4. CASE SplitLeft \/ SplitInsert
  <2>1. w = Idle /\ reader' = Idle /\ owners' = o
    BY <1>1, <1>3, <1>4 DEF SplitLeft, SplitInsert
  <2>2. /\ reader' # Idle => half' = NoHalf /\ WorkerFresh(reader', tablets', rid', owners')
        /\ FramesFresh(Stream' \o x, rid', owners')
        /\ fetched' # <<>> => GoodTable(fetched', owners')
        /\ cpc' # "prompt" => rid' >= 1
        /\ requests' \in Seq(1..rid')
    BY <1>2, <1>3, <2>1
  <2> QED
    BY <1>0, <1>2, <2>2, FreshNextState
<1>5. CASE FlipRoute
  <2>1. PICK p, us : p = owners' /\ us = tablets'
    OBVIOUS
  <2>2. half = NoHalf /\ half' = half /\ reader' = w
    BY <1>1, <1>5 DEF FlipRoute, MayChange
  <2>3. ts \in Seq(Tablet)
    BY <1>1, <2>2, NoHalfSaved DEF TablesInv
  <2>4. PICK i \in DOMAIN ts, dst \in LoadedNodes(ts) :
            /\ us = [ts EXCEPT ![i].node_id = dst]
            /\ p = [k \in Key |->
                  IF InRange(k, ts[i].start_key, ts[i].end_key) THEN o[k] \cup {dst} ELSE o[k]]
    BY <1>1, <1>5, <2>1, FlipEffect
  <2>5. \A k \in Key : o[k] \subseteq p[k]
    BY <2>4
  <2>6. FramesFresh(s, r, p) /\ (f # <<>> => GoodTable(f, p))
    BY <1>3, <2>5, GoodGrows
  <2>7. /\ Len(us) = Len(ts)
        /\ \A j \in DOMAIN ts : /\ us[j].id = ts[j].id
                                /\ us[j].start_key = ts[j].start_key
                                /\ us[j].end_key = ts[j].end_key
    <3>1. /\ \A j \in DOMAIN ts : j # i => us[j] = ts[j]
          /\ us[i] = [ts[i] EXCEPT !.node_id = dst]
      BY <2>4
    <3>2. /\ us[i].start_key = ts[i].start_key /\ us[i].end_key = ts[i].end_key
          /\ us[i].id = ts[i].id
      BY <2>3, <3>1 DEF Tablet
    <3>3. Len(us) = Len(ts)
      BY <2>3, <2>4
    <3> QED
      BY <3>1, <3>2, <3>3
  <2>8. w # Idle => WorkerFresh(w, us, r, p)
    <3> HAVE w # Idle
    <3>1. WorkerFresh(w, ts, r, o)
      BY <1>3
    <3>2. Len(w.body) \in Nat /\ Len(w.body) <= Len(ts) /\ Len(ts) \in Nat /\ DOMAIN ts = 1..Len(ts)
      BY <2>3, <3>1 DEF WorkerFresh, IsSeq
    <3>3. w.rid = r => \A j \in 1..Len(w.body) : SegmentFresh(w.body[j], us[j], p)
      <4> HAVE w.rid = r
      <4>1. ASSUME NEW j \in 1..Len(w.body) PROVE SegmentFresh(w.body[j], us[j], p)
        <5>1. SegmentFresh(w.body[j], ts[j], o) /\ j \in DOMAIN ts
          BY <3>1, <3>2 DEF WorkerFresh
        <5>2. SegmentFresh(w.body[j], ts[j], p)
          BY <2>5, <5>1, GoodGrows
        <5> QED
          BY <2>7, <5>1, <5>2 DEF SegmentFresh
      <4> QED
        BY <4>1
    <3> QED
      BY <2>7, <3>1, <3>3 DEF WorkerFresh
  <2>9. /\ reader' # Idle => half' = NoHalf /\ WorkerFresh(reader', tablets', rid', owners')
        /\ FramesFresh(Stream' \o x, rid', owners')
        /\ fetched' # <<>> => GoodTable(fetched', owners')
        /\ cpc' # "prompt" => rid' >= 1
        /\ requests' \in Seq(1..rid')
    BY <1>2, <1>3, <2>1, <2>2, <2>6, <2>8
  <2> QED
    BY <1>0, <1>2, <2>9, FreshNextState
<1> QED
  BY <1>4, <1>5 DEF Balancer

\* A crash may cut the last reply.
LEMMA CrashFresh ==
  ASSUME FreshInv, StreamInv, MasterCrash PROVE FreshInv'
<1>0. PICK x : IsSeq(x) /\ (peer = "open" => x = <<>>) /\ FramesFresh(Stream \o x, rid, owners)
  BY DEF FreshInv
<1>1. /\ reader' = Idle /\ requests' = <<>> /\ peer' # "open"
      /\ UNCHANGED <<rid, owners, fetched, cpc>>
  BY DEF MasterCrash, clientVars
<1>2. PICK y : IsSeq(y) /\ Stream' \o y = Stream \o x
  BY <1>0, CutByCrash
<1>3. FramesFresh(Stream' \o y, rid, owners)
  BY <1>0, <1>2
<1> QED
  BY <1>1, <1>2, <1>3, ResetFresh

\* Every step keeps the invariant, or closes a connection inside a frame.
LEMMA FreshInvNext ==
  ASSUME ~SplitsRace, ColonKeys = {},
         FreshInv, TablesInv, StreamInv, [FetchNext]_fetchVars
  PROVE  torn' \/ FreshInv'
<1>1. CASE MasterRestart \/ UNCHANGED fetchVars
  <2>1. UNCHANGED <<rid, owners, reader, tablets, half, fetched, requests, buf, wire, cpc, peer>>
    BY <1>1 DEF MasterRestart, fetchVars, masterVars, connVars, clientVars
  <2>2. Stream' = Stream
    BY <2>1 DEF Stream
  <2> QED
    BY <2>1, <2>2, FreshKeep
<1> QED
  BY <1>1, CommandFresh, ClientFresh, TakeFresh, WorkerFreshStep, BalancerFresh, CrashFresh
     DEF FetchNext, FetchRouteTable

\* Until a connection is closed in the middle of a frame, a command that gets a
\* table gets one that routes every key, to a node that owned it at some moment
\* of the command: across late replies, timeouts at any byte, reconnects,
\* crashes of the Master that cut replies and migrations during the walk, for
\* every table and any number of commands.  The two hypotheses exclude what else
\* the code does not defend against: a split during the walk, and ':' in a key.
THEOREM FreshRouteAlways ==
  ~SplitsRace /\ ColonKeys = {} /\ FetchSpec => []FreshRoute
<1> SUFFICES ASSUME ~SplitsRace, ColonKeys = {} PROVE FetchSpec => []FreshRoute
  OBVIOUS
<1>1. ASSUME FreshInv PROVE FreshRoute
  <2> SUFFICES ASSUME fetched # <<>>, NEW k \in Key
               PROVE  /\ HasRoute(fetched, k)
                      /\ GetTabletRoute(fetched, k).node_id \in owners[k]
    BY DEF FreshRoute
  <2>1. fetched \in Seq(Tablet) /\ IsPartition(fetched) /\ FreshTable(fetched, owners)
    BY <1>1 DEF FreshInv, GoodTable
  <2>2. PICK i \in DOMAIN fetched : InRange(k, fetched[i].start_key, fetched[i].end_key)
    BY <2>1 DEF IsPartition, Covering
  <2>3. HasRoute(fetched, k) /\ FindTabletIndex(fetched, k) = i
    BY <2>1, <2>2, RouteFound
  <2>4. fetched[i].node_id \in owners[k]
    BY <2>1, <2>2 DEF FreshTable
  <2> QED
    BY <2>3, <2>4 DEF GetTabletRoute
<1>2. torn \/ FreshInv => FreshRoute
  BY <1>1 DEF FreshRoute
<1>3. /\ torn \/ (StreamInv /\ FreshInv)
      /\ TablesInv /\ [FetchNext]_fetchVars
      => (torn \/ (StreamInv /\ FreshInv))' /\ TablesInv'
  BY FreshInvNext, TablesInvNext, StreamInvNext, TornStays
<1> QED
  BY <1>2, <1>3, FreshInvInit, TablesInvInit, StreamInvInit, PTL DEF FetchSpec
=============================================================================
