---------------------------- MODULE PubSubProofs ----------------------------
(***************************************************************************)
(* Proofs about publish/subscribe, for any number of connections, channels *)
(* and commands and any limit of the buffers.                              *)
(*                                                                         *)
(* What a peer has received says nothing of what is on its way, so that    *)
(* the promises about it are not inductive.  They are shown of the stream  *)
(* of a connection, what its peer has received and what is queued for it:  *)
(* while the connection lives, the stream and the replies in c.out say     *)
(* what c.subs is (Told), and the last message of a publisher in it is the *)
(* last that was published, or the one before if that PUBLISH still goes   *)
(* on (Fed).                                                               *)
(***************************************************************************)
EXTENDS PubSub, FiniteSetTheorems, SequenceTheorems, TLAPS

Items == Replies \cup Messages

Stream(c) == received[c] \o queue[c]
Alive(c)  == ~dead[c] /\ ~broken[c] /\ pc[c] # "close"

\* Item x tells of the subscription, or the end of the subscription, to ch.
IsSub(x, ch)   == x.t = "sub" /\ x.ch = ch
IsUnsub(x, ch) == x.t = "unsub" /\ x.ch = ch
IsMsg(x, p, ch) == x.t = "msg" /\ x.from = p /\ x.ch = ch

\* After the first n items of s its reader is subscribed to ch.
SubAt(s, ch, n) == \E i \in 1..n : IsSub(s[i], ch) /\ \A j \in i..n : ~ IsUnsub(s[j], ch)
SubSet(s, n)    == {ch \in Channels : SubAt(s, ch, n)}

\* The acknowledgements in s stand where they should, with the right counts.
Right(s, i) ==
  /\ s[i].t = "msg" => SubAt(s, s[i].ch, i - 1)
  /\ s[i].t \in {"sub", "unsub"} => s[i].n = Cardinality(SubSet(s, i))
Good(s) == \A i \in 1..Len(s) : Right(s, i)

\* The messages from p to ch in s rise by one each while the subscription lasts.
Follows(s, p, ch, i, j) ==
  /\ s[i].id < s[j].id
  /\ \/ \E k \in i..j : IsUnsub(s[k], ch)
     \/ \E k \in (i + 1)..(j - 1) : IsMsg(s[k], p, ch)
     \/ s[j].id = s[i].id + 1
InOrder(s, p, ch) == \A i, j \in 1..Len(s) :
  IsMsg(s[i], p, ch) /\ IsMsg(s[j], p, ch) /\ i < j => Follows(s, p, ch, i, j)

\* Goroutines and the registry.
Working ==
  /\ \A c \in Clients : pc[c] # "push" => out[c] = <<>>
  /\ \A c \in Clients : pc[c] # "publish" => pub[c] = NoPublish
  /\ \A c \in Clients : pc[c] = "publish" =>
       \E ch \in Channels : /\ pub[c].msg = Message(c, ch, npub[c][ch])
                            /\ npub[c][ch] > 0
                            /\ pub[c].left \subseteq chans[ch]
  /\ \A c \in Clients : dead[c] => broken[c] \/ pc[c] = "done"

\* Channels the replies in o, up to the i-th, end the subscription to.
Ended(o, i) == {ch \in Channels : \E j \in 1..i : IsUnsub(o[j], ch)}

\* The stream s, with the replies o, tells the peer that it is subscribed to S.
Owed(s, o, S) ==
  LET now == SubSet(s, Len(s)) IN
  /\ S = now \ Ended(o, Len(o))
  /\ \A i \in 1..Len(o) :
       /\ o[i].t \in {"unsub", "reply"}
       /\ o[i].t = "unsub" => o[i].n = Cardinality(now \ Ended(o, i))

\* The stream, with the replies in c.out, tells the peer what c.subs is.
ToldAt(c) == Good(Stream(c)) /\ (Alive(c) => Owed(Stream(c), out[c], subs[c]))
Told == \A c \in Clients : ToldAt(c)

\* p's last message to ch that has been offered to c.
Offered(p, ch, c) ==
  IF c \in pub[p].left /\ pub[p].msg.ch = ch THEN npub[p][ch] - 1 ELSE npub[p][ch]

\* p's messages to ch in s go up to k; the last of them, if the subscription lasts, is k.
Bounded(s, p, ch, k) == \A i \in 1..Len(s) : IsMsg(s[i], p, ch) => s[i].id <= k
Latest(s, p, ch, k) == \A i \in 1..Len(s) : IsMsg(s[i], p, ch) =>
  \/ \E j \in i..Len(s) : IsUnsub(s[j], ch)
  \/ \E j \in (i + 1)..Len(s) : IsMsg(s[j], p, ch)
  \/ s[i].id = k

\* Messages come in order, none newer than what was offered, and the last is that one.
FedAt(c, p, ch) ==
  /\ InOrder(Stream(c), p, ch)
  /\ Bounded(Stream(c), p, ch, Offered(p, ch, c))
  /\ Alive(c) /\ ch \notin Ended(out[c], Len(out[c])) =>
       Latest(Stream(c), p, ch, Offered(p, ch, c))
Fed == \A c, p \in Clients, ch \in Channels : FedAt(c, p, ch)

RegistryInv == RegistrySound /\ Working
StreamInv   == RegistryInv /\ Told /\ Fed

-----------------------------------------------------------------------------
(* Sequences of items.                                                     *)

\* What stands where in two sequences, one after the other.
LEMMA Cat ==
  ASSUME NEW s \in Seq(Items), NEW b \in Seq(Items)
  PROVE  /\ s \o b \in Seq(Items) /\ Len(s \o b) = Len(s) + Len(b)
         /\ Len(s) \in Nat /\ Len(b) \in Nat
         /\ \A i \in 1..Len(s) : (s \o b)[i] = s[i]
         /\ \A i \in 1..Len(b) : (s \o b)[Len(s) + i] = b[i]
         /\ \A i \in 1..(Len(s) + Len(b)) : i <= Len(s) \/ \E k \in 1..Len(b) : i = Len(s) + k
<1>1. /\ s \o b \in Seq(Items) /\ Len(s \o b) = Len(s) + Len(b)
      /\ Len(s) \in Nat /\ Len(b) \in Nat
  OBVIOUS
<1>2. /\ \A i \in 1..Len(s) : (s \o b)[i] = s[i]
      /\ \A i \in 1..Len(b) : (s \o b)[Len(s) + i] = b[i]
  OBVIOUS
<1>3. ASSUME NEW i \in 1..(Len(s) + Len(b)), ~ (i <= Len(s))
      PROVE  \E k \in 1..Len(b) : i = Len(s) + k
  <2>1. i - Len(s) \in 1..Len(b) /\ i = Len(s) + (i - Len(s))
    BY <1>1, <1>3
  <2> QED BY <2>1
<1> QED BY <1>1, <1>2, <1>3

\* Later items do not change what the reader is subscribed to before.
LEMMA SubPrefix ==
  ASSUME NEW s \in Seq(Items), NEW b \in Seq(Items), NEW n \in 0..Len(s), NEW ch
  PROVE  SubAt(s \o b, ch, n) <=> SubAt(s, ch, n)
<1>1. \A i \in 1..n : (s \o b)[i] = s[i]
  BY Cat
<1>2. \A i \in 1..n : \A j \in i..n : j \in 1..n
  BY Cat
<1> QED BY <1>1, <1>2 DEF SubAt

\* Later items do not change what an earlier item has to be.
LEMMA RightPrefix ==
  ASSUME NEW s \in Seq(Items), NEW b \in Seq(Items), NEW i \in 1..Len(s)
  PROVE  Right(s \o b, i) <=> Right(s, i)
<1>1. (s \o b)[i] = s[i] /\ i \in 0..Len(s) /\ i - 1 \in 0..Len(s)
  BY Cat
<1>2. SubSet(s \o b, i) = SubSet(s, i)
  BY <1>1, SubPrefix DEF SubSet
<1>3. SubAt(s \o b, s[i].ch, i - 1) <=> SubAt(s, s[i].ch, i - 1)
  BY <1>1, SubPrefix
<1> QED BY <1>1, <1>2, <1>3 DEF Right

\* A beginning of a right sequence is right.
LEMMA GoodPrefix ==
  ASSUME NEW s \in Seq(Items), NEW b \in Seq(Items), Good(s \o b)
  PROVE  Good(s)
<1>1. \A i \in 1..Len(s) : i \in 1..Len(s \o b)
  BY Cat
<1> QED BY <1>1, RightPrefix DEF Good

\* Items that subscribe to nothing take channels away, or none.
LEMMA SubAfter ==
  ASSUME NEW s \in Seq(Items), NEW b \in Seq(Items), NEW m \in 0..Len(b), NEW ch,
         \A i \in 1..Len(b) : b[i].t # "sub"
  PROVE  SubAt(s \o b, ch, Len(s) + m) <=>
           SubAt(s, ch, Len(s)) /\ \A j \in 1..m : ~ IsUnsub(b[j], ch)
<1> DEFINE n == Len(s)
           r == s \o b
<1>1. /\ n \in Nat /\ \A i \in 1..n : r[i] = s[i]
      /\ \A i \in 1..Len(b) : r[n + i] = b[i]
      /\ \A i \in 1..(n + m) : i <= n \/ i - n \in 1..m
  BY Cat
<1>2. \A i \in 1..(n + m) : i > n => r[i] = b[i - n] /\ ~ IsSub(r[i], ch)
  <2> SUFFICES ASSUME NEW i \in 1..(n + m), i > n PROVE r[i] = b[i - n] /\ ~ IsSub(r[i], ch)
    OBVIOUS
  <2>1. i - n \in 1..Len(b) /\ n + (i - n) = i
    BY <1>1
  <2> QED BY <1>1, <2>1 DEF IsSub
<1>3. ASSUME SubAt(r, ch, n + m) PROVE SubAt(s, ch, n) /\ \A j \in 1..m : ~ IsUnsub(b[j], ch)
  <2>1. PICK i \in 1..(n + m) : IsSub(r[i], ch) /\ \A j \in i..(n + m) : ~ IsUnsub(r[j], ch)
    BY <1>3 DEF SubAt
  <2>2. i \in 1..n
    BY <2>1, <1>2, <1>1
  <2>3. \A j \in i..n : ~ IsUnsub(s[j], ch)
    BY <2>1, <2>2, <1>1
  <2>4. ASSUME NEW j \in 1..m PROVE ~ IsUnsub(b[j], ch)
    <3>1. n + j \in i..(n + m) /\ j \in 1..Len(b)
      BY <2>2, <1>1
    <3> QED BY <3>1, <2>1, <1>1
  <2>5. IsSub(s[i], ch)
    BY <2>1, <2>2, <1>1
  <2> QED BY <2>2, <2>3, <2>4, <2>5 DEF SubAt
<1>4. ASSUME SubAt(s, ch, n), \A j \in 1..m : ~ IsUnsub(b[j], ch) PROVE SubAt(r, ch, n + m)
  <2>1. PICK i \in 1..n : IsSub(s[i], ch) /\ \A j \in i..n : ~ IsUnsub(s[j], ch)
    BY <1>4 DEF SubAt
  <2>2. i \in 1..(n + m) /\ IsSub(r[i], ch)
    BY <2>1, <1>1
  <2>3. ASSUME NEW j \in i..(n + m) PROVE ~ IsUnsub(r[j], ch)
    <3>1. CASE j <= n
      BY <3>1, <2>1, <1>1
    <3>2. CASE j > n
      <4>1. j - n \in 1..m /\ j \in 1..(n + m)
        BY <3>2, <2>1, <1>1
      <4> QED BY <4>1, <3>2, <1>2, <1>4
    <3> QED BY <3>1, <3>2, <1>1
  <2> QED BY <2>2, <2>3 DEF SubAt
<1> QED BY <1>3, <1>4

\* An acknowledgement of a subscription adds its channel.
LEMMA SubAdded ==
  ASSUME NEW s \in Seq(Items), NEW x \in Items, x.t = "sub", NEW ch
  PROVE  SubAt(s \o <<x>>, ch, Len(s) + 1) <=> SubAt(s, ch, Len(s)) \/ x.ch = ch
<1> DEFINE n == Len(s)
           r == s \o <<x>>
<1>1. n \in Nat /\ r[n + 1] = x /\ \A i \in 1..n : r[i] = s[i]
  OBVIOUS
<1>2. ASSUME SubAt(r, ch, n + 1) PROVE SubAt(s, ch, n) \/ x.ch = ch
  <2>1. PICK i \in 1..(n + 1) : IsSub(r[i], ch) /\ \A j \in i..(n + 1) : ~ IsUnsub(r[j], ch)
    BY <1>2 DEF SubAt
  <2>2. CASE i = n + 1
    BY <2>1, <2>2, <1>1 DEF IsSub
  <2>3. CASE i <= n
    <3>1. i \in 1..n /\ IsSub(s[i], ch) /\ \A j \in i..n : ~ IsUnsub(s[j], ch)
      BY <2>1, <2>3, <1>1
    <3> QED BY <3>1 DEF SubAt
  <2> QED BY <2>2, <2>3, <1>1
<1>3. ASSUME SubAt(s, ch, n) PROVE SubAt(r, ch, n + 1)
  <2>1. PICK i \in 1..n : IsSub(s[i], ch) /\ \A j \in i..n : ~ IsUnsub(s[j], ch)
    BY <1>3 DEF SubAt
  <2>2. i \in 1..(n + 1) /\ IsSub(r[i], ch)
    BY <2>1, <1>1
  <2>3. ASSUME NEW j \in i..(n + 1) PROVE ~ IsUnsub(r[j], ch)
    <3>1. CASE j = n + 1
      BY <3>1, <1>1 DEF IsUnsub
    <3>2. CASE j <= n
      BY <3>2, <2>1, <1>1
    <3> QED BY <3>1, <3>2, <1>1
  <2> QED BY <2>2, <2>3 DEF SubAt
<1>4. ASSUME x.ch = ch PROVE SubAt(r, ch, n + 1)
  <2>1. n + 1 \in 1..(n + 1) /\ IsSub(r[n + 1], ch)
    BY <1>1, <1>4 DEF IsSub
  <2>2. \A j \in (n + 1)..(n + 1) : ~ IsUnsub(r[j], ch)
    BY <1>1 DEF IsUnsub
  <2> QED BY <2>1, <2>2 DEF SubAt
<1> QED BY <1>2, <1>3, <1>4

\* A right sequence stays right when each item added is.
LEMMA GoodLonger ==
  ASSUME NEW s \in Seq(Items), NEW b \in Seq(Items), Good(s),
         \A k \in 1..Len(b) : Right(s \o b, Len(s) + k)
  PROVE  Good(s \o b)
<1> SUFFICES ASSUME NEW i \in 1..Len(s \o b) PROVE Right(s \o b, i)
  BY DEF Good
<1>1. CASE i <= Len(s)
  <2>1. i \in 1..Len(s)
    BY <1>1, Cat
  <2> QED BY <2>1, RightPrefix DEF Good
<1>2. CASE ~ (i <= Len(s))
  BY <1>2, Cat
<1> QED BY <1>1, <1>2

\* Items after j do not matter to what follows up to j.
LEMMA FollowsPrefix ==
  ASSUME NEW s \in Seq(Items), NEW b \in Seq(Items), NEW p, NEW ch,
         NEW i \in 1..Len(s), NEW j \in 1..Len(s)
  PROVE  Follows(s \o b, p, ch, i, j) <=> Follows(s, p, ch, i, j)
<1>1. \A k \in 1..Len(s) : (s \o b)[k] = s[k]
  BY Cat
<1>2. (\A k \in i..j : k \in 1..Len(s)) /\ (\A k \in (i + 1)..(j - 1) : k \in 1..Len(s))
  BY Cat
<1> QED BY <1>1, <1>2 DEF Follows

\* The messages in the beginning of a sequence in order are in order.
LEMMA OrderPrefix ==
  ASSUME NEW s \in Seq(Items), NEW b \in Seq(Items), NEW p, NEW ch, InOrder(s \o b, p, ch)
  PROVE  InOrder(s, p, ch)
<1>1. \A i \in 1..Len(s) : i \in 1..Len(s \o b) /\ (s \o b)[i] = s[i]
  BY Cat
<1> QED BY <1>1, FollowsPrefix DEF InOrder

\* ... and go no further.
LEMMA BoundedPrefix ==
  ASSUME NEW s \in Seq(Items), NEW b \in Seq(Items), NEW p, NEW ch, NEW k,
         Bounded(s \o b, p, ch, k)
  PROVE  Bounded(s, p, ch, k)
<1>1. \A i \in 1..Len(s) : i \in 1..Len(s \o b) /\ (s \o b)[i] = s[i]
  BY Cat
<1> QED BY <1>1 DEF Bounded

\* Items that are not p's messages to ch.
LEMMA OtherItems ==
  ASSUME NEW s \in Seq(Items), NEW b \in Seq(Items), NEW p, NEW ch, NEW k,
         \A i \in 1..Len(b) : ~ IsMsg(b[i], p, ch)
  PROVE  /\ InOrder(s, p, ch) => InOrder(s \o b, p, ch)
         /\ Bounded(s, p, ch, k) => Bounded(s \o b, p, ch, k)
         /\ Latest(s, p, ch, k) \/ (\E i \in 1..Len(b) : IsUnsub(b[i], ch))
              => Latest(s \o b, p, ch, k)
<1> DEFINE r == s \o b
<1>1. \A i \in 1..Len(r) : IsMsg(r[i], p, ch) => i \in 1..Len(s) /\ r[i] = s[i]
  <2> SUFFICES ASSUME NEW i \in 1..Len(r), IsMsg(r[i], p, ch) PROVE i \in 1..Len(s) /\ r[i] = s[i]
    OBVIOUS
  <2>1. i <= Len(s)
    BY Cat
  <2> QED BY <2>1, Cat
<1>2. InOrder(s, p, ch) => InOrder(r, p, ch)
  BY <1>1, FollowsPrefix DEF InOrder
<1>3. Bounded(s, p, ch, k) => Bounded(r, p, ch, k)
  BY <1>1 DEF Bounded
<1>4. ASSUME Latest(s, p, ch, k) PROVE Latest(r, p, ch, k)
  <2>1. \A j \in 1..Len(s) : j \in 1..Len(r) /\ r[j] = s[j]
    BY Cat
  <2>2. Len(s) \in Nat /\ Len(r) \in Nat /\ Len(s) <= Len(r)
    BY Cat
  <2> SUFFICES ASSUME NEW i \in 1..Len(r), IsMsg(r[i], p, ch)
               PROVE  \/ \E j \in i..Len(r) : IsUnsub(r[j], ch)
                      \/ \E j \in (i + 1)..Len(r) : IsMsg(r[j], p, ch)
                      \/ r[i].id = k
    BY DEF Latest
  <2>3. i \in 1..Len(s) /\ r[i] = s[i]
    BY <1>1
  <2>4. CASE s[i].id = k
    BY <2>3, <2>4
  <2>5. ASSUME NEW j \in i..Len(s), IsUnsub(s[j], ch) PROVE \E l \in i..Len(r) : IsUnsub(r[l], ch)
    <3>1. j \in 1..Len(s) /\ j \in i..Len(r)
      BY <2>2, <2>3
    <3> QED BY <3>1, <2>1, <2>5
  <2>6. ASSUME NEW j \in (i + 1)..Len(s), IsMsg(s[j], p, ch)
        PROVE  \E l \in (i + 1)..Len(r) : IsMsg(r[l], p, ch)
    <3>1. j \in 1..Len(s) /\ j \in (i + 1)..Len(r)
      BY <2>2, <2>3
    <3> QED BY <3>1, <2>1, <2>6
  <2> QED BY <1>4, <2>3, <2>4, <2>5, <2>6 DEF Latest
<1>5. ASSUME NEW m \in 1..Len(b), IsUnsub(b[m], ch) PROVE Latest(r, p, ch, k)
  <2> SUFFICES ASSUME NEW i \in 1..Len(r), IsMsg(r[i], p, ch)
               PROVE  \E j \in i..Len(r) : IsUnsub(r[j], ch)
    BY DEF Latest
  <2>1. i \in 1..Len(s)
    BY <1>1
  <2>2. Len(s) + m \in i..Len(r) /\ r[Len(s) + m] = b[m]
    BY <2>1, Cat
  <2> QED BY <2>2, <1>5
<1> QED BY <1>2, <1>3, <1>4, <1>5

\* p's next message to ch.
LEMMA NextItem ==
  ASSUME NEW s \in Seq(Items), NEW x \in Items, NEW p, NEW ch, IsMsg(x, p, ch), x.id \in Nat,
         InOrder(s, p, ch), Bounded(s, p, ch, x.id - 1), Latest(s, p, ch, x.id - 1),
         \A i \in 1..Len(s) : IsMsg(s[i], p, ch) => s[i].id \in Nat
  PROVE  /\ InOrder(s \o <<x>>, p, ch)
         /\ Bounded(s \o <<x>>, p, ch, x.id) /\ Latest(s \o <<x>>, p, ch, x.id)
<1> DEFINE n == Len(s)
           r == s \o <<x>>
<1>1. n \in Nat /\ Len(r) = n + 1 /\ r[n + 1] = x /\ \A i \in 1..n : r[i] = s[i]
  OBVIOUS
<1>2. <<x>> \in Seq(Items)
  OBVIOUS
<1>3. ASSUME NEW i \in 1..n, NEW j \in 1..n, IsMsg(r[i], p, ch), IsMsg(r[j], p, ch), i < j
      PROVE  Follows(r, p, ch, i, j)
  BY <1>1, <1>2, <1>3, FollowsPrefix DEF InOrder
<1>4. ASSUME NEW i \in 1..n, IsMsg(r[i], p, ch) PROVE Follows(r, p, ch, i, n + 1)
  <2>1. r[i] = s[i] /\ s[i].id \in Nat /\ s[i].id <= x.id - 1
    BY <1>1, <1>4 DEF Bounded
  <2>2. r[i].id < r[n + 1].id
    BY <2>1, <1>1
  <2>3. ASSUME NEW j \in i..n, IsUnsub(s[j], ch) PROVE \E k \in i..(n + 1) : IsUnsub(r[k], ch)
    <3>1. j \in 1..n /\ j \in i..(n + 1)
      BY <1>1
    <3> QED BY <3>1, <1>1, <2>3
  <2>4. ASSUME NEW j \in (i + 1)..n, IsMsg(s[j], p, ch)
        PROVE  \E k \in (i + 1)..((n + 1) - 1) : IsMsg(r[k], p, ch)
    <3>1. j \in 1..n /\ j \in (i + 1)..((n + 1) - 1)
      BY <1>1
    <3> QED BY <3>1, <1>1, <2>4
  <2>5. s[i].id = x.id - 1 => r[n + 1].id = r[i].id + 1
    BY <2>1, <1>1
  <2> QED BY <2>1, <2>2, <2>3, <2>4, <2>5, <1>4 DEF Follows, Latest
<1>5. InOrder(r, p, ch)
  <2> SUFFICES ASSUME NEW i \in 1..(n + 1), NEW j \in 1..(n + 1),
                      IsMsg(r[i], p, ch), IsMsg(r[j], p, ch), i < j
               PROVE  Follows(r, p, ch, i, j)
    BY <1>1 DEF InOrder
  <2>1. i \in 1..n /\ (j \in 1..n \/ j = n + 1)
    BY <1>1
  <2> QED BY <2>1, <1>3, <1>4
<1>6. \A i \in 1..(n + 1) : i \in 1..n \/ i = n + 1
  BY <1>1
<1>7. Bounded(r, p, ch, x.id)
  <2>1. \A i \in 1..n : IsMsg(r[i], p, ch) => r[i].id <= x.id
    BY <1>1 DEF Bounded
  <2> QED BY <2>1, <1>1, <1>6 DEF Bounded
<1>8. Latest(r, p, ch, x.id)
  <2>1. \A i \in 1..n : n + 1 \in (i + 1)..Len(r)
    BY <1>1
  <2> QED BY <2>1, <1>1, <1>6 DEF Latest
<1> QED BY <1>5, <1>7, <1>8

-----------------------------------------------------------------------------
(* The registry.                                                           *)

\* The counts in acknowledgements and in PUBLISH's reply are numbers.
LEMMA Counts ==
  /\ \A S \in SUBSET Channels : Cardinality(S) \in Nat
  /\ \A S \in SUBSET Clients : Cardinality(S) \in Nat
BY FiniteAssumption, FS_Subset, FS_CardinalityType

\* The items that are put in the output.
LEMMA AckType ==
  ASSUME NEW t \in {"sub", "unsub"}, NEW ch \in Channels \cup {NoChannel}, NEW n \in Nat
  PROVE  /\ SubAck(t, ch, n) \in Replies /\ SubAck(t, ch, n).t = t
         /\ SubAck(t, ch, n).ch = ch /\ SubAck(t, ch, n).n = n
BY DEF SubAck, Replies

\* The argument lists are sequences of channels.
LEMMA ArgsType ==
  ASSUME NEW chs \in ArgLists
  PROVE  chs \in Seq(Channels) /\ chs # <<>>
<1>1. PICK n \in 1..MaxArgs : chs \in [1..n -> Channels]
  BY DEF ArgLists
<1> QED BY <1>1, LimitAssumption

\* What the acknowledgements of an UNSUBSCRIBE are.
LEMMA AcksType ==
  ASSUME TypeOK, NEW c \in Clients, NEW chs \in Seq(Channels)
  PROVE  /\ UnsubAcks(c, chs) \in Seq(Replies) /\ Len(UnsubAcks(c, chs)) = Len(chs)
         /\ \A i \in 1..Len(chs) :
              UnsubAcks(c, chs)[i] =
                SubAck("unsub", chs[i], Cardinality(subs[c] \ {chs[j] : j \in 1..i}))
<1> DEFINE n == Len(chs)
           f(i) == SubAck("unsub", chs[i], Cardinality(subs[c] \ {chs[j] : j \in 1..i}))
<1>1. DOMAIN chs = 1..n /\ n \in Nat /\ \A i \in 1..n : chs[i] \in Channels
  OBVIOUS
<1>2. \A i \in 1..n : f(i) \in Replies
  <2> SUFFICES ASSUME NEW i \in 1..n PROVE f(i) \in Replies
    OBVIOUS
  <2>1. subs[c] \ {chs[j] : j \in 1..i} \in SUBSET Channels
    BY DEF TypeOK
  <2> QED BY <2>1, <1>1, Counts, AckType
<1>3. UnsubAcks(c, chs) = [i \in 1..n |-> f(i)]
  BY <1>1 DEF UnsubAcks
<1> HIDE DEF f
<1>4. [i \in 1..n |-> f(i)] \in Seq(Replies) /\ Len([i \in 1..n |-> f(i)]) = n
  BY <1>1, <1>2
<1> QED BY <1>3, <1>4, <1>1 DEF f

\* deliverLocked keeps the types; a client it kills has a broken connection.
LEMMA DeliverType ==
  ASSUME TypeOK, NEW c \in Clients, NEW b \in Seq(Items), Deliver(c, b)
  PROVE  /\ dead' \in [Clients -> BOOLEAN] /\ broken' \in [Clients -> BOOLEAN]
         /\ queue' \in [Clients -> Seq(Items)]
         /\ \A d \in Clients : /\ dead'[d] => dead[d] \/ broken'[d]
                               /\ broken[d] => broken'[d]
<1> USE DEF TypeOK, Items
<1>1. CASE UNCHANGED output
  BY <1>1 DEF output
<1>2. CASE /\ queue' = [queue EXCEPT ![c] = @ \o b]
           /\ UNCHANGED <<dead, broken>>
  BY <1>2
<1>3. CASE /\ dead' = [dead EXCEPT ![c] = TRUE]
           /\ broken' = [broken EXCEPT ![c] = TRUE]
           /\ queue' = [queue EXCEPT ![c] = <<>>]
  BY <1>3
<1> QED BY <1>1, <1>2, <1>3 DEF Deliver

\* The message of a PUBLISH in progress.
LEMMA MessageType ==
  ASSUME NEW c \in Clients, NEW ch \in Channels, NEW i \in Nat
  PROVE  /\ Message(c, ch, i) \in Messages /\ Message(c, ch, i).t = "msg"
         /\ Message(c, ch, i).ch = ch /\ Message(c, ch, i).from = c
         /\ Message(c, ch, i).id = i
BY DEF Message, Messages

\* Init: nobody has a subscription.
LEMMA InitRegistry == Init => RegistryInv
<1> SUFFICES ASSUME Init PROVE RegistryInv
  OBVIOUS
<1>1. NoPublish \in [msg : Messages \cup {<<>>}, left : SUBSET Clients, n : Nat]
  BY DEF NoPublish
<1>2. TypeOK
  BY <1>1, LimitAssumption DEF Init, TypeOK
<1>3. RegistryConsistent /\ Working
  BY DEF Init, RegistryConsistent, Working
<1> QED BY <1>2, <1>3 DEF RegistryInv, RegistrySound

\* SUBSCRIBE begins.
LEMMA SubscribeRegistry ==
  ASSUME RegistryInv, NEW c \in Clients, NEW chs \in ArgLists, Subscribe(c, chs)
  PROVE  RegistryInv'
<1> USE DEF RegistryInv, RegistrySound, Subscribe, StartCommand, registry, output
<1>1. chs \in Seq(Channels) /\ chs # <<>>
  BY ArgsType
<1>2. TypeOK'
  BY SMTT(60), <1>1, LimitAssumption DEF TypeOK
<1>3. RegistryConsistent'
  BY DEF RegistryConsistent, TypeOK
<1>4. Working'
  BY DEF Working, TypeOK
<1> QED BY <1>2, <1>3, <1>4

\* One channel is registered in both copies; no PUBLISH is in progress.
LEMMA SubscribeOneRegistry ==
  ASSUME RegistryInv, NEW c \in Clients, SubscribeOne(c)
  PROVE  RegistryInv'
<1> USE DEF RegistryInv, RegistrySound
<1> DEFINE ch == Head(todo[c])
           after == subs[c] \cup {ch}
           x == SubAck("sub", ch, Cardinality(after))
<1>1. todo[c] \in Seq(Channels) /\ todo[c] # <<>> /\ pc[c] = "subscribe" /\ RegistryFree
  BY DEF SubscribeOne, TypeOK
<1>2. ch \in Channels /\ Tail(todo[c]) \in Seq(Channels) /\ (Len(todo[c]) = 1 <=> Tail(todo[c]) = <<>>)
  <2>1. ch \in Channels /\ Tail(todo[c]) \in Seq(Channels)
    BY <1>1
  <2>2. Len(Tail(todo[c])) = Len(todo[c]) - 1 /\ Len(todo[c]) \in Nat
    BY <1>1
  <2>3. Tail(todo[c]) = <<>> <=> Len(Tail(todo[c])) = 0
    <3>1. PICK r \in Seq(Channels) : r = Tail(todo[c])
      BY <2>1
    <3>2. r = <<>> <=> Len(r) = 0
      OBVIOUS
    <3> QED BY <3>1, <3>2
  <2> QED BY <2>1, <2>2, <2>3
<1>3. <<x>> \in Seq(Items)
  <2>1. after \in SUBSET Channels
    BY <1>2 DEF TypeOK
  <2> QED BY <1>2, <2>1, Counts, AckType DEF Items
<1>4. /\ subs' = [subs EXCEPT ![c] = after]
      /\ chans' = [chans EXCEPT ![ch] = @ \cup {c}]
      /\ Deliver(c, <<x>>)
  BY DEF SubscribeOne
<1>5. /\ todo' = [todo EXCEPT ![c] = Tail(@)]
      /\ pc' = [pc EXCEPT ![c] = IF Len(todo[c]) = 1 THEN "exec" ELSE @]
      /\ UNCHANGED <<cmds, async, pub, npub, out, received>>
  BY DEF SubscribeOne
<1>6. /\ dead' \in [Clients -> BOOLEAN] /\ broken' \in [Clients -> BOOLEAN]
      /\ queue' \in [Clients -> Seq(Items)]
      /\ \A d \in Clients : (dead'[d] => dead[d] \/ broken'[d]) /\ (broken[d] => broken'[d])
  BY <1>3, <1>4, DeliverType
<1> HIDE DEF ch, x
<1>7. TypeOK'
  BY <1>1, <1>2, <1>4, <1>5, <1>6 DEF TypeOK, Items
<1>8. RegistryConsistent'
  <2>1. ASSUME NEW e \in Channels PROVE chans'[e] = {d \in Clients : e \in subs'[d]}
    <3>1. chans[e] = {d \in Clients : e \in subs[d]}
      BY DEF RegistryConsistent
    <3>2. chans'[e] = IF e = ch THEN chans[e] \cup {c} ELSE chans[e]
      BY <1>2, <1>4 DEF TypeOK
    <3>3. \A d \in Clients : subs'[d] = IF d = c THEN subs[d] \cup {ch} ELSE subs[d]
      BY <1>2, <1>4 DEF TypeOK
    <3> QED BY <3>1, <3>2, <3>3
  <2>2. \A d \in Clients : pc'[d] \in {"close", "done"} => subs'[d] = {}
    BY <1>1, <1>4, <1>5 DEF TypeOK, RegistryConsistent
  <2> QED BY <2>1, <2>2 DEF RegistryConsistent
<1>9. Working'
  <2>1. \A d \in Clients : pc'[d] # "publish" /\ pub'[d] = NoPublish
    BY <1>1, <1>5 DEF TypeOK, Working, RegistryFree
  <2>2. \A d \in Clients : pc'[d] # "push" => out'[d] = <<>>
    BY <1>1, <1>5 DEF TypeOK, Working
  <2>3. \A d \in Clients : dead'[d] => broken'[d] \/ pc'[d] = "done"
    BY <1>1, <1>5, <1>6 DEF TypeOK, Working
  <2> QED BY <2>1, <2>2, <2>3 DEF Working
<1> QED BY <1>7, <1>8, <1>9

\* UNSUBSCRIBE takes its channels out of both copies.
LEMMA UnsubscribeRegistry ==
  ASSUME RegistryInv, NEW c \in Clients, NEW chs \in Seq(Channels), Unsubscribe(c, chs)
  PROVE  RegistryInv'
<1> USE DEF RegistryInv, RegistrySound
<1> DEFINE S == Elems(chs)
<1>1. /\ pc[c] = "exec" /\ RegistryFree /\ cmds < MaxCmds /\ cmds' = cmds + 1
      /\ pc' = [pc EXCEPT ![c] = "push"]
      /\ out' = [out EXCEPT ![c] = UnsubAcks(c, chs)]
      /\ UNCHANGED <<todo, async, pub, npub, output, received>>
  BY DEF Unsubscribe, StartCommand
<1>2. /\ subs' = [subs EXCEPT ![c] = @ \ S]
      /\ chans' = [ch \in Channels |-> IF ch \in S THEN chans[ch] \ {c} ELSE chans[ch]]
  BY DEF Unsubscribe, UnsubEach
<1>3. UnsubAcks(c, chs) \in Seq(Replies)
  BY AcksType
<1> HIDE DEF S
<1>4. TypeOK'
  <2>1. chans' \in [Channels -> SUBSET Clients] /\ subs' \in [Clients -> SUBSET Channels]
    BY <1>2 DEF TypeOK
  <2> QED BY <2>1, <1>1, <1>3, LimitAssumption DEF TypeOK, output
<1>5. RegistryConsistent'
  <2>1. ASSUME NEW e \in Channels PROVE chans'[e] = {d \in Clients : e \in subs'[d]}
    <3>1. chans[e] = {d \in Clients : e \in subs[d]}
      BY DEF RegistryConsistent
    <3>2. \A d \in Clients : subs'[d] = IF d = c THEN subs[d] \ S ELSE subs[d]
      BY <1>2 DEF TypeOK
    <3>3. chans'[e] = IF e \in S THEN chans[e] \ {c} ELSE chans[e]
      BY <1>2
    <3> QED BY <3>1, <3>2, <3>3
  <2>2. \A d \in Clients : pc'[d] \in {"close", "done"} => subs'[d] = {}
    BY <1>1, <1>2 DEF TypeOK, RegistryConsistent
  <2> QED BY <2>1, <2>2 DEF RegistryConsistent
<1>6. Working'
  <2>1. \A d \in Clients : pc'[d] # "publish" /\ pub'[d] = NoPublish
    BY <1>1 DEF TypeOK, Working, RegistryFree
  <2>2. \A d \in Clients : pc'[d] # "push" => out'[d] = <<>>
    BY <1>1 DEF TypeOK, Working
  <2>3. \A d \in Clients : dead'[d] => broken'[d] \/ pc'[d] = "done"
    BY <1>1 DEF TypeOK, Working, output
  <2> QED BY <2>1, <2>2, <2>3 DEF Working
<1> QED BY <1>4, <1>5, <1>6

\* UNSUBSCRIBE without arguments names each of the client's channels.
LEMMA AllChannels ==
  ASSUME TypeOK, NEW c \in Clients, NEW chs \in [1..Cardinality(subs[c]) -> subs[c]]
  PROVE  chs \in Seq(Channels)
<1>1. subs[c] \in SUBSET Channels
  BY DEF TypeOK
<1>2. Cardinality(subs[c]) \in Nat
  BY <1>1, Counts
<1> QED BY <1>1, <1>2

\* UNSUBSCRIBE of a client without subscriptions.
LEMMA UnsubscribeNoneRegistry ==
  ASSUME RegistryInv, NEW c \in Clients, UnsubscribeNone(c)
  PROVE  RegistryInv'
<1> USE DEF RegistryInv, RegistrySound, UnsubscribeNone, StartCommand, registry, output
<1>1. <<SubAck("unsub", NoChannel, 0)>> \in Seq(Replies)
  BY AckType
<1>2. TypeOK'
  BY SMTT(60), <1>1, LimitAssumption DEF TypeOK
<1>3. RegistryConsistent'
  BY DEF RegistryConsistent, TypeOK
<1>4. Working'
  BY DEF Working, TypeOK
<1> QED BY <1>2, <1>3, <1>4

\* pushAsync of the replies.
LEMMA PushRegistry ==
  ASSUME RegistryInv, NEW c \in Clients, Push(c)
  PROVE  RegistryInv'
<1> USE DEF RegistryInv, RegistrySound
<1>1. out[c] \in Seq(Items) /\ Deliver(c, out[c])
  BY DEF Push, TypeOK, Items
<1>2. /\ dead' \in [Clients -> BOOLEAN] /\ broken' \in [Clients -> BOOLEAN]
      /\ queue' \in [Clients -> Seq(Items)]
      /\ \A d \in Clients : (dead'[d] => dead[d] \/ broken'[d]) /\ (broken[d] => broken'[d])
  BY <1>1, DeliverType
<1>3. /\ pc[c] = "push"
      /\ out' = [out EXCEPT ![c] = <<>>]
      /\ pc' = [pc EXCEPT ![c] = "exec"]
      /\ UNCHANGED <<todo, cmds, async, registry, pub, npub, received>>
  BY DEF Push
<1>4. TypeOK'
  <2>1. /\ TypeOK
        /\ UNCHANGED <<todo, cmds, async, subs, chans, pub, npub, received>>
    BY <1>3 DEF registry
  <2> HIDE DEF RegistryInv, RegistrySound
  <2>2. pc' \in [Clients -> {"exec", "subscribe", "push", "publish", "unsub", "close", "done"}]
    BY <1>3, <2>1 DEF TypeOK
  <2>3. \A d \in Clients : pc'[d] = "subscribe" <=> todo'[d] # <<>>
    BY <1>3, <2>1 DEF TypeOK
  <2>4. out' \in [Clients -> Seq(Replies)]
    BY <1>3, <2>1 DEF TypeOK
  <2>5. queue' \in [Clients -> Seq(Replies \cup Messages)]
    BY <1>2 DEF Items
  <2> QED BY <1>2, <2>1, <2>2, <2>3, <2>4, <2>5 DEF TypeOK
<1>5. RegistryConsistent'
  <2>1. subs' = subs /\ chans' = chans /\ RegistryConsistent
    BY <1>3 DEF registry
  <2>2. \A d \in Clients : pc'[d] \in {"close", "done"} => pc[d] \in {"close", "done"}
    <3>1. pc \in [Clients -> {"exec", "subscribe", "push", "publish", "unsub", "close", "done"}]
      BY DEF TypeOK
    <3> HIDE DEF RegistryInv, RegistrySound
    <3> QED BY <1>3, <3>1
  <2> HIDE DEF RegistryInv, RegistrySound
  <2> QED BY <2>1, <2>2 DEF RegistryConsistent
<1>6. Working'
  BY <1>2, <1>3 DEF Working, TypeOK, registry
<1> QED BY <1>4, <1>5, <1>6

\* flush of the replies.
LEMMA FlushRegistry ==
  ASSUME RegistryInv, NEW c \in Clients, Flush(c)
  PROVE  RegistryInv'
<1> USE DEF RegistryInv, RegistrySound
<1>1. /\ pc[c] = "push"
      /\ out' = [out EXCEPT ![c] = <<>>]
      /\ UNCHANGED <<todo, cmds, async, registry, pub, npub, dead, broken, received>>
  BY DEF Flush
<1>2. \/ queue' = [queue EXCEPT ![c] = @ \o out[c]] /\ pc' = [pc EXCEPT ![c] = "exec"]
      \/ queue' = queue /\ pc' = [pc EXCEPT ![c] = "unsub"]
  BY DEF Flush
<1>3. TypeOK'
  <2>1. queue[c] \o out[c] \in Seq(Replies \cup Messages)
    BY DEF TypeOK
  <2>2. queue' \in [Clients -> Seq(Replies \cup Messages)]
    BY <2>1, <1>2 DEF TypeOK
  <2>3. /\ pc' \in [Clients -> {"exec", "subscribe", "push", "publish", "unsub", "close", "done"}]
        /\ pc'[c] \in {"exec", "unsub"} /\ \A d \in Clients : d # c => pc'[d] = pc[d]
    BY <1>2 DEF TypeOK
  <2>4. \A d \in Clients : pc'[d] = "subscribe" <=> todo'[d] # <<>>
    BY <1>1, <2>3 DEF TypeOK
  <2>5. out' \in [Clients -> Seq(Replies)]
    BY <1>1 DEF TypeOK
  <2> QED BY <1>1, <2>2, <2>3, <2>4, <2>5 DEF TypeOK, registry
<1>4. RegistryConsistent'
  BY <1>1, <1>2 DEF RegistryConsistent, TypeOK, registry
<1>5. Working'
  <2>1. CASE pc' = [pc EXCEPT ![c] = "exec"]
    BY <1>1, <2>1 DEF Working, TypeOK, registry
  <2>2. CASE pc' = [pc EXCEPT ![c] = "unsub"]
    BY <1>1, <2>2 DEF Working, TypeOK, registry
  <2> QED BY <1>2, <2>1, <2>2
<1> QED BY <1>3, <1>4, <1>5

\* PUBLISH begins: those it will reach are the subscribers in the registry.
LEMMA PublishRegistry ==
  ASSUME RegistryInv, NEW c \in Clients, NEW ch \in Channels, Publish(c, ch)
  PROVE  RegistryInv'
<1> USE DEF RegistryInv, RegistrySound
<1> DEFINE k == npub[c][ch] + 1
           job == [msg |-> Message(c, ch, k), left |-> chans[ch], n |-> Cardinality(chans[ch])]
<1>1. /\ pc[c] = "exec" /\ cmds < MaxCmds /\ cmds' = cmds + 1
      /\ pc' = [pc EXCEPT ![c] = "publish"]
      /\ pub' = [pub EXCEPT ![c] = job]
      /\ UNCHANGED <<todo, async, registry, out, output, received>>
  BY DEF Publish, StartCommand
<1>2. npub[c][ch] \in Nat /\ k \in Nat /\ k > 0
  BY DEF TypeOK
<1>3. npub' \in [Clients -> [Channels -> Nat]] /\ npub'[c][ch] = k
      /\ \A d \in Clients : d # c => npub'[d] = npub[d]
  BY DEF TypeOK, Publish
<1>4. job \in [msg : Messages \cup {<<>>}, left : SUBSET Clients, n : Nat]
  <2>1. chans[ch] \in SUBSET Clients /\ Message(c, ch, k) \in Messages
    BY <1>2, MessageType DEF TypeOK
  <2>2. Cardinality(chans[ch]) \in Nat
    BY <2>1, Counts
  <2> QED BY <2>1, <2>2
<1>5. job.msg = Message(c, ch, k) /\ job.left = chans[ch]
  OBVIOUS
<1> HIDE DEF job, k
<1>6. TypeOK'
  <2>1. pub' \in [Clients -> [msg : Messages \cup {<<>>}, left : SUBSET Clients, n : Nat]]
    BY <1>1, <1>4 DEF TypeOK
  <2>2. \A d \in Clients : pc'[d] = "subscribe" <=> todo'[d] # <<>>
    BY <1>1 DEF TypeOK
  <2>3. cmds' \in 0..MaxCmds
    BY <1>1, LimitAssumption DEF TypeOK
  <2> QED BY <1>1, <1>3, <2>1, <2>2, <2>3 DEF TypeOK, registry, output
<1>7. RegistryConsistent'
  BY <1>1 DEF RegistryConsistent, TypeOK, registry
<1>8. Working'
  <2>1. \A d \in Clients : pc'[d] # "push" => out'[d] = <<>>
    BY <1>1 DEF TypeOK, Working
  <2>2. \A d \in Clients : pc'[d] # "publish" => pub'[d] = NoPublish
    BY <1>1 DEF TypeOK, Working
  <2>3. \A d \in Clients : dead'[d] => broken'[d] \/ pc'[d] = "done"
    BY <1>1 DEF TypeOK, Working, output
  <2>4. pub'[c] = job /\ chans' = chans
    BY <1>1 DEF TypeOK, registry
  <2>5. ASSUME NEW d \in Clients, pc'[d] = "publish"
        PROVE  \E e \in Channels : /\ pub'[d].msg = Message(d, e, npub'[d][e])
                                   /\ npub'[d][e] > 0
                                   /\ pub'[d].left \subseteq chans'[e]
    <3>1. CASE d = c
      BY <3>1, <2>4, <1>2, <1>3, <1>5
    <3>2. CASE d # c
      <4>1. pub'[d] = pub[d] /\ pc[d] = "publish" /\ npub'[d] = npub[d]
        BY <3>2, <1>1, <1>3, <2>5 DEF TypeOK
      <4> QED BY <4>1, <2>4 DEF Working
    <3> QED BY <3>1, <3>2
  <2> QED BY <2>1, <2>2, <2>3, <2>5 DEF Working
<1> QED BY <1>6, <1>7, <1>8

\* PUBLISH reaches one of them.
LEMMA PublishDeliverRegistry ==
  ASSUME RegistryInv, NEW c \in Clients, NEW s \in Clients, PublishDeliver(c, s)
  PROVE  RegistryInv'
<1> USE DEF RegistryInv, RegistrySound
<1>1. /\ pc[c] = "publish" /\ s \in pub[c].left /\ Deliver(s, <<pub[c].msg>>)
      /\ pub' = [pub EXCEPT ![c].left = @ \ {s}]
      /\ UNCHANGED <<pc, todo, cmds, async, npub, registry, out, received>>
  BY DEF PublishDeliver
<1>2. PICK ch \in Channels : /\ pub[c].msg = Message(c, ch, npub[c][ch])
                             /\ npub[c][ch] > 0
                             /\ pub[c].left \subseteq chans[ch]
  BY <1>1 DEF Working
<1>3. <<pub[c].msg>> \in Seq(Items)
  BY <1>2, MessageType DEF TypeOK, Items
<1>4. /\ dead' \in [Clients -> BOOLEAN] /\ broken' \in [Clients -> BOOLEAN]
      /\ queue' \in [Clients -> Seq(Items)]
      /\ \A d \in Clients : (dead'[d] => dead[d] \/ broken'[d]) /\ (broken[d] => broken'[d])
  BY <1>1, <1>3, DeliverType
<1>5. PICK job \in [msg : Messages \cup {<<>>}, left : SUBSET Clients, n : Nat] : job = pub[c]
  BY DEF TypeOK
<1>6. /\ [job EXCEPT !.left = @ \ {s}] \in [msg : Messages \cup {<<>>}, left : SUBSET Clients, n : Nat]
      /\ [job EXCEPT !.left = @ \ {s}].msg = job.msg
      /\ [job EXCEPT !.left = @ \ {s}].left = job.left \ {s}
  OBVIOUS
<1>7. pub' = [pub EXCEPT ![c] = [job EXCEPT !.left = @ \ {s}]]
  BY <1>1, <1>5
<1>8. pub' \in [Clients -> [msg : Messages \cup {<<>>}, left : SUBSET Clients, n : Nat]]
  BY <1>6, <1>7 DEF TypeOK
<1>9. TypeOK'
  BY SMTT(60), <1>1, <1>4, <1>8 DEF TypeOK, Items, registry
<1>10. RegistryConsistent'
  BY <1>1 DEF RegistryConsistent, TypeOK, registry
<1>11. Working'
  <2>1. \A d \in Clients : pc'[d] # "push" => out'[d] = <<>>
    BY <1>1 DEF TypeOK, Working
  <2>2. pub'[c].msg = pub[c].msg /\ pub'[c].left = pub[c].left \ {s}
    BY <1>5, <1>6, <1>7 DEF TypeOK
  <2>3. \A d \in Clients : d # c => pub'[d] = pub[d]
    BY <1>7 DEF TypeOK
  <2>4. \A d \in Clients : pc'[d] # "publish" => pub'[d] = NoPublish
    BY <1>1, <2>3 DEF Working
  <2>5. \A d \in Clients : dead'[d] => broken'[d] \/ pc'[d] = "done"
    BY <1>1, <1>4 DEF Working
  <2>6. ASSUME NEW d \in Clients, pc'[d] = "publish"
        PROVE  \E e \in Channels : /\ pub'[d].msg = Message(d, e, npub'[d][e])
                                   /\ npub'[d][e] > 0
                                   /\ pub'[d].left \subseteq chans'[e]
    <3>1. CASE d = c
      BY <3>1, <2>2, <1>1, <1>2 DEF registry
    <3>2. CASE d # c
      BY <3>2, <2>3, <2>6, <1>1 DEF Working, registry
    <3> QED BY <3>1, <3>2
  <2> QED BY <2>1, <2>4, <2>5, <2>6 DEF Working
<1> QED BY <1>9, <1>10, <1>11

\* PUBLISH ends.
LEMMA PublishEndRegistry ==
  ASSUME RegistryInv, NEW c \in Clients, PublishEnd(c)
  PROVE  RegistryInv'
<1> USE DEF RegistryInv, RegistrySound
<1>1. /\ pc[c] = "publish"
      /\ pc' = [pc EXCEPT ![c] = "push"]
      /\ out' = [out EXCEPT ![c] = <<PublishReply(pub[c].n)>>]
      /\ pub' = [pub EXCEPT ![c] = NoPublish]
      /\ UNCHANGED <<todo, cmds, async, registry, npub, output, received>>
  BY DEF PublishEnd
<1>2. <<PublishReply(pub[c].n)>> \in Seq(Replies)
  <2>1. pub[c].n \in Nat
    BY DEF TypeOK
  <2> QED BY <2>1 DEF PublishReply, Replies
<1>3. NoPublish \in [msg : Messages \cup {<<>>}, left : SUBSET Clients, n : Nat]
  BY DEF NoPublish
<1>4. TypeOK'
  <2>1. pub' \in [Clients -> [msg : Messages \cup {<<>>}, left : SUBSET Clients, n : Nat]]
    BY <1>1, <1>3 DEF TypeOK
  <2>2. out' \in [Clients -> Seq(Replies)]
    BY <1>1, <1>2 DEF TypeOK
  <2> QED BY <1>1, <2>1, <2>2 DEF TypeOK, registry, output
<1>5. RegistryConsistent'
  BY <1>1 DEF RegistryConsistent, TypeOK, registry
<1>6. Working'
  BY <1>1 DEF Working, TypeOK, registry, output
<1> QED BY <1>4, <1>5, <1>6

\* QUIT, the end of cleanup, and what the peer does.
LEMMA QuietRegistry ==
  ASSUME RegistryInv, NEW c \in Clients,
         Disconnect(c) \/ CleanupClose(c) \/ Receive(c) \/ Break(c)
  PROVE  RegistryInv'
<1> USE DEF RegistryInv, RegistrySound
<1>1. CASE Disconnect(c)
  <2> USE <1>1 DEF Disconnect, registry, output
  <2>1. TypeOK'
    BY SMTT(60) DEF TypeOK
  <2>2. RegistryConsistent' /\ Working'
    BY DEF TypeOK, RegistryConsistent, Working
  <2> QED BY <2>1, <2>2
<1>2. CASE CleanupClose(c)
  <2> USE <1>2 DEF CleanupClose, registry
  <2>1. TypeOK'
    BY SMTT(60) DEF TypeOK
  <2>2. RegistryConsistent' /\ Working'
    BY DEF TypeOK, RegistryConsistent, Working
  <2> QED BY <2>1, <2>2
<1>3. CASE Receive(c)
  <2> USE <1>3 DEF Receive, registry
  <2>1. TypeOK'
    <3>1. queue[c] \in Seq(Replies \cup Messages) /\ received[c] \in Seq(Replies \cup Messages)
      BY DEF TypeOK
    <3>2. /\ Tail(queue[c]) \in Seq(Replies \cup Messages)
          /\ Append(received[c], Head(queue[c])) \in Seq(Replies \cup Messages)
      BY <3>1
    <3> QED BY <3>2 DEF TypeOK
  <2>2. RegistryConsistent' /\ Working'
    BY DEF TypeOK, RegistryConsistent, Working
  <2> QED BY <2>1, <2>2
<1>4. CASE Break(c)
  <2> USE <1>4 DEF Break, registry
  <2>1. TypeOK'
    BY SMTT(60) DEF TypeOK
  <2>2. RegistryConsistent' /\ Working'
    BY DEF TypeOK, RegistryConsistent, Working
  <2> QED BY <2>1, <2>2
<1> QED BY <1>1, <1>2, <1>3, <1>4

\* cleanup takes the client out of both copies.
LEMMA CleanupUnsubRegistry ==
  ASSUME RegistryInv, NEW c \in Clients, CleanupUnsub(c)
  PROVE  RegistryInv' /\ subs'[c] = {}
<1> USE DEF RegistryInv, RegistrySound
<1>1. /\ pc[c] = "unsub"
      /\ pc' = [pc EXCEPT ![c] = "close"]
      /\ UNCHANGED <<todo, cmds, async, pub, npub, out, output, received>>
  BY DEF CleanupUnsub
<1>2. /\ subs' = [subs EXCEPT ![c] = {}]
      /\ \A e \in Channels : chans'[e] = chans[e] \ {c}
      /\ chans' \in [Channels -> SUBSET Clients]
  <2>1. CASE subs[c] = {}
    BY <2>1 DEF CleanupUnsub, registry, TypeOK, RegistryConsistent
  <2>2. CASE subs[c] # {}
    <3>1. /\ subs' = [subs EXCEPT ![c] = @ \ subs[c]]
          /\ chans' = [ch \in Channels |-> IF ch \in subs[c] THEN chans[ch] \ {c} ELSE chans[ch]]
      BY <2>2 DEF CleanupUnsub, UnsubEach
    <3>2. \A e \in Channels : e \notin subs[c] => c \notin chans[e]
      BY DEF RegistryConsistent
    <3> QED BY <3>1, <3>2 DEF TypeOK
  <2> QED BY <2>1, <2>2
<1>3. (\E d \in Clients : pc[d] = "publish") => chans' = chans
  BY DEF CleanupUnsub, registry, RegistryFree
<1>4. TypeOK'
  BY SMTT(60), <1>1, <1>2 DEF TypeOK, output
<1>5. RegistryConsistent'
  <2>1. ASSUME NEW e \in Channels PROVE chans'[e] = {d \in Clients : e \in subs'[d]}
    <3>1. chans[e] = {d \in Clients : e \in subs[d]}
      BY DEF RegistryConsistent
    <3>2. \A d \in Clients : subs'[d] = IF d = c THEN {} ELSE subs[d]
      BY <1>2 DEF TypeOK
    <3> QED BY <3>1, <3>2, <1>2
  <2>2. \A d \in Clients : pc'[d] \in {"close", "done"} => subs'[d] = {}
    BY <1>1, <1>2 DEF TypeOK, RegistryConsistent
  <2> QED BY <2>1, <2>2 DEF RegistryConsistent
<1>6. Working'
  BY <1>1, <1>3 DEF Working, TypeOK, output
<1> QED BY <1>2, <1>4, <1>5, <1>6 DEF TypeOK

\* Every step keeps the registry.
LEMMA NextRegistry == RegistryInv /\ [Next]_vars => RegistryInv'
<1> SUFFICES ASSUME RegistryInv, [Next]_vars PROVE RegistryInv'
  OBVIOUS
<1>1. CASE UNCHANGED vars
  BY <1>1 DEF vars, registry, output, RegistryInv, RegistrySound, TypeOK, RegistryConsistent, Working
<1>2. ASSUME NEW c \in Clients, Command(c) PROVE RegistryInv'
  <2>1. ASSUME NEW chs \in [1..Cardinality(subs[c]) -> subs[c]], Unsubscribe(c, chs) PROVE RegistryInv'
    BY <2>1, AllChannels, UnsubscribeRegistry DEF RegistryInv, RegistrySound
  <2> QED BY <1>2, <2>1, ArgsType, SubscribeRegistry, UnsubscribeRegistry, UnsubscribeNoneRegistry,
             PublishRegistry DEF Command, UnsubscribeAll
<1>3. ASSUME NEW c \in Clients, Run(c) PROVE RegistryInv'
  BY <1>3, SubscribeOneRegistry, PushRegistry, FlushRegistry, PublishDeliverRegistry,
     PublishEndRegistry, CleanupUnsubRegistry, QuietRegistry DEF Run
<1>4. ASSUME NEW c \in Clients, Disconnect(c) \/ Receive(c) \/ Break(c) PROVE RegistryInv'
  BY <1>4, QuietRegistry
<1> QED BY <1>1, <1>2, <1>3, <1>4 DEF Next

\* In every reachable state, for any connections, channels and limits, c.subs and
\* pubsub.chans (pubsub.go:8) are two copies of one relation, although a PUBLISH is
\* between two subscribers, and cleanup leaves no finished connection in it.
THEOREM RegistrySafe == Spec => []RegistrySound
<1>1. Init => RegistryInv
  BY InitRegistry
<1>2. RegistryInv /\ [Next]_vars => RegistryInv'
  BY NextRegistry
<1>3. RegistryInv => RegistrySound
  BY DEF RegistryInv
<1> QED BY <1>1, <1>2, <1>3, PTL DEF Spec

-----------------------------------------------------------------------------
(* What the stream tells.                                                  *)

\* No reply ends no subscription.
LEMMA NoneEnded == Ended(<<>>, Len(<<>>)) = {}
BY DEF Ended

\* The acknowledgement of a subscription.
LEMMA OwedSub ==
  ASSUME NEW s \in Seq(Items), NEW S, NEW ch \in Channels, NEW x \in Items,
         x.t = "sub", x.ch = ch, x.n = Cardinality(S \cup {ch}),
         Good(s), Owed(s, <<>>, S)
  PROVE  Good(s \o <<x>>) /\ Owed(s \o <<x>>, <<>>, S \cup {ch})
<1> DEFINE r == s \o <<x>>
           n == Len(s)
<1>1. n \in Nat /\ Len(r) = n + 1 /\ r[n + 1] = x /\ <<x>> \in Seq(Items) /\ Len(<<x>>) = 1
  OBVIOUS
<1>2. S = SubSet(s, n)
  BY NoneEnded DEF Owed
<1>3. SubSet(r, n + 1) = S \cup {ch}
  <2>1. \A e \in Channels : SubAt(r, e, n + 1) <=> SubAt(s, e, n) \/ e = ch
    BY SubAdded
  <2> QED BY <2>1, <1>2 DEF SubSet
<1>4. Right(r, n + 1)
  BY <1>1, <1>3 DEF Right
<1>5. Good(r)
  <2>1. \A k \in 1..Len(<<x>>) : Right(r, n + k)
    BY <1>1, <1>4
  <2> QED BY <1>1, <2>1, GoodLonger
<1>6. Owed(r, <<>>, S \cup {ch})
  <2>1. SubSet(r, Len(r)) = S \cup {ch}
    BY <1>1, <1>3
  <2> QED BY <2>1, NoneEnded DEF Owed
<1> QED BY <1>5, <1>6

\* The replies in c.out join the stream.
LEMMA OwedPush ==
  ASSUME NEW s \in Seq(Items), NEW o \in Seq(Items), NEW S, Good(s), Owed(s, o, S)
  PROVE  Good(s \o o) /\ Owed(s \o o, <<>>, S)
<1> DEFINE r == s \o o
           n == Len(s)
           now == SubSet(s, n)
<1>1. /\ n \in Nat /\ Len(o) \in Nat /\ Len(r) = n + Len(o)
      /\ \A i \in 1..Len(o) : r[n + i] = o[i]
  BY Cat
<1>2. \A i \in 1..Len(o) : o[i].t # "sub" /\ o[i].t # "msg"
  BY DEF Owed
<1>3. \A m \in 0..Len(o) : SubSet(r, n + m) = now \ Ended(o, m)
  <2> SUFFICES ASSUME NEW m \in 0..Len(o) PROVE SubSet(r, n + m) = now \ Ended(o, m)
    OBVIOUS
  <2>1. \A e \in Channels : SubAt(r, e, n + m) <=>
          SubAt(s, e, n) /\ \A j \in 1..m : ~ IsUnsub(o[j], e)
    BY <1>2, SubAfter
  <2> QED BY <2>1 DEF SubSet, Ended
<1>4. ASSUME NEW k \in 1..Len(o) PROVE Right(r, n + k)
  <2>1. k \in 0..Len(o) /\ r[n + k] = o[k]
    BY <1>1
  <2>2. SubSet(r, n + k) = now \ Ended(o, k)
    BY <2>1, <1>3
  <2>3. o[k].t = "unsub" => o[k].n = Cardinality(now \ Ended(o, k))
    BY DEF Owed
  <2> QED BY <2>1, <2>2, <2>3, <1>2 DEF Right
<1>5. Good(r)
  BY <1>4, GoodLonger
<1>6. S = SubSet(r, Len(r))
  <2>1. Len(o) \in 0..Len(o)
    BY <1>1
  <2>2. SubSet(r, n + Len(o)) = now \ Ended(o, Len(o))
    BY <2>1, <1>3
  <2> QED BY <2>2, <1>1 DEF Owed
<1>7. Owed(r, <<>>, S)
  BY <1>6, NoneEnded DEF Owed
<1> QED BY <1>5, <1>7

\* A message to a channel of the client.
LEMMA OwedMsg ==
  ASSUME NEW s \in Seq(Items), NEW o \in Seq(Items), NEW S, NEW x \in Items,
         x.t = "msg", x.ch \in S, Good(s), Owed(s, o, S)
  PROVE  Good(s \o <<x>>) /\ Owed(s \o <<x>>, o, S)
<1> DEFINE r == s \o <<x>>
           n == Len(s)
<1>1. n \in Nat /\ Len(r) = n + 1 /\ r[n + 1] = x /\ <<x>> \in Seq(Items) /\ Len(<<x>>) = 1
  OBVIOUS
<1>2. \A e : SubAt(r, e, n + 1) <=> SubAt(s, e, n)
  <2>1. \A i \in 1..Len(<<x>>) : <<x>>[i] = x
    OBVIOUS
  <2>2. \A i \in 1..Len(<<x>>) : <<x>>[i].t # "sub"
    BY <2>1
  <2>3. \A e : \A j \in 1..1 : ~ IsUnsub(<<x>>[j], e)
    BY <2>1, <1>1 DEF IsUnsub
  <2>4. 1 \in 0..Len(<<x>>)
    BY <1>1
  <2> QED BY <1>1, <2>2, <2>3, <2>4, SubAfter
<1>3. SubSet(r, Len(r)) = SubSet(s, n)
  BY <1>1, <1>2 DEF SubSet
<1>4. SubAt(r, x.ch, n)
  <2>1. SubAt(s, x.ch, n)
    BY DEF Owed, SubSet
  <2>2. n \in 0..Len(s)
    BY <1>1
  <2> QED BY <2>1, <2>2, <1>1, SubPrefix
<1>5. Right(r, n + 1)
  BY <1>1, <1>4 DEF Right
<1>6. Good(r)
  <2>1. \A k \in 1..Len(<<x>>) : Right(r, n + k)
    BY <1>1, <1>5
  <2> QED BY <1>1, <2>1, GoodLonger
<1> QED BY <1>3, <1>6 DEF Owed

\* UNSUBSCRIBE: its acknowledgements are still in c.out.
LEMMA OwedUnsub ==
  ASSUME TypeOK, NEW c \in Clients, NEW chs \in Seq(Channels), NEW s, Owed(s, <<>>, subs[c])
  PROVE  Owed(s, UnsubAcks(c, chs), subs[c] \ Elems(chs))
<1> DEFINE o == UnsubAcks(c, chs)
           now == SubSet(s, Len(s))
<1>1. subs[c] = now /\ subs[c] \in SUBSET Channels
  BY NoneEnded DEF Owed, TypeOK
<1>2. Len(o) = Len(chs) /\ Len(chs) \in Nat /\ DOMAIN chs = 1..Len(chs)
  BY AcksType
<1>3. ASSUME NEW i \in 1..Len(chs)
      PROVE  /\ chs[i] \in Channels /\ o[i].t = "unsub" /\ o[i].ch = chs[i]
             /\ o[i].n = Cardinality(now \ {chs[j] : j \in 1..i})
  <2>1. o[i] = SubAck("unsub", chs[i], Cardinality(subs[c] \ {chs[j] : j \in 1..i}))
    BY AcksType
  <2>2. subs[c] \ {chs[j] : j \in 1..i} \in SUBSET Channels
    BY <1>1
  <2>3. Cardinality(subs[c] \ {chs[j] : j \in 1..i}) \in Nat /\ chs[i] \in Channels
    BY <2>2, Counts
  <2> QED BY <1>1, <2>1, <2>3, AckType
<1> HIDE DEF o
<1>4. ASSUME NEW i \in 0..Len(chs) PROVE Ended(o, i) = {chs[j] : j \in 1..i}
  <2>1. \A j \in 1..i : j \in 1..Len(chs)
    BY <1>2
  <2> QED BY <2>1, <1>3 DEF Ended, IsUnsub
<1>5. Ended(o, Len(o)) = Elems(chs)
  <2>1. Len(chs) \in 0..Len(chs)
    BY <1>2
  <2> QED BY <2>1, <1>2, <1>4 DEF Elems
<1>6. ASSUME NEW i \in 1..Len(o)
      PROVE  o[i].t = "unsub" /\ o[i].n = Cardinality(now \ Ended(o, i))
  <2>1. i \in 1..Len(chs) /\ i \in 0..Len(chs)
    BY <1>2
  <2> QED BY <2>1, <1>3, <1>4
<1>7. Owed(s, o, subs[c] \ Elems(chs))
  BY <1>1, <1>5, <1>6 DEF Owed
<1> QED BY <1>7 DEF o

\* UNSUBSCRIBE of a client without subscriptions.
LEMMA OwedNone ==
  ASSUME NEW s, Owed(s, <<>>, {})
  PROVE  Owed(s, <<SubAck("unsub", NoChannel, 0)>>, {})
<1> DEFINE x == SubAck("unsub", NoChannel, 0)
<1>1. SubSet(s, Len(s)) = {}
  BY NoneEnded DEF Owed
<1>2. x.t = "unsub" /\ x.n = 0
  BY AckType
<1>3. Cardinality({}) = 0
  BY FS_EmptySet
<1> HIDE DEF x
<1>4. Len(<<x>>) = 1 /\ \A i \in 1..Len(<<x>>) : <<x>>[i] = x
  OBVIOUS
<1>5. \A i : {} \ Ended(<<x>>, i) = {}
  OBVIOUS
<1>6. Owed(s, <<x>>, {})
  BY <1>1, <1>2, <1>3, <1>4, <1>5 DEF Owed
<1> QED BY <1>6 DEF x

\* The reply of a PUBLISH.
LEMMA OwedReply ==
  ASSUME NEW s, NEW S, NEW n \in Nat, Owed(s, <<>>, S)
  PROVE  Owed(s, <<PublishReply(n)>>, S) /\ Ended(<<PublishReply(n)>>, 1) = {}
<1> DEFINE x == PublishReply(n)
<1>1. SubSet(s, Len(s)) = S
  BY NoneEnded DEF Owed
<1>2. x.t = "reply"
  BY DEF PublishReply
<1> HIDE DEF x
<1>3. Len(<<x>>) = 1 /\ \A i \in 1..Len(<<x>>) : <<x>>[i] = x
  OBVIOUS
<1>4. Ended(<<x>>, 1) = {}
  BY <1>2, <1>3 DEF Ended, IsUnsub
<1>5. Owed(s, <<x>>, S)
  BY <1>1, <1>2, <1>3, <1>4 DEF Owed
<1> QED BY <1>4, <1>5 DEF x

\* In a stream that tells of no subscription to ch, nothing of ch is open.
LEMMA LatestAnyway ==
  ASSUME NEW s \in Seq(Items), NEW p, NEW ch, NEW k, Good(s), ~ SubAt(s, ch, Len(s))
  PROVE  Latest(s, p, ch, k)
<1> SUFFICES ASSUME NEW i \in 1..Len(s), IsMsg(s[i], p, ch), \A j \in i..Len(s) : ~ IsUnsub(s[j], ch)
             PROVE  FALSE
  BY DEF Latest
<1>1. SubAt(s, ch, i - 1)
  BY DEF Good, Right, IsMsg
<1>2. PICK l \in 1..(i - 1) : IsSub(s[l], ch) /\ \A j \in l..(i - 1) : ~ IsUnsub(s[j], ch)
  BY <1>1 DEF SubAt
<1>3. Len(s) \in Nat
  OBVIOUS
<1>4. l \in 1..Len(s) /\ \A j \in l..Len(s) : j \in l..(i - 1) \/ j \in i..Len(s)
  BY <1>3
<1>5. SubAt(s, ch, Len(s))
  BY <1>2, <1>4 DEF SubAt
<1> QED BY <1>5

-----------------------------------------------------------------------------
(* Steps, and what they do to the stream of a connection.                  *)

\* The stream of a connection is a sequence of items.
LEMMA StreamType ==
  ASSUME TypeOK, NEW c \in Clients
  PROVE  Stream(c) \in Seq(Items) /\ received[c] \in Seq(Items) /\ queue[c] \in Seq(Items)
BY DEF TypeOK, Stream, Items

\* Concatenation is associative.
LEMMA Assoc ==
  ASSUME NEW q \in Seq(Items), NEW r \in Seq(Items), NEW t \in Seq(Items)
  PROVE  q \o (r \o t) = (q \o r) \o t
<1>1. (q \o r) \o t = q \o (r \o t)
  BY ConcatAssociative
<1> QED BY <1>1

\* deliverLocked adds to the stream, or drops what is queued, or does nothing.
LEMMA Delivered ==
  ASSUME TypeOK, NEW c \in Clients, NEW b \in Seq(Items), Deliver(c, b), UNCHANGED received
  PROVE  /\ \A d \in Clients : d # c => /\ Stream(d)' = Stream(d)
                                       /\ dead'[d] = dead[d] /\ broken'[d] = broken[d]
         /\ \/ /\ Stream(c)' = Stream(c) \o b /\ ~dead[c] /\ ~broken[c]
            \/ /\ Stream(c)' = Stream(c) /\ (dead'[c] \/ broken'[c])
            \/ /\ Stream(c)' = received[c] /\ broken'[c]
<1>1. received[c] \in Seq(Items) /\ queue[c] \in Seq(Items)
  BY StreamType
<1>2. CASE (dead[c] \/ broken[c]) /\ UNCHANGED output
  BY <1>2 DEF output, Stream
<1>3. CASE /\ ~dead[c] /\ ~broken[c]
           /\ queue' = [queue EXCEPT ![c] = @ \o b]
           /\ UNCHANGED <<dead, broken>>
  <2>1. queue'[c] = queue[c] \o b /\ \A d \in Clients : d # c => queue'[d] = queue[d]
    BY <1>3 DEF TypeOK
  <2>2. received[c] \o (queue[c] \o b) = (received[c] \o queue[c]) \o b
    BY <1>1, Assoc
  <2> QED BY <1>3, <2>1, <2>2 DEF Stream
<1>4. CASE /\ dead' = [dead EXCEPT ![c] = TRUE]
           /\ broken' = [broken EXCEPT ![c] = TRUE]
           /\ queue' = [queue EXCEPT ![c] = <<>>]
  <2>1. /\ queue'[c] = <<>> /\ broken'[c]
        /\ \A d \in Clients : d # c => queue'[d] = queue[d] /\ dead'[d] = dead[d] /\ broken'[d] = broken[d]
    BY <1>4 DEF TypeOK
  <2>2. received[c] \o <<>> = received[c]
    BY <1>1
  <2> QED BY <2>1, <2>2 DEF Stream
<1> QED BY <1>2, <1>3, <1>4 DEF Deliver

\* A connection with the same stream, replies and subscriptions.
LEMMA KeepTold ==
  ASSUME NEW d, ToldAt(d), Stream(d)' = Stream(d), out'[d] = out[d], subs'[d] = subs[d],
         Alive(d)' => Alive(d)
  PROVE  ToldAt(d)'
BY DEF ToldAt

\* A connection that does not live any more.
LEMMA DeadTold ==
  ASSUME NEW d, Good(Stream(d)'), ~ Alive(d)'
  PROVE  ToldAt(d)'
BY DEF ToldAt

\* The queue of a connection is dropped.
LEMMA CutGood ==
  ASSUME TypeOK, NEW d \in Clients, ToldAt(d)
  PROVE  Good(received[d])
BY StreamType, GoodPrefix DEF ToldAt, Stream

\* ... and its messages are in order.
LEMMA CutFed ==
  ASSUME TypeOK, NEW d \in Clients, NEW p, NEW ch, FedAt(d, p, ch)
  PROVE  InOrder(received[d], p, ch) /\ Bounded(received[d], p, ch, Offered(p, ch, d))
BY StreamType, OrderPrefix, BoundedPrefix DEF FedAt, Stream

\* The messages of a connection with the same stream.
LEMMA KeepFed ==
  ASSUME NEW d, NEW p, NEW ch, FedAt(d, p, ch), Stream(d)' = Stream(d),
         Offered(p, ch, d)' = Offered(p, ch, d),
         Alive(d)' => Alive(d) /\ Ended(out[d], Len(out[d])) \subseteq Ended(out[d], Len(out[d]))'
  PROVE  FedAt(d, p, ch)'
BY DEF FedAt

\* The messages of a connection that does not live any more.
LEMMA DeadFed ==
  ASSUME NEW d, NEW p, NEW ch, InOrder(Stream(d)', p, ch),
         Bounded(Stream(d)', p, ch, Offered(p, ch, d)'), ~ Alive(d)'
  PROVE  FedAt(d, p, ch)'
BY DEF FedAt

\* Steps that leave every stream as it is: only c's replies and subscriptions may change.
LEMMA Still ==
  ASSUME Told, Fed, NEW c \in Clients,
         \A p \in Clients, ch \in Channels, d \in Clients : Offered(p, ch, d)' = Offered(p, ch, d),
         \A d \in Clients : Stream(d)' = Stream(d) /\ (Alive(d)' => Alive(d)),
         \A d \in Clients : d # c => out'[d] = out[d] /\ subs'[d] = subs[d],
         Alive(c)' => /\ Owed(Stream(c), out'[c], subs'[c])
                      /\ Ended(out[c], Len(out[c])) \subseteq Ended(out[c], Len(out[c]))'
  PROVE  Told' /\ Fed'
<1>1. ASSUME NEW d \in Clients PROVE ToldAt(d)'
  <2>1. ToldAt(d)
    BY DEF Told
  <2>2. CASE d = c
    BY <2>1, <2>2 DEF ToldAt
  <2>3. CASE d # c
    BY <2>1, <2>3, KeepTold
  <2> QED BY <2>2, <2>3
<1>2. ASSUME NEW d \in Clients, NEW p \in Clients, NEW ch \in Channels PROVE FedAt(d, p, ch)'
  <2>1. FedAt(d, p, ch)
    BY DEF Fed
  <2>2. Offered(p, ch, d)' = Offered(p, ch, d)
    BY DEF Offered
  <2>3. Alive(d)' => Ended(out[d], Len(out[d])) \subseteq Ended(out[d], Len(out[d]))'
    <3>1. CASE d = c
      BY <3>1
    <3>2. CASE d # c
      <4>1. Ended(out[d], Len(out[d]))' = Ended(out[d], Len(out[d]))
        BY <3>2 DEF Ended
      <4> QED BY <4>1
    <3> QED BY <3>1, <3>2
  <2> QED BY <2>1, <2>2, <2>3, KeepFed
<1>3. Told'
  BY <1>1 DEF Told
<1>4. Fed'
  BY <1>2 DEF Fed
<1> QED BY <1>3, <1>4

\* The command's own replies b reach the stream of c.
LEMMA Answered ==
  ASSUME TypeOK, Told, Fed, NEW c \in Clients, NEW b \in Seq(Items),
         UNCHANGED <<npub, pub>>, pc[c] # "close",
         \A i \in 1..Len(b) : b[i].t # "msg",
         \A d \in Clients : d # c => /\ Stream(d)' = Stream(d) /\ (Alive(d)' => Alive(d))
                                    /\ out'[d] = out[d] /\ subs'[d] = subs[d],
         \/ Stream(c)' = Stream(c) \o b /\ ~dead[c] /\ ~broken[c]
         \/ Stream(c)' = Stream(c) /\ (dead'[c] \/ broken'[c])
         \/ Stream(c)' = received[c] /\ broken'[c],
         ToldAt(c) /\ Alive(c) =>
           Good(Stream(c) \o b) /\ Owed(Stream(c) \o b, out'[c], subs'[c]),
         \A ch \in Ended(out[c], Len(out[c])) : \E i \in 1..Len(b) : IsUnsub(b[i], ch)
  PROVE  Told' /\ Fed'
<1>1. ToldAt(c) /\ Stream(c) \in Seq(Items) /\ Good(Stream(c)) /\ Good(received[c])
  BY StreamType, CutGood DEF Told, ToldAt
<1>2. \A p \in Clients, ch \in Channels, d \in Clients : Offered(p, ch, d)' = Offered(p, ch, d)
  BY DEF Offered
<1>3. ToldAt(c)'
  <2>1. CASE Stream(c)' = Stream(c) \o b /\ ~dead[c] /\ ~broken[c]
    <3>1. Alive(c)
      BY <2>1 DEF Alive
    <3> QED BY <1>1, <2>1, <3>1 DEF ToldAt
  <2>2. CASE dead'[c] \/ broken'[c]
    <3>1. ~ Alive(c)'
      BY <2>2 DEF Alive
    <3>2. CASE Stream(c)' = Stream(c) \/ Stream(c)' = received[c]
      BY <1>1, <3>1, <3>2, DeadTold
    <3> QED BY <3>2, <2>1
  <2> QED BY <2>1, <2>2
<1>4. ASSUME NEW p \in Clients, NEW ch \in Channels PROVE FedAt(c, p, ch)'
  <2> DEFINE k == Offered(p, ch, c)
  <2>1. /\ FedAt(c, p, ch) /\ InOrder(Stream(c), p, ch) /\ Bounded(Stream(c), p, ch, k)
        /\ InOrder(received[c], p, ch) /\ Bounded(received[c], p, ch, k) /\ k' = k
    BY <1>2, CutFed DEF Fed, FedAt
  <2> HIDE DEF k
  <2>2. CASE Stream(c)' = Stream(c) \o b /\ ~dead[c] /\ ~broken[c]
    <3>1. Alive(c)
      BY <2>2 DEF Alive
    <3>2. Latest(Stream(c), p, ch, k) \/ \E i \in 1..Len(b) : IsUnsub(b[i], ch)
      BY <2>1, <3>1 DEF FedAt, k
    <3>3. \A i \in 1..Len(b) : ~ IsMsg(b[i], p, ch)
      BY DEF IsMsg
    <3>4. /\ InOrder(Stream(c) \o b, p, ch) /\ Bounded(Stream(c) \o b, p, ch, k)
          /\ Latest(Stream(c) \o b, p, ch, k)
      BY <1>1, <2>1, <3>2, <3>3, OtherItems
    <3> QED BY <3>4, <2>2, <2>1 DEF FedAt, k
  <2>3. CASE dead'[c] \/ broken'[c]
    <3>1. ~ Alive(c)'
      BY <2>3 DEF Alive
    <3>2. CASE Stream(c)' = Stream(c) \/ Stream(c)' = received[c]
      BY <2>1, <3>1, <3>2, DeadFed DEF k
    <3> QED BY <3>2, <2>2
  <2> QED BY <2>2, <2>3
<1>5. ASSUME NEW d \in Clients, d # c, NEW p \in Clients, NEW ch \in Channels
      PROVE  ToldAt(d)' /\ FedAt(d, p, ch)'
  <2>1. ToldAt(d) /\ FedAt(d, p, ch)
    BY DEF Told, Fed
  <2>2. Ended(out[d], Len(out[d]))' = Ended(out[d], Len(out[d]))
    BY <1>5 DEF Ended
  <2> QED BY <1>2, <1>5, <2>1, <2>2, KeepTold, KeepFed
<1>6. ASSUME NEW d \in Clients, d # c PROVE ToldAt(d)'
  BY <1>6, KeepTold DEF Told
<1>7. Told'
  BY <1>3, <1>6 DEF Told
<1>8. Fed'
  BY <1>4, <1>5 DEF Fed
<1> QED BY <1>7, <1>8

\* Init: nothing is sent, nothing is told.
LEMMA InitStream == Init => Told /\ Fed
<1> SUFFICES ASSUME Init PROVE Told /\ Fed
  OBVIOUS
<1>1. \A c \in Clients : Stream(c) = <<>> /\ out[c] = <<>> /\ subs[c] = {}
  BY DEF Init, Stream
<1>2. SubSet(<<>>, Len(<<>>)) = {} /\ Good(<<>>)
  BY DEF SubSet, SubAt, Good
<1>3. Owed(<<>>, <<>>, {})
  BY <1>2, NoneEnded DEF Owed
<1>4. Told
  BY <1>1, <1>2, <1>3 DEF Told, ToldAt
<1>5. \A p, ch, k : InOrder(<<>>, p, ch) /\ Bounded(<<>>, p, ch, k) /\ Latest(<<>>, p, ch, k)
  BY DEF InOrder, Bounded, Latest
<1>6. Fed
  BY <1>1, <1>5 DEF Fed, FedAt
<1> QED BY <1>4, <1>6

\* What a client without replies in c.out has been told.
LEMMA NothingOwed ==
  ASSUME RegistryInv, Told, NEW c \in Clients, pc[c] \notin {"push", "close"}, Alive(c)
  PROVE  out[c] = <<>> /\ Owed(Stream(c), <<>>, subs[c])
BY DEF RegistryInv, Working, Told, ToldAt

\* SUBSCRIBE begins: nothing is sent yet.
LEMMA SubscribeStream ==
  ASSUME RegistryInv, Told, Fed, NEW c \in Clients, NEW chs, Subscribe(c, chs)
  PROVE  Told' /\ Fed'
<1> USE DEF RegistryInv, RegistrySound
<1>1. /\ \A d \in Clients : Stream(d)' = Stream(d)
      /\ UNCHANGED <<npub, pub, subs, out, dead, broken>>
  BY DEF Subscribe, Stream, registry, output
<1>2. \A d \in Clients : Alive(d)' => Alive(d)
  BY <1>1 DEF Subscribe, StartCommand, Alive, TypeOK
<1>3. Alive(c)' => Owed(Stream(c), out'[c], subs'[c])
  BY <1>1, <1>2 DEF Told, ToldAt
<1>4. Ended(out[c], Len(out[c]))' = Ended(out[c], Len(out[c]))
  BY <1>1 DEF Ended
<1>5. \A p \in Clients : out'[p] = out[p] /\ subs'[p] = subs[p]
  BY <1>1
<1>6. \A p \in Clients, ch \in Channels, d \in Clients : Offered(p, ch, d)' = Offered(p, ch, d)
  BY <1>1 DEF Offered
<1> QED BY <1>1, <1>2, <1>3, <1>4, <1>5, <1>6, Still

\* UNSUBSCRIBE: the registry changes, and c.out says so.
LEMMA UnsubscribeStream ==
  ASSUME RegistryInv, Told, Fed, NEW c \in Clients, NEW chs \in Seq(Channels), Unsubscribe(c, chs)
  PROVE  Told' /\ Fed'
<1> USE DEF RegistryInv, RegistrySound
<1>1. /\ \A d \in Clients : Stream(d)' = Stream(d)
      /\ UNCHANGED <<npub, pub, dead, broken>>
  BY DEF Unsubscribe, Stream, output
<1>2. /\ pc[c] = "exec" /\ pc' = [pc EXCEPT ![c] = "push"]
      /\ out' = [out EXCEPT ![c] = UnsubAcks(c, chs)]
      /\ subs' = [subs EXCEPT ![c] = @ \ Elems(chs)]
  BY DEF Unsubscribe, StartCommand, UnsubEach
<1>3. /\ out'[c] = UnsubAcks(c, chs) /\ subs'[c] = subs[c] \ Elems(chs)
      /\ \A d \in Clients : d # c => out'[d] = out[d] /\ subs'[d] = subs[d]
  BY <1>2 DEF TypeOK
<1>4. \A d \in Clients : Alive(d)' => Alive(d)
  BY <1>1, <1>2 DEF Alive, TypeOK
<1>5. ASSUME Alive(c)' PROVE Owed(Stream(c), out'[c], subs'[c])
  <2>1. out[c] = <<>> /\ Owed(Stream(c), <<>>, subs[c])
    BY <1>2, <1>4, <1>5, NothingOwed
  <2> QED BY <2>1, <1>3, OwedUnsub
<1>6. Ended(out[c], Len(out[c])) = {}
  <2>1. out[c] = <<>>
    BY <1>2 DEF Working
  <2> QED BY <2>1, NoneEnded
<1>7. \A p \in Clients, ch \in Channels, d \in Clients : Offered(p, ch, d)' = Offered(p, ch, d)
  BY <1>1 DEF Offered
<1> QED BY <1>1, <1>3, <1>4, <1>5, <1>6, <1>7, Still

\* UNSUBSCRIBE of a client without subscriptions.
LEMMA UnsubscribeNoneStream ==
  ASSUME RegistryInv, Told, Fed, NEW c \in Clients, UnsubscribeNone(c)
  PROVE  Told' /\ Fed'
<1> USE DEF RegistryInv, RegistrySound
<1>1. /\ \A d \in Clients : Stream(d)' = Stream(d)
      /\ UNCHANGED <<npub, pub, dead, broken, subs>> /\ subs[c] = {}
  BY DEF UnsubscribeNone, Stream, output, registry
<1>2. /\ pc[c] = "exec" /\ pc' = [pc EXCEPT ![c] = "push"]
      /\ out' = [out EXCEPT ![c] = <<SubAck("unsub", NoChannel, 0)>>]
  BY DEF UnsubscribeNone, StartCommand
<1>3. /\ out'[c] = <<SubAck("unsub", NoChannel, 0)>>
      /\ \A d \in Clients : d # c => out'[d] = out[d]
  BY <1>2 DEF TypeOK
<1>4. \A d \in Clients : Alive(d)' => Alive(d)
  BY <1>1, <1>2 DEF Alive, TypeOK
<1>5. ASSUME Alive(c)' PROVE Owed(Stream(c), out'[c], subs'[c])
  <2>1. out[c] = <<>> /\ Owed(Stream(c), <<>>, subs[c])
    BY <1>2, <1>4, <1>5, NothingOwed
  <2> QED BY <2>1, <1>1, <1>3, OwedNone
<1>6. Ended(out[c], Len(out[c])) = {}
  <2>1. out[c] = <<>>
    BY <1>2 DEF Working
  <2> QED BY <2>1, NoneEnded
<1>7. \A p \in Clients, ch \in Channels, d \in Clients : Offered(p, ch, d)' = Offered(p, ch, d)
  BY <1>1 DEF Offered
<1> QED BY <1>1, <1>3, <1>4, <1>5, <1>6, <1>7, Still

\* The reply of PUBLISH is in c.out.
LEMMA PublishEndStream ==
  ASSUME RegistryInv, Told, Fed, NEW c \in Clients, PublishEnd(c)
  PROVE  Told' /\ Fed'
<1> USE DEF RegistryInv, RegistrySound
<1>1. /\ \A d \in Clients : Stream(d)' = Stream(d)
      /\ UNCHANGED <<npub, dead, broken, subs>>
  BY DEF PublishEnd, Stream, output, registry
<1>2. /\ pc[c] = "publish" /\ pc' = [pc EXCEPT ![c] = "push"]
      /\ out' = [out EXCEPT ![c] = <<PublishReply(pub[c].n)>>]
      /\ pub' = [pub EXCEPT ![c] = NoPublish] /\ pub[c].left = {}
  BY DEF PublishEnd
<1>3. /\ out'[c] = <<PublishReply(pub[c].n)>>
      /\ \A d \in Clients : d # c => out'[d] = out[d]
  BY <1>2 DEF TypeOK
<1>4. \A d \in Clients : Alive(d)' => Alive(d)
  BY <1>1, <1>2 DEF Alive, TypeOK
<1>5. ASSUME Alive(c)' PROVE Owed(Stream(c), out'[c], subs'[c])
  <2>1. out[c] = <<>> /\ Owed(Stream(c), <<>>, subs[c])
    BY <1>2, <1>4, <1>5, NothingOwed
  <2>2. pub[c].n \in Nat
    BY DEF TypeOK
  <2> QED BY <2>1, <2>2, <1>1, <1>3, OwedReply
<1>6. Ended(out[c], Len(out[c])) = {}
  <2>1. out[c] = <<>>
    BY <1>2 DEF Working
  <2> QED BY <2>1, NoneEnded
<1>7. ASSUME NEW p \in Clients, NEW ch \in Channels, NEW d \in Clients
      PROVE  Offered(p, ch, d)' = Offered(p, ch, d)
  <2>1. NoPublish.left = {}
    BY DEF NoPublish
  <2>2. pub'[c] = NoPublish /\ \A d2 \in Clients : d2 # c => pub'[d2] = pub[d2]
    BY <1>2 DEF TypeOK
  <2>3. CASE p = c
    BY <1>1, <1>2, <2>1, <2>2, <2>3 DEF Offered
  <2>4. CASE p # c
    BY <1>1, <2>2, <2>4 DEF Offered
  <2> QED BY <2>3, <2>4
<1> QED BY <1>1, <1>3, <1>4, <1>5, <1>6, <1>7, Still

\* QUIT and cleanup leave the streams alone; what is queued still goes out.
LEMMA EndStream ==
  ASSUME RegistryInv, Told, Fed, NEW c \in Clients,
         Disconnect(c) \/ CleanupUnsub(c) \/ CleanupClose(c)
  PROVE  Told' /\ Fed'
<1> USE DEF RegistryInv, RegistrySound
<1>1. /\ \A d \in Clients : Stream(d)' = Stream(d)
      /\ UNCHANGED <<npub, pub, broken, out>>
  BY DEF Disconnect, CleanupUnsub, CleanupClose, Stream, output, registry
<1>2. \A d \in Clients : d # c => pc'[d] = pc[d] /\ dead'[d] = dead[d] /\ subs'[d] = subs[d]
  <2>1. CASE Disconnect(c)
    BY <2>1 DEF Disconnect, output, registry, TypeOK
  <2>2. CASE CleanupUnsub(c)
    BY <2>2 DEF CleanupUnsub, UnsubEach, output, registry, TypeOK
  <2>3. CASE CleanupClose(c)
    BY <2>3 DEF CleanupClose, output, registry, TypeOK
  <2> QED BY <2>1, <2>2, <2>3
<1>3. Alive(c)' => Alive(c) /\ subs'[c] = subs[c]
  <2>1. CASE Disconnect(c)
    BY <2>1 DEF Disconnect, output, registry, TypeOK, Alive
  <2>2. CASE CleanupUnsub(c)
    BY <2>2 DEF CleanupUnsub, output, TypeOK, Alive
  <2>3. CASE CleanupClose(c)
    BY <2>3 DEF CleanupClose, TypeOK, Alive
  <2> QED BY <2>1, <2>2, <2>3
<1>4. \A d \in Clients : Alive(d)' => Alive(d)
  BY <1>1, <1>2, <1>3 DEF Alive
<1>5. Alive(c)' => Owed(Stream(c), out'[c], subs'[c])
  BY <1>1, <1>3 DEF Told, ToldAt
<1>6. Ended(out[c], Len(out[c]))' = Ended(out[c], Len(out[c]))
  BY <1>1 DEF Ended
<1>7. \A p \in Clients, ch \in Channels, d \in Clients : Offered(p, ch, d)' = Offered(p, ch, d)
  BY <1>1 DEF Offered
<1>8. \A d \in Clients : out'[d] = out[d]
  BY <1>1
<1> QED BY <1>1, <1>2, <1>4, <1>5, <1>6, <1>7, <1>8, Still

\* The peer takes the next item: it moves from the queue to what was received.
LEMMA ReceiveStream ==
  ASSUME RegistryInv, Told, Fed, NEW c \in Clients, Receive(c)
  PROVE  Told' /\ Fed'
<1> USE DEF RegistryInv, RegistrySound
<1>1. UNCHANGED <<npub, pub, pc, dead, broken, out, subs>>
  BY DEF Receive, registry
<1>2. \A d \in Clients : Stream(d)' = Stream(d)
  <2>1. /\ queue[c] \in Seq(Items) /\ received[c] \in Seq(Items) /\ queue[c] # <<>>
    BY StreamType DEF Receive
  <2>2. PICK q \in Seq(Items), r \in Seq(Items) : q = queue[c] /\ r = received[c] /\ q # <<>>
    BY <2>1
  <2>3. Head(q) \in Items /\ Tail(q) \in Seq(Items) /\ q = <<Head(q)>> \o Tail(q)
    BY <2>2
  <2>4. Append(r, Head(q)) = r \o <<Head(q)>> /\ <<Head(q)>> \in Seq(Items)
    BY <2>3
  <2>5. r \o (<<Head(q)>> \o Tail(q)) = (r \o <<Head(q)>>) \o Tail(q)
    BY <2>3, <2>4, Assoc
  <2>6. /\ received'[c] = Append(r, Head(q)) /\ queue'[c] = Tail(q)
        /\ \A d \in Clients : d # c => received'[d] = received[d] /\ queue'[d] = queue[d]
    BY <2>2 DEF Receive, TypeOK
  <2>7. Stream(c)' = Stream(c)
    BY <2>2, <2>3, <2>4, <2>5, <2>6 DEF Stream
  <2> QED BY <2>6, <2>7 DEF Stream
<1>3. \A d \in Clients : Alive(d)' => Alive(d)
  BY <1>1 DEF Alive
<1>4. Alive(c)' => Owed(Stream(c), out'[c], subs'[c])
  BY <1>1, <1>3 DEF Told, ToldAt
<1>5. Ended(out[c], Len(out[c]))' = Ended(out[c], Len(out[c]))
  BY <1>1 DEF Ended
<1>6. \A p \in Clients, ch \in Channels, d \in Clients : Offered(p, ch, d)' = Offered(p, ch, d)
  BY <1>1 DEF Offered
<1>7. \A d \in Clients : out'[d] = out[d] /\ subs'[d] = subs[d]
  BY <1>1
<1> QED BY <1>2, <1>3, <1>4, <1>5, <1>6, <1>7, Still

\* The connection breaks, and what is queued is lost.
LEMMA BreakStream ==
  ASSUME RegistryInv, Told, Fed, NEW c \in Clients, Break(c)
  PROVE  Told' /\ Fed'
<1> USE DEF RegistryInv, RegistrySound
<1>1. UNCHANGED <<npub, pub, pc, dead, out, subs, received>>
  BY DEF Break, registry
<1>2. /\ queue'[c] = <<>> /\ broken'[c]
      /\ \A d \in Clients : d # c => queue'[d] = queue[d] /\ broken'[d] = broken[d]
  BY DEF Break, TypeOK
<1>3. Stream(c)' = received[c]
  <2>1. received[c] \in Seq(Items)
    BY StreamType
  <2>2. received[c] \o <<>> = received[c]
    BY <2>1
  <2> QED BY <1>1, <1>2, <2>2 DEF Stream
<1>4. ~ Alive(c)'
  BY <1>2 DEF Alive
<1>5. \A p \in Clients, ch \in Channels, d \in Clients : Offered(p, ch, d)' = Offered(p, ch, d)
  BY <1>1 DEF Offered
<1>6. ASSUME NEW d \in Clients, d # c
      PROVE  Stream(d)' = Stream(d) /\ (Alive(d)' => Alive(d)) /\ out'[d] = out[d] /\ subs'[d] = subs[d]
  BY <1>1, <1>2, <1>6 DEF Stream, Alive
<1>7. ASSUME NEW d \in Clients PROVE ToldAt(d)'
  <2>1. ToldAt(d)
    BY DEF Told
  <2>2. CASE d = c
    BY <2>1, <2>2, <1>3, <1>4, CutGood, DeadTold
  <2>3. CASE d # c
    BY <2>1, <2>3, <1>6, KeepTold
  <2> QED BY <2>2, <2>3
<1>8. ASSUME NEW d \in Clients, NEW p \in Clients, NEW ch \in Channels PROVE FedAt(d, p, ch)'
  <2>1. FedAt(d, p, ch)
    BY DEF Fed
  <2>2. CASE d = c
    <3>1. InOrder(received[c], p, ch) /\ Bounded(received[c], p, ch, Offered(p, ch, c))
      BY <2>1, <2>2, CutFed
    <3> QED BY <3>1, <2>2, <1>3, <1>4, <1>5, DeadFed
  <2>3. CASE d # c
    <3>1. Ended(out[d], Len(out[d]))' = Ended(out[d], Len(out[d]))
      BY <1>1 DEF Ended
    <3> QED BY <2>1, <2>3, <3>1, <1>5, <1>6, KeepFed
  <2> QED BY <2>2, <2>3
<1> QED BY <1>7, <1>8 DEF Told, Fed

\* The replies of a command in c.out are none of them messages.
LEMMA RepliesOnly ==
  ASSUME TypeOK, NEW c \in Clients
  PROVE  /\ out[c] \in Seq(Items)
         /\ \A i \in 1..Len(out[c]) : out[c][i].t # "msg"
<1>1. out[c] \in Seq(Replies)
  BY DEF TypeOK
<1>2. \A x \in Replies : x.t # "msg"
  BY DEF Replies
<1> QED BY <1>1, <1>2 DEF Items

\* pushAsync: what c.out owes joins the stream.
LEMMA PushStream ==
  ASSUME RegistryInv, Told, Fed, NEW c \in Clients, Push(c)
  PROVE  Told' /\ Fed'
<1> USE DEF RegistryInv, RegistrySound
<1> DEFINE b == out[c]
<1>1. /\ pc[c] = "push" /\ Deliver(c, b)
      /\ out' = [out EXCEPT ![c] = <<>>] /\ pc' = [pc EXCEPT ![c] = "exec"]
      /\ UNCHANGED <<pub, npub, subs, received>>
  BY DEF Push, registry
<1>2. b \in Seq(Items) /\ \A i \in 1..Len(b) : b[i].t # "msg"
  BY RepliesOnly
<1>3. /\ \A d \in Clients : d # c => /\ Stream(d)' = Stream(d)
                                    /\ dead'[d] = dead[d] /\ broken'[d] = broken[d]
      /\ \/ Stream(c)' = Stream(c) \o b /\ ~dead[c] /\ ~broken[c]
         \/ Stream(c)' = Stream(c) /\ (dead'[c] \/ broken'[c])
         \/ Stream(c)' = received[c] /\ broken'[c]
  BY <1>1, <1>2, Delivered
<1>4. out'[c] = <<>> /\ subs'[c] = subs[c]
  BY <1>1 DEF TypeOK
<1>5. \A d \in Clients : d # c => /\ Stream(d)' = Stream(d) /\ (Alive(d)' => Alive(d))
                                /\ out'[d] = out[d] /\ subs'[d] = subs[d]
  BY <1>1, <1>3 DEF TypeOK, Alive
<1>6. ASSUME ToldAt(c), Alive(c)
      PROVE  Good(Stream(c) \o b) /\ Owed(Stream(c) \o b, out'[c], subs'[c])
  BY <1>2, <1>4, <1>6, StreamType, OwedPush DEF ToldAt
<1>7. \A ch \in Ended(out[c], Len(out[c])) : \E i \in 1..Len(b) : IsUnsub(b[i], ch)
  BY DEF Ended
<1> HIDE DEF b
<1>8. UNCHANGED <<npub, pub>> /\ pc[c] # "close"
  BY <1>1
<1> QED BY <1>2, <1>3, <1>5, <1>6, <1>7, <1>8, Answered

\* flush does the same, or finds the connection broken.
LEMMA FlushStream ==
  ASSUME RegistryInv, Told, Fed, NEW c \in Clients, Flush(c)
  PROVE  Told' /\ Fed'
<1> USE DEF RegistryInv, RegistrySound
<1> DEFINE b == out[c]
<1>1. /\ pc[c] = "push" /\ out' = [out EXCEPT ![c] = <<>>]
      /\ UNCHANGED <<pub, npub, subs, received, dead, broken>>
  BY DEF Flush, registry
<1>2. \A d \in Clients : d # c => pc'[d] = pc[d] /\ queue'[d] = queue[d] /\ out'[d] = out[d]
  BY DEF Flush, TypeOK
<1>3. \/ ~broken[c] /\ queue'[c] = queue[c] \o b
      \/ broken'[c] /\ queue'[c] = queue[c]
  BY DEF Flush, TypeOK
<1>4. b \in Seq(Items) /\ \A i \in 1..Len(b) : b[i].t # "msg"
  BY RepliesOnly
<1>5. \/ Stream(c)' = Stream(c) \o b /\ ~dead[c] /\ ~broken[c]
      \/ Stream(c)' = Stream(c) /\ (dead'[c] \/ broken'[c])
      \/ Stream(c)' = received[c] /\ broken'[c]
  <2>1. CASE ~broken[c] /\ queue'[c] = queue[c] \o b
    <3>1. ~dead[c]
      BY <1>1, <2>1 DEF Working
    <3>2. received[c] \o (queue[c] \o b) = (received[c] \o queue[c]) \o b
      BY <1>4, StreamType, Assoc
    <3> QED BY <1>1, <2>1, <3>1, <3>2 DEF Stream
  <2>2. CASE broken'[c] /\ queue'[c] = queue[c]
    BY <1>1, <2>2 DEF Stream
  <2> QED BY <1>3, <2>1, <2>2
<1>6. out'[c] = <<>> /\ subs'[c] = subs[c]
  BY <1>1 DEF TypeOK
<1>7. \A d \in Clients : d # c => /\ Stream(d)' = Stream(d) /\ (Alive(d)' => Alive(d))
                                /\ out'[d] = out[d] /\ subs'[d] = subs[d]
  BY <1>1, <1>2 DEF Alive, Stream
<1>8. ASSUME ToldAt(c), Alive(c)
      PROVE  Good(Stream(c) \o b) /\ Owed(Stream(c) \o b, out'[c], subs'[c])
  BY <1>4, <1>6, <1>8, StreamType, OwedPush DEF ToldAt
<1>9. \A ch \in Ended(out[c], Len(out[c])) : \E i \in 1..Len(b) : IsUnsub(b[i], ch)
  BY DEF Ended
<1> HIDE DEF b
<1>10. UNCHANGED <<npub, pub>> /\ pc[c] # "close"
  BY <1>1
<1> QED BY <1>4, <1>5, <1>7, <1>8, <1>9, <1>10, Answered

\* A subscription and its acknowledgement come together.
LEMMA SubscribeOneStream ==
  ASSUME RegistryInv, Told, Fed, NEW c \in Clients, SubscribeOne(c)
  PROVE  Told' /\ Fed'
<1> USE DEF RegistryInv, RegistrySound
<1> DEFINE ch == Head(todo[c])
           after == subs[c] \cup {ch}
           x == SubAck("sub", ch, Cardinality(after))
           b == <<x>>
<1>1. /\ pc[c] = "subscribe" /\ Deliver(c, b) /\ subs' = [subs EXCEPT ![c] = after]
      /\ pc' = [pc EXCEPT ![c] = IF Len(todo[c]) = 1 THEN "exec" ELSE @]
      /\ UNCHANGED <<pub, npub, out, received>>
  BY DEF SubscribeOne
<1>2. ch \in Channels
  <2>1. todo[c] \in Seq(Channels) /\ todo[c] # <<>>
    BY <1>1 DEF TypeOK
  <2> QED BY <2>1
<1>3. x \in Items /\ x.t = "sub" /\ x.ch = ch /\ x.n = Cardinality(subs[c] \cup {ch})
  <2>1. after \in SUBSET Channels
    BY <1>2 DEF TypeOK
  <2> QED BY <1>2, <2>1, Counts, AckType DEF Items
<1> HIDE DEF x, ch
<1>4. b \in Seq(Items) /\ \A i \in 1..Len(b) : b[i].t # "msg"
  <2>1. \A i \in 1..Len(b) : b[i] = x
    OBVIOUS
  <2> QED BY <1>3, <2>1
<1>5. /\ \A d \in Clients : d # c => /\ Stream(d)' = Stream(d)
                                    /\ dead'[d] = dead[d] /\ broken'[d] = broken[d]
      /\ \/ Stream(c)' = Stream(c) \o b /\ ~dead[c] /\ ~broken[c]
         \/ Stream(c)' = Stream(c) /\ (dead'[c] \/ broken'[c])
         \/ Stream(c)' = received[c] /\ broken'[c]
  BY <1>1, <1>4, Delivered
<1>6. out[c] = <<>> /\ out'[c] = <<>> /\ subs'[c] = subs[c] \cup {ch}
  BY <1>1 DEF TypeOK, Working
<1>7. \A d \in Clients : d # c => /\ Stream(d)' = Stream(d) /\ (Alive(d)' => Alive(d))
                                /\ out'[d] = out[d] /\ subs'[d] = subs[d]
  BY <1>1, <1>5 DEF TypeOK, Alive
<1>8. ASSUME ToldAt(c), Alive(c)
      PROVE  Good(Stream(c) \o b) /\ Owed(Stream(c) \o b, out'[c], subs'[c])
  BY <1>2, <1>3, <1>6, <1>8, StreamType, OwedSub DEF ToldAt
<1>9. Ended(out[c], Len(out[c])) = {}
  BY <1>6, NoneEnded
<1>10. UNCHANGED <<npub, pub>> /\ pc[c] # "close"
  BY <1>1
<1> HIDE DEF b
<1> QED BY <1>4, <1>5, <1>7, <1>8, <1>9, <1>10, Answered

\* The numbers of messages.
LEMMA ItemIds ==
  ASSUME NEW s \in Seq(Items), NEW i \in 1..Len(s), s[i].t = "msg"
  PROVE  s[i].id \in Nat
<1>1. s[i] \in Items
  OBVIOUS
<1>2. \A x \in Replies : x.t # "msg"
  BY DEF Replies
<1>3. \A x \in Messages : x.id \in Nat
  BY DEF Messages
<1> QED BY <1>1, <1>2, <1>3 DEF Items

\* A higher bound.
LEMMA BoundedMore ==
  ASSUME NEW s \in Seq(Items), NEW p, NEW ch, NEW k \in Int, NEW l \in Int, k <= l,
         Bounded(s, p, ch, k)
  PROVE  Bounded(s, p, ch, l)
<1> SUFFICES ASSUME NEW i \in 1..Len(s), IsMsg(s[i], p, ch) PROVE s[i].id <= l
  BY DEF Bounded
<1>1. s[i].id \in Nat /\ s[i].id <= k
  BY ItemIds DEF Bounded, IsMsg
<1> QED BY <1>1

\* A client that is not subscribed misses the message; it has been told so.
LEMMA PublishStream ==
  ASSUME RegistryInv, Told, Fed, NEW c \in Clients, NEW ch \in Channels, Publish(c, ch)
  PROVE  Told' /\ Fed'
<1> USE DEF RegistryInv, RegistrySound
<1> DEFINE k == npub[c][ch]
<1>1. /\ pc[c] = "exec" /\ pc' = [pc EXCEPT ![c] = "publish"]
      /\ UNCHANGED <<subs, chans, out, dead, broken, queue, received>>
  BY DEF Publish, StartCommand, registry, output
<1>2. k \in Nat /\ npub'[c][ch] = k + 1
      /\ (\A e \in Channels : e # ch => npub'[c][e] = npub[c][e])
      /\ (\A d \in Clients : d # c => npub'[d] = npub[d])
  BY DEF Publish, TypeOK
<1>3. /\ pub'[c].msg.ch = ch /\ pub'[c].left = chans[ch] /\ pub[c].left = {}
      /\ \A d \in Clients : d # c => pub'[d] = pub[d]
  <2> DEFINE job == [msg |-> Message(c, ch, k + 1), left |-> chans[ch], n |-> Cardinality(chans[ch])]
  <2>1. pub' = [pub EXCEPT ![c] = job]
    BY DEF Publish
  <2>2. job.msg.ch = ch /\ job.left = chans[ch]
    BY <1>2, MessageType
  <2>3. pub[c].left = {}
    BY <1>1 DEF Working, NoPublish
  <2> HIDE DEF job
  <2> QED BY <2>1, <2>2, <2>3 DEF TypeOK
<1> HIDE DEF k
<1>4. \A d \in Clients : /\ Stream(d)' = Stream(d) /\ out'[d] = out[d] /\ subs'[d] = subs[d]
                         /\ Alive(d)' => Alive(d)
  BY <1>1 DEF Stream, Alive, TypeOK
<1>5. Told'
  BY <1>4, KeepTold DEF Told
<1>6. ASSUME NEW d \in Clients, NEW p \in Clients, NEW e \in Channels PROVE FedAt(d, p, e)'
  <2>1. FedAt(d, p, e)
    BY DEF Fed
  <2>2. Ended(out[d], Len(out[d]))' = Ended(out[d], Len(out[d]))
    BY <1>1 DEF Ended
  <2>3. CASE Offered(p, e, d)' = Offered(p, e, d)
    BY <2>1, <2>2, <2>3, <1>4, KeepFed
  <2>4. CASE Offered(p, e, d)' # Offered(p, e, d)
    <3>1. p = c
      BY <2>4, <1>2, <1>3 DEF Offered
    <3>2. Offered(c, e, d) = npub[c][e]
      BY <1>3 DEF Offered
    <3>3. e = ch
      <4>1. e # ch => Offered(c, e, d)' = npub[c][e]
        BY <1>2, <1>3 DEF Offered
      <4> QED BY <4>1, <3>1, <3>2, <2>4
    <3>4. d \notin chans[ch]
      <4>1. d \in chans[ch] => Offered(c, ch, d)' = (k + 1) - 1
        BY <1>2, <1>3 DEF Offered
      <4>2. (k + 1) - 1 = k /\ Offered(c, ch, d) = k
        BY <1>2, <3>2, <3>3 DEF k
      <4> QED BY <4>1, <4>2, <3>1, <3>3, <2>4
    <3>5. Offered(p, e, d)' = k + 1 /\ Offered(p, e, d) = k
      BY <3>1, <3>2, <3>3, <3>4, <1>2, <1>3 DEF Offered, k
    <3>6. InOrder(Stream(d), p, e) /\ Bounded(Stream(d), p, e, k + 1)
      <4>1. InOrder(Stream(d), p, e) /\ Bounded(Stream(d), p, e, k)
        BY <2>1, <3>5 DEF FedAt
      <4> QED BY <4>1, <1>2, StreamType, BoundedMore
    <3>7. ASSUME Alive(d)', e \notin Ended(out[d], Len(out[d]))'
          PROVE  Latest(Stream(d), p, e, k + 1)
      <4>1. Good(Stream(d)) /\ Owed(Stream(d), out[d], subs[d])
        BY <3>7, <1>4 DEF Told, ToldAt
      <4>2. e \notin subs[d]
        BY <3>3, <3>4 DEF RegistryConsistent
      <4>3. ~ SubAt(Stream(d), e, Len(Stream(d)))
        BY <4>1, <4>2, <3>7, <2>2 DEF Owed, SubSet
      <4> QED BY <4>1, <4>3, StreamType, LatestAnyway
    <3> QED BY <3>5, <3>6, <3>7, <1>4 DEF FedAt
  <2> QED BY <2>3, <2>4
<1> QED BY <1>5, <1>6 DEF Fed

\* One subscriber of a PUBLISH in progress: it is still subscribed, since the
\* read side of pubsub.mu is held, and has not been told otherwise.
LEMMA PublishDeliverStream ==
  ASSUME RegistryInv, Told, Fed, NEW c \in Clients, NEW s \in Clients, PublishDeliver(c, s)
  PROVE  Told' /\ Fed'
<1> USE DEF RegistryInv, RegistrySound
<1>1. /\ pc[c] = "publish" /\ s \in pub[c].left /\ Deliver(s, <<pub[c].msg>>)
      /\ UNCHANGED <<pc, npub, subs, chans, out, received>>
  BY DEF PublishDeliver, registry
<1>2. PICK ch \in Channels : /\ pub[c].msg = Message(c, ch, npub[c][ch])
                             /\ npub[c][ch] > 0
                             /\ pub[c].left \subseteq chans[ch]
  BY <1>1 DEF Working
<1> DEFINE k == npub[c][ch]
           x == pub[c].msg
           b == <<x>>
<1>3. k \in Nat /\ k > 0
  BY <1>2 DEF TypeOK
<1>4. x \in Items /\ x.t = "msg" /\ x.ch = ch /\ x.from = c /\ x.id = k
  BY <1>2, <1>3, MessageType DEF Items
<1>5. pub'[c].msg = x /\ pub'[c].left = pub[c].left \ {s}
      /\ \A d \in Clients : d # c => pub'[d] = pub[d]
  <2>1. PICK job \in [msg : Messages \cup {<<>>}, left : SUBSET Clients, n : Nat] : job = pub[c]
    BY DEF TypeOK
  <2>2. /\ [job EXCEPT !.left = @ \ {s}].msg = job.msg
        /\ [job EXCEPT !.left = @ \ {s}].left = job.left \ {s}
    OBVIOUS
  <2>3. pub' = [pub EXCEPT ![c] = [job EXCEPT !.left = @ \ {s}]]
    BY <2>1 DEF PublishDeliver
  <2> QED BY <2>1, <2>2, <2>3 DEF TypeOK
<1>6. ch \in subs[s] /\ pc[s] # "close"
  <2>1. s \in chans[ch]
    BY <1>1, <1>2
  <2> QED BY <2>1 DEF RegistryConsistent
<1>7. Offered(c, ch, s) = k - 1 /\ Offered(c, ch, s)' = k
  BY <1>1, <1>4, <1>5 DEF Offered
<1>8. ASSUME NEW d \in Clients, NEW p \in Clients, NEW e \in Channels,
             p # c \/ e # ch \/ d # s
      PROVE  Offered(p, e, d)' = Offered(p, e, d)
  <2>1. CASE p # c
    BY <2>1, <1>1, <1>5 DEF Offered
  <2>2. CASE p = c /\ e # ch
    BY <2>2, <1>1, <1>4, <1>5 DEF Offered
  <2>3. CASE p = c /\ d # s
    BY <2>3, <1>1, <1>5 DEF Offered
  <2> QED BY <1>8, <2>1, <2>2, <2>3
<1> HIDE DEF k, x
<1>9. b \in Seq(Items) /\ \A i \in 1..Len(b) : b[i] = x
  BY <1>4
<1>10. /\ \A d \in Clients : d # s => /\ Stream(d)' = Stream(d)
                                     /\ dead'[d] = dead[d] /\ broken'[d] = broken[d]
       /\ \/ Stream(s)' = Stream(s) \o b /\ ~dead[s] /\ ~broken[s]
          \/ Stream(s)' = Stream(s) /\ (dead'[s] \/ broken'[s])
          \/ Stream(s)' = received[s] /\ broken'[s]
  BY <1>1, <1>9, Delivered DEF x
<1>11. \A d \in Clients : out'[d] = out[d] /\ subs'[d] = subs[d]
                        /\ Ended(out[d], Len(out[d]))' = Ended(out[d], Len(out[d]))
  BY <1>1 DEF Ended
<1>12. ASSUME NEW d \in Clients, d # s PROVE Stream(d)' = Stream(d) /\ (Alive(d)' => Alive(d))
  BY <1>1, <1>10, <1>12 DEF Alive
<1>13. Stream(s) \in Seq(Items) /\ ToldAt(s) /\ Good(Stream(s)) /\ Good(received[s])
  BY StreamType, CutGood DEF Told, ToldAt
<1>14. CASE Stream(s)' = Stream(s) \o b /\ ~dead[s] /\ ~broken[s]
  <2>1. Alive(s) /\ Owed(Stream(s), out[s], subs[s])
    BY <1>6, <1>13, <1>14 DEF Alive, ToldAt
  <2>2. out[s] \in Seq(Items)
    BY RepliesOnly
  <2>3. Good(Stream(s) \o b) /\ Owed(Stream(s) \o b, out[s], subs[s])
    BY <1>4, <1>6, <1>13, <2>1, <2>2, OwedMsg
  <2>4. ToldAt(s)'
    BY <2>3, <1>11, <1>14 DEF ToldAt
  <2>5. ch \notin Ended(out[s], Len(out[s]))
    BY <2>1, <1>6 DEF Owed
  <2>6. ASSUME NEW p \in Clients, NEW e \in Channels PROVE FedAt(s, p, e)'
    <3>1. FedAt(s, p, e)
      BY DEF Fed
    <3>2. CASE p = c /\ e = ch
      <4>1. /\ InOrder(Stream(s), c, ch) /\ Bounded(Stream(s), c, ch, k - 1)
            /\ Latest(Stream(s), c, ch, k - 1)
        BY <3>1, <3>2, <1>7, <2>1, <2>5 DEF FedAt
      <4>2. IsMsg(x, c, ch) /\ x.id = k /\ x.id \in Nat
        BY <1>3, <1>4 DEF IsMsg
      <4>3. \A i \in 1..Len(Stream(s)) : IsMsg(Stream(s)[i], c, ch) => Stream(s)[i].id \in Nat
        BY <1>13, ItemIds DEF IsMsg
      <4>4. /\ InOrder(Stream(s) \o b, c, ch) /\ Bounded(Stream(s) \o b, c, ch, k)
            /\ Latest(Stream(s) \o b, c, ch, k)
        BY <4>1, <4>2, <4>3, <1>4, <1>13, NextItem
      <4> QED BY <4>4, <3>2, <1>7, <1>14 DEF FedAt
    <3>3. CASE p # c \/ e # ch
      <4>1. \A i \in 1..Len(b) : ~ IsMsg(b[i], p, e)
        BY <3>3, <1>4, <1>9 DEF IsMsg
      <4>2. Offered(p, e, s)' = Offered(p, e, s)
        BY <3>3, <1>8
      <4>3. InOrder(Stream(s), p, e) /\ Bounded(Stream(s), p, e, Offered(p, e, s))
        BY <3>1 DEF FedAt
      <4>4. /\ InOrder(Stream(s) \o b, p, e) /\ Bounded(Stream(s) \o b, p, e, Offered(p, e, s))
            /\ Latest(Stream(s), p, e, Offered(p, e, s)) => Latest(Stream(s) \o b, p, e, Offered(p, e, s))
        BY <4>1, <4>3, <1>9, <1>13, OtherItems
      <4>5. e \notin Ended(out[s], Len(out[s]))' => Latest(Stream(s), p, e, Offered(p, e, s))
        BY <3>1, <2>1, <1>11 DEF FedAt
      <4> QED BY <4>2, <4>4, <4>5, <1>14 DEF FedAt
    <3> QED BY <3>2, <3>3
  <2>7. ASSUME NEW d \in Clients, d # s PROVE ToldAt(d)'
    BY <2>7, <1>11, <1>12, KeepTold DEF Told
  <2>8. ASSUME NEW d \in Clients, d # s, NEW p \in Clients, NEW e \in Channels PROVE FedAt(d, p, e)'
    BY <2>8, <1>8, <1>11, <1>12, KeepFed DEF Fed
  <2> QED BY <2>4, <2>6, <2>7, <2>8 DEF Told, Fed
<1>15. CASE (dead'[s] \/ broken'[s]) /\ (Stream(s)' = Stream(s) \/ Stream(s)' = received[s])
  <2>1. ~ Alive(s)'
    BY <1>15 DEF Alive
  <2>2. ToldAt(s)'
    BY <2>1, <1>13, <1>15, DeadTold
  <2>3. ASSUME NEW p \in Clients, NEW e \in Channels PROVE FedAt(s, p, e)'
    <3>1. /\ InOrder(Stream(s), p, e) /\ Bounded(Stream(s), p, e, Offered(p, e, s))
          /\ InOrder(received[s], p, e) /\ Bounded(received[s], p, e, Offered(p, e, s))
      BY CutFed DEF Fed, FedAt
    <3>2. /\ Bounded(Stream(s), p, e, Offered(p, e, s)')
          /\ Bounded(received[s], p, e, Offered(p, e, s)')
      <4>1. CASE p = c /\ e = ch
        <5>1. k \in Int /\ k - 1 \in Int /\ k - 1 <= k
          BY <1>3
        <5>2. received[s] \in Seq(Items)
          BY StreamType
        <5> QED BY <4>1, <5>1, <5>2, <3>1, <1>7, <1>13, BoundedMore
      <4>2. CASE p # c \/ e # ch
        BY <4>2, <3>1, <1>8
      <4> QED BY <4>1, <4>2
    <3> QED BY <3>1, <3>2, <2>1, <1>15, DeadFed
  <2>4. ASSUME NEW d \in Clients, d # s PROVE ToldAt(d)'
    BY <2>4, <1>11, <1>12, KeepTold DEF Told
  <2>5. ASSUME NEW d \in Clients, d # s, NEW p \in Clients, NEW e \in Channels PROVE FedAt(d, p, e)'
    BY <2>5, <1>8, <1>11, <1>12, KeepFed DEF Fed
  <2> QED BY <2>2, <2>3, <2>4, <2>5 DEF Told, Fed
<1> QED BY <1>10, <1>14, <1>15

\* Every step keeps the invariant.
LEMMA NextStream == StreamInv /\ [Next]_vars => StreamInv'
<1> SUFFICES ASSUME StreamInv, [Next]_vars PROVE StreamInv'
  OBVIOUS
<1>1. RegistryInv /\ RegistryInv' /\ Told /\ Fed
  BY NextRegistry DEF StreamInv
<1>2. CASE UNCHANGED vars
  <2>1. Told'
    BY <1>1, <1>2 DEF vars, registry, output, Told, ToldAt, Stream, Alive
  <2>2. Fed'
    BY <1>1, <1>2 DEF vars, registry, output, Fed, FedAt, Stream, Alive, Offered
  <2> QED BY <1>1, <2>1, <2>2 DEF StreamInv
<1>3. ASSUME NEW c \in Clients, Command(c) PROVE Told' /\ Fed'
  <2>1. ASSUME NEW chs \in [1..Cardinality(subs[c]) -> subs[c]], Unsubscribe(c, chs)
        PROVE  Told' /\ Fed'
    <3>1. chs \in Seq(Channels)
      BY <1>1, AllChannels DEF RegistryInv, RegistrySound
    <3> QED BY <1>1, <2>1, <3>1, UnsubscribeStream
  <2>2. ASSUME NEW chs \in ArgLists, Unsubscribe(c, chs) PROVE Told' /\ Fed'
    BY <1>1, <2>2, ArgsType, UnsubscribeStream
  <2>3. ASSUME NEW chs \in ArgLists, Subscribe(c, chs) PROVE Told' /\ Fed'
    BY <1>1, <2>3, SubscribeStream
  <2>4. ASSUME NEW ch \in Channels, Publish(c, ch) PROVE Told' /\ Fed'
    BY <1>1, <2>4, PublishStream
  <2>5. ASSUME UnsubscribeNone(c) PROVE Told' /\ Fed'
    BY <1>1, <2>5, UnsubscribeNoneStream
  <2> QED BY <1>3, <2>1, <2>2, <2>3, <2>4, <2>5 DEF Command, UnsubscribeAll
<1>4. ASSUME NEW c \in Clients, Run(c) PROVE Told' /\ Fed'
  BY <1>1, <1>4, SubscribeOneStream, PushStream, FlushStream, PublishDeliverStream,
     PublishEndStream, EndStream DEF Run
<1>5. ASSUME NEW c \in Clients, Disconnect(c) \/ Receive(c) \/ Break(c) PROVE Told' /\ Fed'
  BY <1>1, <1>5, EndStream, ReceiveStream, BreakStream
<1>6. CASE Next
  BY <1>1, <1>3, <1>4, <1>5, <1>6 DEF Next, StreamInv
<1> QED BY <1>2, <1>6

\* What has been received is the beginning of the stream.
LEMMA StreamAcks == StreamInv => AcksRight
<1> SUFFICES ASSUME StreamInv, NEW c \in Clients, NEW i \in DOMAIN received[c]
             PROVE  /\ received[c][i].t = "msg" => SubscribedAt(c, received[c][i].ch, i - 1)
                    /\ received[c][i].t \in {"sub", "unsub"} =>
                         received[c][i].n = Cardinality({ch \in Channels : SubscribedAt(c, ch, i)})
  BY DEF AcksRight, AcksBracketMessages, AckCountsMatch
<1>1. received[c] \in Seq(Items) /\ Good(received[c])
  BY StreamType, CutGood DEF StreamInv, RegistryInv, RegistrySound, Told
<1>2. Right(received[c], i)
  BY <1>1 DEF Good
<1>3. \A ch, n : SubscribedAt(c, ch, n) <=> SubAt(received[c], ch, n)
  BY DEF SubscribedAt, SubAt, IsSub, IsUnsub
<1> QED BY <1>2, <1>3 DEF Right, SubSet

\* Messages received are in order, as those of the stream are.
LEMMA StreamOrder == StreamInv => PublishOrder
<1> SUFFICES ASSUME StreamInv, NEW c \in Clients, NEW p \in Clients, NEW ch \in Channels,
                    NEW i \in DOMAIN received[c], NEW j \in DOMAIN received[c], i < j,
                    IsMsg(received[c][i], p, ch), IsMsg(received[c][j], p, ch)
             PROVE  /\ received[c][i].id < received[c][j].id
                    /\ \/ \E k \in i..j : received[c][k].t = "unsub" /\ received[c][k].ch = ch
                       \/ \E k \in DOMAIN received[c] : IsMsg(received[c][k], p, ch) /\ i < k /\ k < j
                       \/ received[c][j].id = received[c][i].id + 1
  BY DEF PublishOrder, IsMsg
<1>1. received[c] \in Seq(Items) /\ InOrder(received[c], p, ch)
  BY StreamType, CutFed DEF StreamInv, RegistryInv, RegistrySound, Fed
<1>2. Follows(received[c], p, ch, i, j)
  BY <1>1 DEF InOrder
<1>3. \A k \in (i + 1)..(j - 1) : k \in DOMAIN received[c] /\ i < k /\ k < j
  BY <1>1
<1> QED BY <1>2, <1>3 DEF Follows, IsUnsub

\* cmdSubscribe and cmdUnsubscribe (pubsub.go:28, 68): in all a peer ever receives, a
\* message comes only between the acknowledgements of its channel, and the count in
\* every acknowledgement is the number of subscriptions at that point; for any
\* interleaving of commands, PUBLISH loops, full buffers and broken connections.
THEOREM AcksSafe == Spec => []AcksRight
<1>1. Init => StreamInv
  BY InitRegistry, InitStream DEF StreamInv
<1>2. StreamInv /\ [Next]_vars => StreamInv'
  BY NextStream
<1>3. StreamInv => AcksRight
  BY StreamAcks
<1> QED BY <1>1, <1>2, <1>3, PTL DEF Spec

\* cmdPublish (pubsub.go:100): what one client publishes to a channel reaches each
\* subscriber in order, once, and without a gap while the subscription lasts.
THEOREM PublishOrdered == Spec => []PublishOrder
<1>1. Init => StreamInv
  BY InitRegistry, InitStream DEF StreamInv
<1>2. StreamInv /\ [Next]_vars => StreamInv'
  BY NextStream
<1>3. StreamInv => PublishOrder
  BY StreamOrder
<1> QED BY <1>1, <1>2, <1>3, PTL DEF Spec
=============================================================================
