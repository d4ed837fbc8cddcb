--------------------------- MODULE NetworkProofs ---------------------------
(***************************************************************************)
(* Proofs about the sockets of a process, for any finite number of them:   *)
(* the arrays o2n_fds and o2n_fds_info agree (ArraysSound), a write that   *)
(* is not finished is asked for (WriteRequested), no socket moves while    *)
(* o2n_recv looks at its slots (NoMoveInScan), what is read is put         *)
(* together in order (Reassembly), and so is what is sent (StreamsIntact), *)
(* as long as a blocking send keeps its slot (SlotKept).                   *)
(***************************************************************************)
EXTENDS Network, FiniteSetTheorems, WellFoundedInduction, TLAPS

-----------------------------------------------------------------------------
(* The inductive invariant.  Its parts are operators of the arrays fs and  *)
(* fi, the Fds_infos inf, the states of sockets nt, the streams st and the *)
(* calls cs.                                                               *)

Nets == {"none", "connecting", "up", "eof", "reset", "closed"}
Events == {"none", "POLLERR", "POLLHUP", "POLLOUT", "POLLIN"}
Chunk == [m : Nat, c : Nat, length : Nat]
Entry == [fd : Infos \cup {INVALID_SOCKET}, pollout : BOOLEAN]

Rec == [tag : Tags, fds_index : 0..Cardinality(Infos), delete_me : 0..2,
        owner : BOOLEAN, write_type : {"WRITE_O2", "WRITE_CUSTOM"}, out : Nat,
        sent : 0..(OutChunks - 1), in_message : BOOLEAN, in_length : Nat,
        in_length_got : 0..LengthChunks, in_msg_got : 0..MaxLength]

FreeFrame == [f : {"recv"}, ph : {"pre", "post"}, k : Nat \ {0}]
ScanFrame == [f : {"recv"}, ph : {"scan"}, k : Nat \ {0}, ev : Seq(Events)]
SendFrames == [f : {"send"}, i : Tcp, k : Slots, wait : Nat]
HandlerFrame == [f : {"handler"}, i : Infos]
Frame == FreeFrame \cup ScanFrame \cup SendFrames \cup HandlerFrame

Types(fs, fi, inf, nt, st) ==
    /\ fs \in [Slots -> Entry] /\ fi \in Seq(Infos)
    /\ inf \in [Infos -> Rec] /\ nt \in [Infos -> Nets]
    /\ DOMAIN st = Infos /\ st[srv] \in Seq(Accepts)
    /\ \A i \in Tcp : st[i] \in Seq(Chunk)

Live(r) == r.tag \notin {"none", "freed"}

\* Each slot in use and the Fds_info in it know each other.
Arrays(fs, fi, inf) ==
    /\ \A k \in 1..Len(fi) :
          /\ inf[fi[k]].fds_index = k /\ Live(inf[fi[k]])
          /\ fs[k].fd = IF inf[fi[k]].tag = "NET_INFO_CLOSED" THEN INVALID_SOCKET
                        ELSE fi[k]
    /\ \A i \in Infos : Live(inf[i]) =>
          inf[i].fds_index \in 1..Len(fi) /\ fi[inf[i].fds_index] = i

Talking == Connected \cup {"NET_TCP_CONNECTING"}

\* An Fds_info that may be deleted has a closed socket, one with an open socket exists,
\* and one whose peer waits to be accepted does not.
Sockets(inf, nt, st) ==
    /\ \A i \in Infos : /\ inf[i].delete_me = 2 => nt[i] = "closed"
                        /\ nt[i] \in {"up", "eof", "reset"} => Live(inf[i])
                        /\ inf[i].tag = "NET_TCP_SERVER" => i = srv
                        /\ inf[i].tag \in Talking => i \in Tcp
    /\ \A i \in Clients : nt[i] = "connecting" => Live(inf[i])
    /\ \A i \in Accepts : nt[i] \in {"none", "connecting"} => inf[i].tag = "none"
    /\ nt[srv] \in {"up", "closed"}
    /\ \A k \in 1..Len(st[srv]) : nt[st[srv][k]] = "connecting"
    /\ \A k, l \in 1..Len(st[srv]) : k # l => st[srv][k] # st[srv][l]

\* A socket that waits to be connected or written is polled for it.
Waits(r) ==
    \/ r.tag = "NET_TCP_CONNECTING"
    \/ r.tag \in Connected /\ (r.out > 0 \/ r.delete_me = 1)

Wanted(fs, inf) == \A i \in Infos : Waits(inf[i]) => fs[inf[i].fds_index].pollout

Core(fs, fi, inf, nt, st) ==
    /\ Types(fs, fi, inf, nt, st) /\ Arrays(fs, fi, inf)
    /\ Sockets(inf, nt, st) /\ Wanted(fs, inf)

\* o2n_recv is not entered twice; when it comes to the slot of a server socket with a
\* connection to accept, the connection is still there; who sends has an Fds_info.
OneRecv(cs) == \A j, l \in 1..Len(cs) : cs[j].f = "recv" /\ cs[l].f = "recv" => j = l

ScanOK(c, fi, st) ==
    /\ Len(c.ev) <= Len(fi)
    /\ \A k \in c.k..Len(c.ev) : fi[k] = srv /\ c.ev[k] = "POLLIN" => st[srv] # << >>

Frames(cs, fi, inf, st) ==
    /\ cs \in Seq(Frame) /\ OneRecv(cs)
    /\ \A j \in 1..Len(cs) :
          /\ cs[j].f = "recv" /\ cs[j].ph = "scan" => ScanOK(cs[j], fi, st)
          /\ cs[j].f = "send" => inf[cs[j].i].tag # "none"

IInv ==
    /\ Core(fds, fds_info, info, net, stream)
    /\ Frames(calls, fds_info, info, stream)
    /\ delete_flag \in BOOLEAN /\ fault \in BOOLEAN

-----------------------------------------------------------------------------
(* What the invariant says of one slot and of one Fds_info.                *)

\* The facts about the constants that the proofs use.
LEMMA Constants ==
    /\ srv \in Infos /\ udp \in Infos /\ Tcp \subseteq Infos /\ srv \notin Tcp
    /\ Clients \subseteq Tcp /\ Accepts \subseteq Tcp /\ INVALID_SOCKET \notin Infos
    /\ IsFiniteSet(Infos) /\ Cardinality(Infos) \in Nat
    /\ OutChunks \in Nat \ {0} /\ LengthChunks \in Nat \ {0} /\ MaxLength \in Nat
    /\ MaxWait \in Nat
  <1>1. /\ srv \in Infos /\ udp \in Infos /\ Tcp \subseteq Infos /\ srv \notin Tcp
        /\ Clients \subseteq Tcp /\ Accepts \subseteq Tcp /\ INVALID_SOCKET \notin Infos
        /\ OutChunks \in Nat \ {0} /\ LengthChunks \in Nat \ {0} /\ MaxLength \in Nat
        /\ MaxWait \in Nat
    BY NetworkAssumption DEF Infos, Tcp
  <1>2. IsFiniteSet(Tcp \cup {srv})
    BY NetworkAssumption, FS_AddElement
  <1>3. IsFiniteSet((Tcp \cup {srv}) \cup {udp})
    BY <1>2, FS_AddElement
  <1>4. Infos = (Tcp \cup {srv}) \cup {udp}
    BY DEF Infos
  <1>5. IsFiniteSet(Infos)
    BY <1>3, <1>4
  <1> QED  BY <1>1, <1>5, FS_CardinalityType

\* The types that the invariant gives to its parts.
LEMMA CoreTypes ==
    ASSUME NEW fs, NEW fi, NEW inf, NEW nt, NEW st, Core(fs, fi, inf, nt, st)
    PROVE  /\ fs \in [Slots -> Entry] /\ fi \in Seq(Infos)
           /\ inf \in [Infos -> Rec] /\ nt \in [Infos -> Nets]
           /\ DOMAIN st = Infos /\ st[srv] \in Seq(Accepts)
           /\ \A i \in Tcp : st[i] \in Seq(Chunk)
           /\ Len(fi) \in Nat
  BY DEF Core, Types

\* The types of the fields of an Fds_info.
LEMMA RecTypes ==
    ASSUME NEW r \in Rec
    PROVE  /\ r.tag \in Tags /\ r.fds_index \in 0..Cardinality(Infos) /\ r.delete_me \in 0..2
           /\ r.owner \in BOOLEAN /\ r.write_type \in {"WRITE_O2", "WRITE_CUSTOM"}
           /\ r.out \in Nat /\ r.sent \in 0..(OutChunks - 1) /\ r.in_message \in BOOLEAN
           /\ r.in_length \in Nat /\ r.in_length_got \in 0..LengthChunks
           /\ r.in_msg_got \in 0..MaxLength
  BY DEF Rec

\* There are no more slots in use than Fds_infos.
LEMMA Fits ==
    ASSUME NEW fs, NEW fi, NEW inf, NEW nt, NEW st, Core(fs, fi, inf, nt, st)
    PROVE  /\ Len(fi) <= Cardinality(Infos)
           /\ \A k, l \in 1..Len(fi) : fi[k] = fi[l] => k = l
           /\ \A i \in Infos : ~Live(inf[i]) => Len(fi) < Cardinality(Infos)
           /\ \A k \in 1..Len(fi) : k \in Slots /\ fi[k] \in Infos
  <1>1. fi \in Seq(Infos) /\ Len(fi) \in Nat
    BY CoreTypes
  <1>2. \A k \in 1..Len(fi) : fi[k] \in Infos
    BY <1>1
  <1>3. \A k \in 1..Len(fi) : inf[fi[k]].fds_index = k /\ Live(inf[fi[k]])
    BY DEF Core, Arrays
  <1>4. \A k, l \in 1..Len(fi) : fi[k] = fi[l] => k = l
    BY <1>3
  <1> DEFINE f == [k \in 1..Len(fi) |-> fi[k]]
             N == Cardinality(Infos)
  <1>5. IsFiniteSet(1..Len(fi)) /\ Cardinality(1..Len(fi)) = Len(fi)
    <2>1. /\ IsFiniteSet(1..Len(fi))
          /\ Cardinality(1..Len(fi)) = IF 1 > Len(fi) THEN 0 ELSE Len(fi) - 1 + 1
      BY <1>1, FS_Interval
    <2> QED  BY <1>1, <2>1
  <1>6. IsFiniteSet(Infos) /\ N \in Nat
    BY Constants
  <1>7. ASSUME NEW T, T \subseteq Infos, \A k \in 1..Len(fi) : fi[k] \in T
        PROVE  Len(fi) <= Cardinality(T)
    <2>1. f \in [1..Len(fi) -> T]
      BY <1>7
    <2>2. f \in Injection(1..Len(fi), T)
      BY <1>4, <2>1 DEF Injection, IsInjective
    <2>3. IsFiniteSet(T)
      BY <1>6, <1>7, FS_Subset
    <2> HIDE DEF f
    <2>4. Cardinality(1..Len(fi)) <= Cardinality(T)
      BY <2>2, <2>3, FS_Injection
    <2> QED  BY <1>5, <2>4
  <1>8. Len(fi) <= N
    BY <1>2, <1>7
  <1>9. ASSUME NEW i \in Infos, ~Live(inf[i]) PROVE Len(fi) < N
    <2>1. \A k \in 1..Len(fi) : fi[k] \in Infos \ {i}
      BY <1>2, <1>3, <1>9
    <2>2. Len(fi) <= Cardinality(Infos \ {i})
      BY <2>1, <1>7
    <2>3. Cardinality(Infos \ {i}) = N - 1
      BY <1>6, FS_RemoveElement
    <2> QED  BY <1>1, <1>6, <2>2, <2>3
  <1>10. \A k \in 1..Len(fi) : k \in Slots
    BY <1>1, <1>6, <1>8 DEF Slots
  <1> QED  BY <1>2, <1>4, <1>8, <1>9, <1>10

\* An Fds_info in use has a slot.
LEMMA Slotted ==
    ASSUME NEW fs, NEW fi, NEW inf, NEW nt, NEW st, Core(fs, fi, inf, nt, st),
           NEW i \in Infos, Live(inf[i])
    PROVE  /\ inf[i].fds_index \in 1..Len(fi) /\ fi[inf[i].fds_index] = i
           /\ inf[i].fds_index \in Slots /\ fs[inf[i].fds_index] \in Entry
           /\ inf[i] \in Rec
  <1>1. inf[i].fds_index \in 1..Len(fi) /\ fi[inf[i].fds_index] = i
    BY DEF Core, Arrays
  <1>2. inf[i].fds_index \in Slots
    BY <1>1, Fits
  <1>3. fs \in [Slots -> Entry] /\ inf \in [Infos -> Rec]
    BY CoreTypes
  <1> QED  BY <1>1, <1>2, <1>3

\* A slot in use has an Fds_info.
LEMMA SlotInUse ==
    ASSUME NEW fs, NEW fi, NEW inf, NEW nt, NEW st, Core(fs, fi, inf, nt, st),
           NEW k \in 1..Len(fi)
    PROVE  /\ fi[k] \in Infos /\ Live(inf[fi[k]]) /\ inf[fi[k]].fds_index = k
           /\ k \in Slots /\ fs[k] \in Entry /\ inf[fi[k]] \in Rec
           /\ fs[k].fd = IF inf[fi[k]].tag = "NET_INFO_CLOSED" THEN INVALID_SOCKET ELSE fi[k]
  <1>1. fi[k] \in Infos /\ k \in Slots
    BY Fits
  <1>2. fs \in [Slots -> Entry] /\ inf \in [Infos -> Rec]
    BY CoreTypes
  <1>3. /\ Live(inf[fi[k]]) /\ inf[fi[k]].fds_index = k
        /\ fs[k].fd = IF inf[fi[k]].tag = "NET_INFO_CLOSED" THEN INVALID_SOCKET ELSE fi[k]
    BY DEF Core, Arrays
  <1> QED  BY <1>1, <1>2, <1>3

-----------------------------------------------------------------------------
(* Changes of the arrays and of the operating system's sockets.            *)

\* An Fds_info that stays in use changes, and what poll() is asked for its slot.
LEMMA CoreChanged ==
    ASSUME NEW fs, NEW fi, NEW inf, NEW nt, NEW st, Core(fs, fi, inf, nt, st),
           NEW i \in Infos, Live(inf[i]), NEW r \in Rec,
           r.fds_index = inf[i].fds_index,
           r.tag = inf[i].tag \/ (/\ inf[i].tag = "NET_TCP_CONNECTING"
                                  /\ r.tag = "NET_TCP_CLIENT"),
           r.delete_me = 2 => inf[i].delete_me = 2,
           NEW p \in BOOLEAN,
           Waits(r) => p
    PROVE  Core([fs EXCEPT ![r.fds_index].pollout = p], fi, [inf EXCEPT ![i] = r], nt, st)
  <1> DEFINE k == inf[i].fds_index
             e == [fs[k] EXCEPT !.pollout = p]
             f2 == [fs EXCEPT ![k] = e]
             i2 == [inf EXCEPT ![i] = r]
  <1>1. /\ fs \in [Slots -> Entry] /\ fi \in Seq(Infos) /\ Len(fi) \in Nat
        /\ inf \in [Infos -> Rec] /\ nt \in [Infos -> Nets]
    BY CoreTypes
  <1>2. /\ k \in 1..Len(fi) /\ fi[k] = i /\ k \in Slots /\ fs[k] \in Entry
    BY Slotted
  <1>3. e \in Entry /\ e.fd = fs[k].fd /\ e.pollout = p
    <2> DEFINE x == fs[k]
    <2>1. x \in Entry
      BY <1>2
    <2> HIDE DEF x
    <2>2. [x EXCEPT !.pollout = p] \in Entry /\ [x EXCEPT !.pollout = p].fd = x.fd
          /\ [x EXCEPT !.pollout = p].pollout = p
      BY <2>1 DEF Entry
    <2> QED  BY <2>2 DEF x
  <1>4. [fs EXCEPT ![r.fds_index].pollout = p] = f2
    BY <1>1, <1>2
  <1> HIDE DEF e, k
  <1>5. /\ f2 \in [Slots -> Entry] /\ f2[k] = e /\ \A x \in Slots : x # k => f2[x] = fs[x]
    BY <1>1, <1>2, <1>3
  <1>6. /\ i2 \in [Infos -> Rec] /\ i2[i] = r /\ \A x \in Infos : x # i => i2[x] = inf[x]
    BY <1>1
  <1> HIDE DEF f2, i2
  <1>7. Live(r) /\ (r.tag = "NET_INFO_CLOSED" <=> inf[i].tag = "NET_INFO_CLOSED")
        /\ (r.tag = "NET_TCP_SERVER" <=> inf[i].tag = "NET_TCP_SERVER")
        /\ r.fds_index = k /\ inf[i].tag # "none"
    BY DEF Live, k
  <1>8. \A x \in 1..Len(fi) : fi[x] \in Infos /\ x \in Slots /\ (fi[x] = i => x = k)
    BY <1>2, Fits
  <1>9. Types(f2, fi, i2, nt, st)
    BY <1>5, <1>6 DEF Core, Types
  <1>10. Arrays(f2, fi, i2)
    <2>1. ASSUME NEW x \in 1..Len(fi)
          PROVE  /\ i2[fi[x]].fds_index = x /\ Live(i2[fi[x]])
                 /\ f2[x].fd = IF i2[fi[x]].tag = "NET_INFO_CLOSED" THEN INVALID_SOCKET
                               ELSE fi[x]
      <3>1. /\ inf[fi[x]].fds_index = x /\ Live(inf[fi[x]])
            /\ fs[x].fd = IF inf[fi[x]].tag = "NET_INFO_CLOSED" THEN INVALID_SOCKET
                          ELSE fi[x]
        BY DEF Core, Arrays
      <3>2. CASE x = k
        BY <3>1, <3>2, <1>2, <1>3, <1>5, <1>6, <1>7
      <3>3. CASE x # k
        BY <3>1, <3>3, <1>5, <1>6, <1>8
      <3> QED  BY <3>2, <3>3
    <2>2. ASSUME NEW x \in Infos, Live(i2[x])
          PROVE  i2[x].fds_index \in 1..Len(fi) /\ fi[i2[x].fds_index] = x
      <3>1. CASE x = i
        BY <3>1, <1>2, <1>6, <1>7
      <3>2. CASE x # i
        BY <3>2, <2>2, <1>6 DEF Core, Arrays
      <3> QED  BY <3>1, <3>2
    <2> QED  BY <2>1, <2>2 DEF Arrays
  <1>11. Sockets(i2, nt, st)
    <2>1. Sockets(inf, nt, st)
      BY DEF Core
    <2>2. \A x \in Infos : /\ i2[x].delete_me = 2 => inf[x].delete_me = 2
                           /\ Live(inf[x]) => Live(i2[x])
                           /\ i2[x].tag = "NET_TCP_SERVER" => inf[x].tag = "NET_TCP_SERVER"
                           /\ i2[x].tag \in Talking => inf[x].tag \in Talking
                           /\ inf[x].tag = "none" => i2[x].tag = "none"
      BY <1>6, <1>7 DEF Talking, Connected
    <2>3. Clients \subseteq Infos /\ Accepts \subseteq Infos
      BY Constants
    <2> QED  BY <2>1, <2>2, <2>3 DEF Sockets
  <1>12. Wanted(f2, i2)
    <2> SUFFICES ASSUME NEW x \in Infos, Waits(i2[x])
                 PROVE  f2[i2[x].fds_index].pollout
      BY DEF Wanted
    <2>1. CASE x = i
      BY <2>1, <1>3, <1>5, <1>6, <1>7
    <2>2. CASE x # i
      <3>1. i2[x] = inf[x] /\ Live(inf[x])
        BY <2>2, <1>6 DEF Live, Connected, Waits
      <3>2. fs[inf[x].fds_index].pollout
        BY <3>1 DEF Core, Wanted
      <3>3. inf[x].fds_index \in Slots /\ fi[inf[x].fds_index] = x
        BY <3>1, Slotted
      <3>4. inf[x].fds_index # k
        BY <2>2, <3>3, <1>2
      <3> QED  BY <3>1, <3>2, <3>3, <3>4, <1>5
    <2> QED  BY <2>1, <2>2
  <1> QED  BY <1>4, <1>9, <1>10, <1>11, <1>12 DEF Core, i2

\* A socket is closed.
LEMMA CoreClosed ==
    ASSUME NEW fs, NEW fi, NEW inf, NEW nt, NEW st, Core(fs, fi, inf, nt, st),
           NEW i \in Infos, Live(inf[i]), NEW r \in Rec,
           r.fds_index = inf[i].fds_index, r.tag = "NET_INFO_CLOSED"
    PROVE  Core([fs EXCEPT ![r.fds_index].fd = INVALID_SOCKET], fi, [inf EXCEPT ![i] = r],
                [nt EXCEPT ![i] = "closed"], st)
  <1> DEFINE k == inf[i].fds_index
             e == [fs[k] EXCEPT !.fd = INVALID_SOCKET]
             f2 == [fs EXCEPT ![k] = e]
             i2 == [inf EXCEPT ![i] = r]
             n2 == [nt EXCEPT ![i] = "closed"]
  <1>1. /\ fs \in [Slots -> Entry] /\ fi \in Seq(Infos) /\ Len(fi) \in Nat
        /\ inf \in [Infos -> Rec] /\ nt \in [Infos -> Nets] /\ st[srv] \in Seq(Accepts)
    BY CoreTypes
  <1>2. /\ k \in 1..Len(fi) /\ fi[k] = i /\ k \in Slots /\ fs[k] \in Entry
    BY Slotted
  <1>3. e \in Entry /\ e.fd = INVALID_SOCKET /\ e.pollout = fs[k].pollout
    <2> DEFINE x == fs[k]
               y == [x EXCEPT !.fd = INVALID_SOCKET]
    <2>1. x \in Entry
      BY <1>2
    <2> HIDE DEF x
    <2>2. y \in Entry /\ y.fd = INVALID_SOCKET /\ y.pollout = x.pollout
      BY <2>1 DEF Entry
    <2> QED  BY <2>2 DEF x
  <1>4. [fs EXCEPT ![r.fds_index].fd = INVALID_SOCKET] = f2
    BY <1>1, <1>2
  <1> HIDE DEF e, k
  <1>5. /\ f2 \in [Slots -> Entry] /\ f2[k] = e /\ \A x \in Slots : x # k => f2[x] = fs[x]
    BY <1>1, <1>2, <1>3
  <1>6. /\ i2 \in [Infos -> Rec] /\ i2[i] = r /\ \A x \in Infos : x # i => i2[x] = inf[x]
    BY <1>1
  <1>7. /\ n2 \in [Infos -> Nets] /\ n2[i] = "closed"
        /\ \A x \in Infos : x # i => n2[x] = nt[x]
    BY <1>1 DEF Nets
  <1> HIDE DEF f2, i2, n2
  <1>8. Live(r) /\ r.fds_index = k /\ inf[i].tag # "none"
    BY DEF Live, k
  <1>9. \A x \in 1..Len(fi) : fi[x] \in Infos /\ x \in Slots /\ (fi[x] = i => x = k)
    BY <1>2, Fits
  <1>10. Types(f2, fi, i2, n2, st)
    BY <1>5, <1>6, <1>7 DEF Core, Types
  <1>11. Arrays(f2, fi, i2)
    <2>1. ASSUME NEW x \in 1..Len(fi)
          PROVE  /\ i2[fi[x]].fds_index = x /\ Live(i2[fi[x]])
                 /\ f2[x].fd = IF i2[fi[x]].tag = "NET_INFO_CLOSED" THEN INVALID_SOCKET
                               ELSE fi[x]
      <3>1. /\ inf[fi[x]].fds_index = x /\ Live(inf[fi[x]])
            /\ fs[x].fd = IF inf[fi[x]].tag = "NET_INFO_CLOSED" THEN INVALID_SOCKET
                          ELSE fi[x]
        BY DEF Core, Arrays
      <3>2. CASE x = k
        BY <3>1, <3>2, <1>2, <1>3, <1>5, <1>6, <1>8
      <3>3. CASE x # k
        BY <3>1, <3>3, <1>5, <1>6, <1>9
      <3> QED  BY <3>2, <3>3
    <2>2. ASSUME NEW x \in Infos, Live(i2[x])
          PROVE  i2[x].fds_index \in 1..Len(fi) /\ fi[i2[x].fds_index] = x
      <3>1. CASE x = i
        BY <3>1, <1>2, <1>6, <1>8
      <3>2. CASE x # i
        BY <3>2, <2>2, <1>6 DEF Core, Arrays
      <3> QED  BY <3>1, <3>2
    <2> QED  BY <2>1, <2>2 DEF Arrays
  <1>12. Sockets(i2, n2, st)
    <2>1. Sockets(inf, nt, st)
      BY DEF Core
    <2>2. Clients \subseteq Infos /\ Accepts \subseteq Infos /\ srv \in Infos
      BY Constants
    <2>3. \A x \in Infos : /\ i2[x].delete_me = 2 => n2[x] = "closed"
                           /\ n2[x] \in {"up", "eof", "reset"} => Live(i2[x])
                           /\ i2[x].tag = "NET_TCP_SERVER" => x = srv
                           /\ i2[x].tag \in Talking => x \in Tcp
      BY <2>1, <1>6, <1>7 DEF Sockets, Talking, Connected
    <2>4. \A x \in Clients : n2[x] = "connecting" => Live(i2[x])
      BY <2>1, <2>2, <1>6, <1>7 DEF Sockets
    <2>5. \A x \in Accepts : n2[x] \in {"none", "connecting"} => i2[x].tag = "none"
      BY <2>1, <2>2, <1>6, <1>7 DEF Sockets
    <2>6. n2[srv] \in {"up", "closed"}
      BY <2>1, <2>2, <1>7 DEF Sockets
    <2>7. ASSUME NEW x \in 1..Len(st[srv]) PROVE n2[st[srv][x]] = "connecting"
      <3>1. nt[st[srv][x]] = "connecting" /\ st[srv][x] \in Accepts
        BY <2>1, <1>1 DEF Sockets
      <3>2. inf[st[srv][x]].tag = "none"
        BY <2>1, <3>1 DEF Sockets
      <3> QED  BY <2>2, <3>1, <3>2, <1>7, <1>8
    <2> QED  BY <2>1, <2>3, <2>4, <2>5, <2>6, <2>7 DEF Sockets
  <1>13. Wanted(f2, i2)
    <2> SUFFICES ASSUME NEW x \in Infos, Waits(i2[x])
                 PROVE  f2[i2[x].fds_index].pollout
      BY DEF Wanted
    <2>1. x # i
      BY <1>6 DEF Connected, Waits
    <2>2. i2[x] = inf[x] /\ Live(inf[x])
      BY <2>1, <1>6 DEF Live, Connected, Waits
    <2>3. fs[inf[x].fds_index].pollout
      BY <2>2 DEF Core, Wanted
    <2>4. inf[x].fds_index \in Slots /\ fi[inf[x].fds_index] = x
      BY <2>2, Slotted
    <2>5. inf[x].fds_index # k
      BY <2>1, <2>4, <1>2
    <2> QED  BY <2>2, <2>3, <2>4, <2>5, <1>5
  <1> QED  BY <1>4, <1>10, <1>11, <1>12, <1>13 DEF Core, i2, n2

\* A new socket takes the next slot.
LEMMA CoreNew ==
    ASSUME NEW fs, NEW fi, NEW inf, NEW nt, NEW st, Core(fs, fi, inf, nt, st),
           NEW i \in Tcp, inf[i].tag = "none",
           NEW r \in Rec, r.fds_index = Len(fi) + 1, r.out = 0, r.delete_me = 0,
           r.tag \in Connected \cup {"NET_TCP_CONNECTING"},
           NEW s \in {"up", "connecting"}, i \in Accepts => s = "up",
           \A k \in 1..Len(st[srv]) : st[srv][k] # i,
           NEW e \in Entry, e.fd = i, r.tag = "NET_TCP_CONNECTING" => e.pollout
    PROVE  /\ Core([fs EXCEPT ![Len(fi) + 1] = e], Append(fi, i), [inf EXCEPT ![i] = r],
                   [nt EXCEPT ![i] = s], st)
           /\ Len(fi) + 1 \in Slots
  <1> DEFINE k == Len(fi) + 1
             f2 == [fs EXCEPT ![k] = e]
             fi2 == Append(fi, i)
             i2 == [inf EXCEPT ![i] = r]
             n2 == [nt EXCEPT ![i] = s]
  <1>0. i \in Infos /\ Clients \subseteq Infos /\ Accepts \subseteq Infos /\ srv \in Infos
        /\ i # srv
    BY Constants
  <1>1. /\ fs \in [Slots -> Entry] /\ fi \in Seq(Infos) /\ Len(fi) \in Nat
        /\ inf \in [Infos -> Rec] /\ nt \in [Infos -> Nets] /\ st[srv] \in Seq(Accepts)
    BY CoreTypes
  <1>2. k \in Slots
    <2>1. Len(fi) < Cardinality(Infos) /\ Cardinality(Infos) \in Nat
      BY <1>0, Fits, Constants DEF Live
    <2> QED  BY <1>1, <2>1 DEF Slots
  <1>3. /\ fi2 \in Seq(Infos) /\ Len(fi2) = k /\ fi2[k] = i
        /\ \A x \in 1..Len(fi) : fi2[x] = fi[x] /\ x # k
        /\ \A x \in 1..k : x \in 1..Len(fi) \/ x = k
    BY <1>0, <1>1
  <1>4. /\ f2 \in [Slots -> Entry] /\ f2[k] = e /\ \A x \in Slots : x # k => f2[x] = fs[x]
    BY <1>1, <1>2
  <1>5. /\ i2 \in [Infos -> Rec] /\ i2[i] = r /\ \A x \in Infos : x # i => i2[x] = inf[x]
    BY <1>0, <1>1
  <1>6. /\ n2 \in [Infos -> Nets] /\ n2[i] = s /\ \A x \in Infos : x # i => n2[x] = nt[x]
    BY <1>0, <1>1 DEF Nets
  <1> HIDE DEF k, f2, fi2, i2, n2
  <1>7. Live(r) /\ r.tag # "NET_INFO_CLOSED" /\ r.tag # "NET_TCP_SERVER" /\ ~Live(inf[i])
        /\ r.fds_index = k
    BY DEF Live, Connected, k
  <1>8. Types(f2, fi2, i2, n2, st)
    BY <1>3, <1>4, <1>5, <1>6 DEF Core, Types
  <1>9. Arrays(f2, fi2, i2)
    <2>1. ASSUME NEW x \in 1..Len(fi2)
          PROVE  /\ i2[fi2[x]].fds_index = x /\ Live(i2[fi2[x]])
                 /\ f2[x].fd = IF i2[fi2[x]].tag = "NET_INFO_CLOSED" THEN INVALID_SOCKET
                               ELSE fi2[x]
      <3>1. CASE x \in 1..Len(fi)
        <4>1. /\ inf[fi[x]].fds_index = x /\ Live(inf[fi[x]])
              /\ fs[x].fd = IF inf[fi[x]].tag = "NET_INFO_CLOSED" THEN INVALID_SOCKET
                            ELSE fi[x]
          BY <3>1 DEF Core, Arrays
        <4>2. fi[x] \in Infos /\ x \in Slots
          BY <3>1, Fits
        <4>3. fi[x] # i
          BY <4>1, <1>7
        <4> QED  BY <3>1, <4>1, <4>2, <4>3, <1>3, <1>4, <1>5
      <3>2. CASE x = k
        BY <3>2, <1>3, <1>4, <1>5, <1>7
      <3> QED  BY <3>1, <3>2, <1>3
    <2>2. ASSUME NEW x \in Infos, Live(i2[x])
          PROVE  i2[x].fds_index \in 1..Len(fi2) /\ fi2[i2[x].fds_index] = x
      <3>1. CASE x = i
        <4>1. k \in 1..Len(fi2)
          BY <1>1, <1>3 DEF k
        <4> QED  BY <3>1, <4>1, <1>3, <1>5, <1>7
      <3>2. CASE x # i
        <4>1. inf[x].fds_index \in 1..Len(fi) /\ fi[inf[x].fds_index] = x
          BY <3>2, <2>2, <1>5 DEF Core, Arrays
        <4>2. inf[x].fds_index \in 1..Len(fi2)
          BY <4>1, <1>1, <1>3 DEF k
        <4> QED  BY <3>2, <4>1, <4>2, <1>3, <1>5
      <3> QED  BY <3>1, <3>2
    <2> QED  BY <2>1, <2>2 DEF Arrays
  <1>10. Sockets(i2, n2, st)
    <2>1. Sockets(inf, nt, st)
      BY DEF Core
    <2>3. \A x \in Infos : /\ i2[x].delete_me = 2 => n2[x] = "closed"
                           /\ n2[x] \in {"up", "eof", "reset"} => Live(i2[x])
                           /\ i2[x].tag = "NET_TCP_SERVER" => x = srv
                           /\ i2[x].tag \in Talking => x \in Tcp
      BY <2>1, <1>5, <1>6, <1>7 DEF Sockets
    <2>4. \A x \in Clients : n2[x] = "connecting" => Live(i2[x])
      BY <2>1, <1>0, <1>5, <1>6, <1>7 DEF Sockets
    <2>5. \A x \in Accepts : n2[x] \in {"none", "connecting"} => i2[x].tag = "none"
      BY <2>1, <1>0, <1>5, <1>6 DEF Sockets
    <2>6. n2[srv] \in {"up", "closed"}
      BY <2>1, <1>0, <1>6 DEF Sockets
    <2>7. ASSUME NEW x \in 1..Len(st[srv]) PROVE n2[st[srv][x]] = "connecting"
      <3>1. nt[st[srv][x]] = "connecting" /\ st[srv][x] \in Accepts /\ st[srv][x] # i
        BY <2>1, <1>1 DEF Sockets
      <3> QED  BY <3>1, <1>0, <1>6
    <2> QED  BY <2>1, <2>3, <2>4, <2>5, <2>6, <2>7 DEF Sockets
  <1>11. Wanted(f2, i2)
    <2> SUFFICES ASSUME NEW x \in Infos, Waits(i2[x])
                 PROVE  f2[i2[x].fds_index].pollout
      BY DEF Wanted
    <2>1. CASE x = i
      <3>1. ~(r.out > 0) /\ ~(r.delete_me = 1)
        OBVIOUS
      <3>2. r.tag = "NET_TCP_CONNECTING"
        BY <2>1, <3>1, <1>5 DEF Waits
      <3> QED  BY <2>1, <3>2, <1>4, <1>5, <1>7
    <2>2. CASE x # i
      <3>1. i2[x] = inf[x] /\ Live(inf[x])
        BY <2>2, <1>5 DEF Live, Connected, Waits
      <3>2. fs[inf[x].fds_index].pollout
        BY <3>1 DEF Core, Wanted
      <3>3. inf[x].fds_index \in Slots /\ inf[x].fds_index \in 1..Len(fi)
        BY <3>1, Slotted
      <3>4. inf[x].fds_index # k
        BY <3>3, <1>3
      <3> QED  BY <3>1, <3>2, <3>3, <3>4, <1>4
    <2> QED  BY <2>1, <2>2
  <1> QED  BY <1>2, <1>8, <1>9, <1>10, <1>11 DEF Core, k, f2, fi2, i2, n2

\* An Fds_info is deleted, and the last socket takes its slot.
LEMMA CoreDeleted ==
    ASSUME NEW fs, NEW fi, NEW inf, NEW nt, NEW st, Core(fs, fi, inf, nt, st),
           NEW k \in 1..Len(fi), inf[fi[k]].delete_me = 2,
           NEW r \in Rec, r.tag = "freed", r.delete_me = 0
    PROVE  Core([fs EXCEPT ![k] = fs[Len(fi)]],
                [j \in 1..(Len(fi) - 1) |-> IF j = k THEN fi[Len(fi)] ELSE fi[j]],
                [[inf EXCEPT ![fi[Len(fi)]].fds_index = k] EXCEPT ![fi[k]] = r],
                nt, [st EXCEPT ![fi[k]] = << >>])
  <1> DEFINE z == Len(fi)
             d == fi[k]
             l == fi[z]
             c == [inf[l] EXCEPT !.fds_index = k]
             f2 == [fs EXCEPT ![k] = fs[z]]
             fi2 == [j \in 1..(z - 1) |-> IF j = k THEN fi[z] ELSE fi[j]]
             i1 == [inf EXCEPT ![l] = c]
             i2 == [i1 EXCEPT ![d] = r]
             s2 == [st EXCEPT ![d] = << >>]
  <1>0. Clients \subseteq Infos /\ Accepts \subseteq Infos /\ srv \in Infos
        /\ Tcp \subseteq Infos /\ srv \notin Tcp
    BY Constants
  <1>1. /\ fs \in [Slots -> Entry] /\ fi \in Seq(Infos) /\ z \in Nat
        /\ inf \in [Infos -> Rec] /\ nt \in [Infos -> Nets] /\ st[srv] \in Seq(Accepts)
        /\ DOMAIN st = Infos /\ \A i \in Tcp : st[i] \in Seq(Chunk)
    BY CoreTypes
  <1>2. z \in 1..z /\ k \in Slots /\ z \in Slots /\ d \in Infos /\ l \in Infos
        /\ inf[d].fds_index = k /\ inf[l].fds_index = z /\ Live(inf[l]) /\ inf[l] \in Rec
    <2>1. z \in 1..z
      BY <1>1
    <2> QED  BY <2>1, SlotInUse
  <1>3. c \in Rec /\ c.fds_index = k /\ c.tag = inf[l].tag /\ c.delete_me = inf[l].delete_me
        /\ c.out = inf[l].out
    <2> DEFINE x == inf[l]
               y == [x EXCEPT !.fds_index = k]
    <2>1. x \in Rec
      BY <1>2
    <2>2. k \in 0..Cardinality(Infos)
      BY <1>2, Constants DEF Slots
    <2> HIDE DEF x
    <2>3. y \in Rec /\ y.fds_index = k /\ y.tag = x.tag /\ y.delete_me = x.delete_me
          /\ y.out = x.out
      BY <2>1, <2>2 DEF Rec
    <2> QED  BY <2>3 DEF x
  <1>4. [[inf EXCEPT ![fi[Len(fi)]].fds_index = k] EXCEPT ![fi[k]] = r] = i2
    OBVIOUS
  <1> HIDE DEF c
  <1>5. /\ i2 \in [Infos -> Rec] /\ i2[d] = r /\ (l # d => i2[l] = c)
        /\ \A x \in Infos : x # d /\ x # l => i2[x] = inf[x]
    BY <1>1, <1>2, <1>3
  <1>6. /\ f2 \in [Slots -> Entry] /\ f2[k] = fs[z]
        /\ \A x \in Slots : x # k => f2[x] = fs[x]
    BY <1>1, <1>2
  <1>7. /\ fi2 \in Seq(Infos) /\ Len(fi2) = z - 1
        /\ \A x \in 1..(z - 1) : /\ x \in 1..z /\ x # z
                                 /\ fi2[x] = IF x = k THEN l ELSE fi[x]
    <2>1. z - 1 \in Nat
      BY <1>1, <1>2
    <2>2. \A x \in 1..(z - 1) : (IF x = k THEN fi[z] ELSE fi[x]) \in Infos
      BY <1>1, <1>2
    <2>3. fi2 \in [1..(z - 1) -> Infos]
      BY <2>2
    <2>4. fi2 \in Seq(Infos)
      BY <2>1, <2>3
    <2> QED  BY <2>1, <2>4, <1>1
  <1>8. /\ DOMAIN s2 = Infos /\ s2[d] = << >> /\ \A x \in Infos : x # d => s2[x] = st[x]
    BY <1>1, <1>2
  <1>9. \A x, y \in 1..z : fi[x] = fi[y] => x = y
    BY Fits
  <1>10. k = z <=> l = d
    BY <1>2, <1>9
  <1>11. \A x \in 1..z : /\ fi[x] \in Infos /\ x \in Slots /\ Live(inf[fi[x]])
                         /\ inf[fi[x]].fds_index = x
                         /\ fs[x].fd = IF inf[fi[x]].tag = "NET_INFO_CLOSED"
                                       THEN INVALID_SOCKET ELSE fi[x]
    BY SlotInUse
  <1> HIDE DEF z, d, l, f2, fi2, i1, i2, s2
  <1>12. ~Live(r)
    BY DEF Live
  <1>13. Types(f2, fi2, i2, nt, s2)
    <2>1. s2[srv] \in Seq(Accepts)
      <3>1. << >> \in Seq(Accepts)
        OBVIOUS
      <3> QED  BY <3>1, <1>0, <1>1, <1>8
    <2>2. \A x \in Tcp : s2[x] \in Seq(Chunk)
      <3>1. << >> \in Seq(Chunk)
        OBVIOUS
      <3> QED  BY <3>1, <1>0, <1>1, <1>8
    <2> QED  BY <2>1, <2>2, <1>1, <1>5, <1>6, <1>7, <1>8 DEF Types
  <1>14. Arrays(f2, fi2, i2)
    <2>1. ASSUME NEW x \in 1..Len(fi2)
          PROVE  /\ i2[fi2[x]].fds_index = x /\ Live(i2[fi2[x]])
                 /\ f2[x].fd = IF i2[fi2[x]].tag = "NET_INFO_CLOSED" THEN INVALID_SOCKET
                               ELSE fi2[x]
      <3>0. /\ x \in 1..(z - 1) /\ x \in 1..z /\ x # z /\ x \in Slots
            /\ fi2[x] = IF x = k THEN l ELSE fi[x]
        BY <1>7, <1>11
      <3>1. CASE x = k
        <4>1. l # d /\ fi2[x] = l /\ f2[x] = fs[z]
          BY <3>0, <3>1, <1>6, <1>10
        <4>2. fs[z].fd = IF inf[l].tag = "NET_INFO_CLOSED" THEN INVALID_SOCKET ELSE l
          BY <1>2, <1>11 DEF l
        <4> QED  BY <3>1, <4>1, <4>2, <1>2, <1>3, <1>5 DEF Live
      <3>2. CASE x # k
        <4>1. fi2[x] = fi[x] /\ fi[x] # l /\ fi[x] # d /\ f2[x] = fs[x] /\ fi[x] \in Infos
          <5>1. fi[x] # fi[z] /\ fi[x] # fi[k]
            BY <3>0, <3>2, <1>2, <1>9 DEF z
          <5> QED  BY <3>0, <3>2, <5>1, <1>6, <1>11 DEF l, d
        <4>2. i2[fi[x]] = inf[fi[x]]
          BY <4>1, <1>5
        <4> QED  BY <3>0, <4>1, <4>2, <1>11
      <3> QED  BY <3>1, <3>2
    <2>2. ASSUME NEW x \in Infos, Live(i2[x])
          PROVE  i2[x].fds_index \in 1..Len(fi2) /\ fi2[i2[x].fds_index] = x
      <3>1. x # d
        BY <2>2, <1>5, <1>12
      <3>2. CASE x = l
        <4>1. i2[x] = c /\ k # z
          BY <3>1, <3>2, <1>5, <1>10
        <4>2. k \in 1..(z - 1)
          BY <4>1, <1>1 DEF z
        <4> QED  BY <3>2, <4>1, <4>2, <1>3, <1>7
      <3>3. CASE x # l
        <4>1. i2[x] = inf[x]
          BY <3>1, <3>3, <1>5
        <4>2. inf[x].fds_index \in 1..z /\ fi[inf[x].fds_index] = x
          BY <2>2, <4>1 DEF Core, Arrays, z
        <4>3. inf[x].fds_index # z /\ inf[x].fds_index # k
          BY <3>1, <3>3, <4>2 DEF l, d
        <4>4. inf[x].fds_index \in 1..(z - 1)
          BY <4>2, <4>3, <1>1
        <4> QED  BY <4>1, <4>2, <4>3, <4>4, <1>7
      <3> QED  BY <3>2, <3>3
    <2> QED  BY <2>1, <2>2 DEF Arrays
  <1>15. Sockets(i2, nt, s2)
    <2>1. Sockets(inf, nt, st)
      BY DEF Core
    <2>2. nt[d] = "closed"
      BY <2>1, <1>2 DEF Sockets, d
    <2>3. \A x \in Infos : x # d => /\ i2[x].delete_me = inf[x].delete_me
                                    /\ i2[x].tag = inf[x].tag
                                    /\ Live(i2[x]) <=> Live(inf[x])
      <3> SUFFICES ASSUME NEW x \in Infos, x # d
                   PROVE  i2[x].delete_me = inf[x].delete_me /\ i2[x].tag = inf[x].tag
        BY DEF Live
      <3>1. CASE x = l
        BY <3>1, <1>3, <1>5
      <3>2. CASE x # l
        BY <3>2, <1>5
      <3> QED  BY <3>1, <3>2
    <2>4. \A x \in Infos : /\ i2[x].delete_me = 2 => nt[x] = "closed"
                           /\ nt[x] \in {"up", "eof", "reset"} => Live(i2[x])
                           /\ i2[x].tag = "NET_TCP_SERVER" => x = srv
                           /\ i2[x].tag \in Talking => x \in Tcp
      BY <2>1, <2>2, <2>3, <1>5 DEF Sockets, Talking, Connected
    <2>5. \A x \in Clients : nt[x] = "connecting" => Live(i2[x])
      BY <2>1, <2>2, <2>3, <1>0 DEF Sockets
    <2>6. \A x \in Accepts : nt[x] \in {"none", "connecting"} => i2[x].tag = "none"
      BY <2>1, <2>2, <2>3, <1>0 DEF Sockets
    <2>7. CASE d = srv
      <3>1. s2[srv] = << >>
        BY <2>7, <1>8
      <3>2. /\ \A x \in 1..Len(s2[srv]) : nt[s2[srv][x]] = "connecting"
            /\ \A x, y \in 1..Len(s2[srv]) : x # y => s2[srv][x] # s2[srv][y]
        BY <3>1
      <3> QED  BY <2>1, <2>4, <2>5, <2>6, <3>2 DEF Sockets
    <2>8. CASE d # srv
      <3>1. s2[srv] = st[srv]
        BY <2>8, <1>0, <1>8
      <3> QED  BY <2>1, <2>4, <2>5, <2>6, <3>1 DEF Sockets
    <2> QED  BY <2>7, <2>8
  <1>16. Wanted(f2, i2)
    <2> SUFFICES ASSUME NEW x \in Infos, Waits(i2[x])
                 PROVE  f2[i2[x].fds_index].pollout
      BY DEF Wanted
    <2>1. x # d
      BY <1>5 DEF Connected, Waits
    <2>2. CASE x = l
      <3>1. i2[x] = c
        BY <2>1, <2>2, <1>5
      <3>2. fs[z].pollout
        <4>1. Waits(inf[x])
          BY <2>2, <3>1, <1>3 DEF Waits
        <4> QED  BY <2>2, <4>1, <1>2 DEF Core, Wanted
      <3> QED  BY <3>1, <3>2, <1>3, <1>6
    <2>3. CASE x # l
      <3>1. i2[x] = inf[x] /\ Live(inf[x])
        BY <2>1, <2>3, <1>5 DEF Live, Connected, Waits
      <3>2. fs[inf[x].fds_index].pollout
        BY <3>1 DEF Core, Wanted
      <3>3. inf[x].fds_index \in Slots /\ fi[inf[x].fds_index] = x
        BY <3>1, Slotted
      <3>4. inf[x].fds_index # k
        BY <2>1, <3>3 DEF d
      <3> QED  BY <3>1, <3>2, <3>3, <3>4, <1>6
    <2> QED  BY <2>2, <2>3
  <1>17. Core(f2, fi2, i2, nt, s2)
    BY <1>13, <1>14, <1>15, <1>16 DEF Core
  <1> QED  BY <1>4, <1>17 DEF f2, fi2, s2, z, d, l

-----------------------------------------------------------------------------
(* The least element of a set of numbers, for the two loops over slots.    *)

\* A set of numbers that is not empty has a least element.
LEMMA Least ==
    ASSUME NEW T, T \subseteq Nat, T # {}
    PROVE  \E k \in T : \A j \in T : k <= j
  <1> DEFINE R == {ss \in Nat \X Nat : ss[1] < ss[2]}
  <1>1. IsWellFoundedOn(R, Nat)
    BY NatLessThanWellFounded, Zenon DEF OpToRel
  <1>2. \A j, k \in Nat : j < k => <<j, k>> \in R
    OBVIOUS
  <1> HIDE DEF R
  <1>3. PICK k \in T : \A j \in T : ~(<<j, k>> \in R)
    BY <1>1, WFMin
  <1>4. \A j \in T : ~(j < k)
    BY <1>2, <1>3
  <1>5. k \in Nat /\ \A j \in T : j \in Nat
    OBVIOUS
  <1>6. \A j \in T : k <= j
    BY <1>4, <1>5
  <1> QED  BY <1>6

\* The loop goes on at a later slot.
LEMMA ReportedFacts ==
    ASSUME NEW ev \in Seq(Events), NEW k \in Nat \ {0}, k <= Len(ev) + 1
    PROVE  Reported(ev, k) \in Nat \ {0} /\ k <= Reported(ev, k)
  <1> DEFINE P(j) == ev[j] \notin {"none", "POLLERR"}
             T == {j \in k..Len(ev) : P(j)}
  <1>0. Len(ev) \in Nat
    OBVIOUS
  <1>1. CASE T = {}
    <2>1. ~ \E j \in k..Len(ev) : ev[j] \notin {"none", "POLLERR"}
      BY <1>1
    <2>2. Reported(ev, k) = Len(ev) + 1
      BY <2>1 DEF Reported
    <2> QED  BY <1>0, <2>2
  <1>2. CASE T # {}
    <2>1. T \subseteq Nat
      BY <1>0
    <2>2. PICK m \in T : \A j \in T : m <= j
      BY <1>2, <2>1, Least
    <2>3. /\ m \in k..Len(ev) /\ ev[m] \notin {"none", "POLLERR"}
          /\ \A l \in k..(m - 1) : ev[l] \in {"none", "POLLERR"}
      BY <1>0, <2>2
    <2>4. Reported(ev, k) \in k..Len(ev)
      BY <2>3 DEF Reported
    <2> QED  BY <1>0, <2>4
  <1> QED  BY <1>1, <1>2

\* A peer answers or leaves.
LEMMA CoreNet ==
    ASSUME NEW fs, NEW fi, NEW inf, NEW nt, NEW st, Core(fs, fi, inf, nt, st),
           NEW i \in Tcp, Live(inf[i]), nt[i] # "closed", NEW s \in {"up", "eof", "reset"}
    PROVE  Core(fs, fi, inf, [nt EXCEPT ![i] = s], st)
  <1> DEFINE n2 == [nt EXCEPT ![i] = s]
  <1>0. i \in Infos /\ Clients \subseteq Infos /\ Accepts \subseteq Infos /\ srv \in Infos
        /\ i # srv
    BY Constants
  <1>1. nt \in [Infos -> Nets] /\ st[srv] \in Seq(Accepts)
    BY CoreTypes
  <1>2. /\ n2 \in [Infos -> Nets] /\ n2[i] = s /\ \A x \in Infos : x # i => n2[x] = nt[x]
    BY <1>0, <1>1 DEF Nets
  <1> HIDE DEF n2
  <1>3. Types(fs, fi, inf, n2, st)
    BY <1>2 DEF Core, Types
  <1>4. Sockets(inf, nt, st)
    BY DEF Core
  <1>5. \A x \in Infos : /\ inf[x].delete_me = 2 => n2[x] = "closed"
                         /\ n2[x] \in {"up", "eof", "reset"} => Live(inf[x])
                         /\ inf[x].tag = "NET_TCP_SERVER" => x = srv
                         /\ inf[x].tag \in Talking => x \in Tcp
    BY <1>2, <1>4 DEF Sockets
  <1>6. /\ \A x \in Clients : n2[x] = "connecting" => Live(inf[x])
        /\ \A x \in Accepts : n2[x] \in {"none", "connecting"} => inf[x].tag = "none"
        /\ n2[srv] \in {"up", "closed"}
    BY <1>0, <1>2, <1>4 DEF Sockets
  <1>7. ASSUME NEW x \in 1..Len(st[srv]) PROVE n2[st[srv][x]] = "connecting"
    <2>1. nt[st[srv][x]] = "connecting" /\ st[srv][x] \in Accepts
      BY <1>1, <1>4 DEF Sockets
    <2>2. inf[st[srv][x]].tag = "none"
      BY <1>4, <2>1 DEF Sockets
    <2> QED  BY <2>1, <2>2, <1>0, <1>2 DEF Live
  <1>8. Sockets(inf, n2, st)
    BY <1>4, <1>5, <1>6, <1>7 DEF Sockets
  <1> QED  BY <1>3, <1>8 DEF Core, n2

\* Other streams than that of the server socket change.
LEMMA CoreStream ==
    ASSUME NEW fs, NEW fi, NEW inf, NEW nt, NEW st, Core(fs, fi, inf, nt, st),
           NEW s2, DOMAIN s2 = Infos, s2[srv] = st[srv], \A i \in Tcp : s2[i] \in Seq(Chunk)
    PROVE  Core(fs, fi, inf, nt, s2)
  <1>1. Types(fs, fi, inf, nt, s2)
    BY DEF Core, Types
  <1>2. Sockets(inf, nt, s2)
    BY DEF Core, Sockets
  <1> QED  BY <1>1, <1>2 DEF Core

\* A peer connects, and its connection is accepted.
LEMMA CoreQueued ==
    ASSUME NEW fs, NEW fi, NEW inf, NEW nt, NEW st, Core(fs, fi, inf, nt, st),
           NEW i \in Accepts, nt[i] = "none"
    PROVE  Core(fs, fi, inf, [nt EXCEPT ![i] = "connecting"],
                [st EXCEPT ![srv] = Append(st[srv], i)])
  <1> DEFINE n2 == [nt EXCEPT ![i] = "connecting"]
             q == st[srv]
             q2 == Append(q, i)
             s2 == [st EXCEPT ![srv] = q2]
  <1>0. i \in Infos /\ Clients \subseteq Infos /\ Accepts \subseteq Infos /\ srv \in Infos
        /\ i # srv /\ srv \notin Tcp /\ Tcp \subseteq Infos /\ i \notin Clients
    BY Constants, NetworkAssumption
  <1>1. /\ nt \in [Infos -> Nets] /\ q \in Seq(Accepts) /\ DOMAIN st = Infos
        /\ \A x \in Tcp : st[x] \in Seq(Chunk)
    BY CoreTypes
  <1>2. /\ n2 \in [Infos -> Nets] /\ n2[i] = "connecting"
        /\ \A x \in Infos : x # i => n2[x] = nt[x]
    BY <1>0, <1>1 DEF Nets
  <1> HIDE DEF n2, q
  <1>3. /\ q2 \in Seq(Accepts) /\ q2[Len(q) + 1] = i /\ Len(q) \in Nat
        /\ \A x \in 1..Len(q) : q2[x] = q[x]
        /\ \A x \in 1..Len(q2) : x \in 1..Len(q) \/ x = Len(q) + 1
    BY <1>1
  <1> HIDE DEF q2
  <1>4. DOMAIN s2 = Infos /\ s2[srv] = q2 /\ \A x \in Infos : x # srv => s2[x] = st[x]
    BY <1>0, <1>1
  <1> HIDE DEF s2
  <1>5. Types(fs, fi, inf, n2, s2)
    BY <1>0, <1>1, <1>2, <1>3, <1>4 DEF Core, Types
  <1>6. Sockets(inf, nt, st)
    BY DEF Core
  <1>7. /\ \A x \in Infos : /\ inf[x].delete_me = 2 => n2[x] = "closed"
                            /\ n2[x] \in {"up", "eof", "reset"} => Live(inf[x])
                            /\ inf[x].tag = "NET_TCP_SERVER" => x = srv
                            /\ inf[x].tag \in Talking => x \in Tcp
        /\ \A x \in Clients : n2[x] = "connecting" => Live(inf[x])
        /\ \A x \in Accepts : n2[x] \in {"none", "connecting"} => inf[x].tag = "none"
        /\ n2[srv] \in {"up", "closed"}
    BY <1>0, <1>2, <1>6 DEF Sockets
  <1>8. \A x \in 1..Len(q) : nt[q[x]] = "connecting" /\ q[x] \in Accepts /\ q[x] # i
    BY <1>1, <1>6 DEF Sockets, q
  <1>9. \A x \in 1..Len(q2) : n2[q2[x]] = "connecting"
    BY <1>0, <1>2, <1>3, <1>8
  <1>10. \A x, y \in 1..Len(q) : x # y => q[x] # q[y]
    BY <1>6 DEF Sockets, q
  <1>11. \A x, y \in 1..Len(q2) : x # y => q2[x] # q2[y]
    BY <1>3, <1>8, <1>10
  <1>12. Sockets(inf, n2, s2)
    BY <1>4, <1>7, <1>9, <1>11 DEF Sockets
  <1> QED  BY <1>5, <1>12 DEF Core, n2, s2, q2, q

Absent(c, q) == \A k \in 1..Len(q) : q[k] # c

\* A peer whose connection is taken from the queue has no Fds_info yet.
LEMMA CoreDequeued ==
    ASSUME NEW fs, NEW fi, NEW inf, NEW nt, NEW st, Core(fs, fi, inf, nt, st),
           st[srv] # << >>, NEW s2, s2 = [st EXCEPT ![srv] = Tail(st[srv])],
           NEW c, c = Head(st[srv])
    PROVE  /\ Core(fs, fi, inf, nt, s2) /\ c \in Accepts /\ inf[c].tag = "none"
           /\ Absent(c, s2[srv])
  <1> DEFINE q == st[srv]
             q2 == Tail(q)
  <1>0. Accepts \subseteq Infos /\ srv \in Infos /\ srv \notin Tcp /\ Tcp \subseteq Infos
    BY Constants
  <1>1. /\ q \in Seq(Accepts) /\ DOMAIN st = Infos /\ \A x \in Tcp : st[x] \in Seq(Chunk)
    BY CoreTypes
  <1>2. q # << >> /\ s2 = [st EXCEPT ![srv] = q2] /\ c = Head(q)
    OBVIOUS
  <1> HIDE DEF q
  <1>3. /\ q2 \in Seq(Accepts) /\ Head(q) = q[1] /\ Head(q) \in Accepts /\ 1 \in 1..Len(q)
        /\ \A x \in 1..Len(q2) : x + 1 \in 1..Len(q) /\ q2[x] = q[x + 1] /\ x \in Nat
                                 /\ x + 1 # 1
    BY <1>1, <1>2
  <1> HIDE DEF q2
  <1>4. DOMAIN s2 = Infos /\ s2[srv] = q2 /\ \A x \in Infos : x # srv => s2[x] = st[x]
    BY <1>0, <1>1, <1>2
  <1>5. Types(fs, fi, inf, nt, s2)
    BY <1>0, <1>1, <1>3, <1>4 DEF Core, Types
  <1>6. Sockets(inf, nt, st)
    BY DEF Core
  <1>7. /\ \A x \in 1..Len(q) : nt[q[x]] = "connecting"
        /\ \A x, y \in 1..Len(q) : x # y => q[x] # q[y]
    BY <1>6 DEF Sockets, q
  <1>8. /\ \A x \in 1..Len(q2) : nt[q2[x]] = "connecting" /\ q2[x] # Head(q)
        /\ \A x, y \in 1..Len(q2) : x # y => q2[x] # q2[y]
    <2>1. \A x \in 1..Len(q2) : nt[q2[x]] = "connecting" /\ q2[x] # Head(q)
      BY <1>3, <1>7
    <2>2. ASSUME NEW x \in 1..Len(q2), NEW y \in 1..Len(q2), x # y PROVE q2[x] # q2[y]
      <3>1. x + 1 # y + 1
        BY <2>2
      <3> QED  BY <3>1, <1>3, <1>7
    <2> QED  BY <2>1, <2>2
  <1>9. Sockets(inf, nt, s2)
    BY <1>4, <1>6, <1>8 DEF Sockets
  <1>10. inf[Head(q)].tag = "none"
    BY <1>3, <1>6, <1>7 DEF Sockets
  <1>11. Absent(c, s2[srv])
    BY <1>2, <1>4, <1>8 DEF Absent
  <1> QED  BY <1>2, <1>3, <1>5, <1>9, <1>10, <1>11 DEF Core

-----------------------------------------------------------------------------
(* Changes of the calls.                                                   *)

\* Slots are added and streams may grow while calls are in progress.
LEMMA FramesKept ==
    ASSUME NEW cs, NEW fi, NEW inf, NEW st, Frames(cs, fi, inf, st),
           NEW fi2, NEW inf2, NEW st2, Len(fi) \in Nat, Len(fi2) \in Nat,
           Len(fi) <= Len(fi2), \A k \in 1..Len(fi) : fi2[k] = fi[k],
           \A i \in Tcp : inf[i].tag # "none" => inf2[i].tag # "none",
           st2[srv] = << >> => st[srv] = << >>
    PROVE  Frames(cs, fi2, inf2, st2)
  <1>1. cs \in Seq(Frame) /\ OneRecv(cs)
    BY DEF Frames
  <1>2. ASSUME NEW j \in 1..Len(cs), cs[j].f = "recv", cs[j].ph = "scan"
        PROVE  ScanOK(cs[j], fi2, st2)
    <2>1. ScanOK(cs[j], fi, st)
      BY <1>2 DEF Frames
    <2>2. cs[j] \in ScanFrame
      BY <1>1, <1>2 DEF Frame, FreeFrame, ScanFrame, SendFrames, HandlerFrame
    <2>3. cs[j].k \in Nat \ {0} /\ cs[j].ev \in Seq(Events)
      BY <2>2 DEF ScanFrame
    <2>4. Len(cs[j].ev) \in Nat /\ Len(cs[j].ev) <= Len(fi)
      BY <2>1, <2>3 DEF ScanOK
    <2>5. ASSUME NEW k \in cs[j].k..Len(cs[j].ev), fi2[k] = srv, cs[j].ev[k] = "POLLIN"
          PROVE  st2[srv] # << >>
      <3>1. k \in 1..Len(fi)
        BY <2>3, <2>4
      <3>2. fi[k] = srv
        BY <3>1, <2>5
      <3>3. st[srv] # << >>
        BY <3>2, <2>1, <2>5 DEF ScanOK
      <3> QED  BY <3>3
    <2>6. Len(cs[j].ev) <= Len(fi2)
      BY <2>4
    <2> QED  BY <2>5, <2>6 DEF ScanOK
  <1>3. ASSUME NEW j \in 1..Len(cs), cs[j].f = "send"
        PROVE  inf2[cs[j].i].tag # "none"
    <2>1. cs[j] \in SendFrames
      BY <1>1, <1>3 DEF Frame, FreeFrame, ScanFrame, SendFrames, HandlerFrame
    <2>2. cs[j].i \in Tcp
      BY <2>1 DEF SendFrames
    <2> QED  BY <1>3, <2>2 DEF Frames
  <1> QED  BY <1>1, <1>2, <1>3 DEF Frames

\* A call is made.
LEMMA FramesPushed ==
    ASSUME NEW cs, NEW fi, NEW inf, NEW st, Frames(cs, fi, inf, st), NEW c \in Frame,
           c.f = "recv" => \A j \in 1..Len(cs) : cs[j].f # "recv",
           c.f = "recv" /\ c.ph = "scan" => ScanOK(c, fi, st),
           c.f = "send" => inf[c.i].tag # "none"
    PROVE  Frames(<<c>> \o cs, fi, inf, st)
  <1> DEFINE c2 == <<c>> \o cs
  <1>1. cs \in Seq(Frame) /\ OneRecv(cs)
    BY DEF Frames
  <1>2. /\ c2 \in Seq(Frame) /\ c2[1] = c
        /\ \A i \in 1..Len(c2) : i = 1 \/ (i - 1 \in 1..Len(cs) /\ c2[i] = cs[i - 1])
    BY <1>1
  <1> HIDE DEF c2
  <1>3. OneRecv(c2)
    <2> SUFFICES ASSUME NEW j \in 1..Len(c2), NEW l \in 1..Len(c2),
                        c2[j].f = "recv", c2[l].f = "recv"
                 PROVE  j = l
      BY DEF OneRecv
    <2>1. CASE j = 1 /\ l = 1
      BY <2>1
    <2>2. CASE j = 1 /\ l # 1
      BY <2>2, <1>2
    <2>3. CASE j # 1 /\ l = 1
      BY <2>3, <1>2
    <2>4. CASE j # 1 /\ l # 1
      <3>1. /\ j - 1 \in 1..Len(cs) /\ c2[j] = cs[j - 1]
            /\ l - 1 \in 1..Len(cs) /\ c2[l] = cs[l - 1]
        BY <2>4, <1>2
      <3>2. j - 1 = l - 1
        BY <3>1, <1>1 DEF OneRecv
      <3> QED  BY <3>2
    <2> QED  BY <2>1, <2>2, <2>3, <2>4
  <1>4. ASSUME NEW j \in 1..Len(c2)
        PROVE  /\ c2[j].f = "recv" /\ c2[j].ph = "scan" => ScanOK(c2[j], fi, st)
               /\ c2[j].f = "send" => inf[c2[j].i].tag # "none"
    <2>1. CASE j = 1
      BY <2>1, <1>2
    <2>2. CASE j # 1
      <3>1. j - 1 \in 1..Len(cs) /\ c2[j] = cs[j - 1]
        BY <2>2, <1>2
      <3> QED  BY <3>1 DEF Frames
    <2> QED  BY <2>1, <2>2
  <1> QED  BY <1>2, <1>3, <1>4 DEF Frames, c2

\* A call returns.
LEMMA FramesPopped ==
    ASSUME NEW cs, NEW fi, NEW inf, NEW st, Frames(cs, fi, inf, st), cs # << >>
    PROVE  /\ Frames(Tail(cs), fi, inf, st) /\ Head(cs) \in Frame
           /\ Head(cs).f = "recv" => \A j \in 1..Len(Tail(cs)) : Tail(cs)[j].f # "recv"
           /\ Head(cs).f = "recv" /\ Head(cs).ph = "scan" => ScanOK(Head(cs), fi, st)
           /\ Head(cs).f = "send" => inf[Head(cs).i].tag # "none"
           /\ cs = <<Head(cs)>> \o Tail(cs)
  <1> DEFINE c2 == Tail(cs)
             c == Head(cs)
  <1>1. cs \in Seq(Frame) /\ OneRecv(cs)
    BY DEF Frames
  <1>2. /\ c2 \in Seq(Frame) /\ c = cs[1] /\ c \in Frame /\ 1 \in 1..Len(cs)
        /\ \A i \in 1..Len(c2) : i + 1 \in 1..Len(cs) /\ c2[i] = cs[i + 1] /\ i + 1 # 1
        /\ cs = <<Head(cs)>> \o Tail(cs)
    BY <1>1
  <1> HIDE DEF c2, c
  <1>3. OneRecv(c2)
    <2> SUFFICES ASSUME NEW j \in 1..Len(c2), NEW l \in 1..Len(c2),
                        c2[j].f = "recv", c2[l].f = "recv"
                 PROVE  j = l
      BY DEF OneRecv
    <2>1. /\ j + 1 \in 1..Len(cs) /\ c2[j] = cs[j + 1]
          /\ l + 1 \in 1..Len(cs) /\ c2[l] = cs[l + 1]
      BY <1>2
    <2>2. j + 1 = l + 1
      BY <2>1, <1>1 DEF OneRecv
    <2> QED  BY <2>2
  <1>4. \A j \in 1..Len(c2) :
          /\ c2[j].f = "recv" /\ c2[j].ph = "scan" => ScanOK(c2[j], fi, st)
          /\ c2[j].f = "send" => inf[c2[j].i].tag # "none"
    BY <1>2 DEF Frames
  <1>5. c.f = "recv" => \A j \in 1..Len(c2) : c2[j].f # "recv"
    BY <1>1, <1>2 DEF OneRecv
  <1>6. /\ c.f = "recv" /\ c.ph = "scan" => ScanOK(c, fi, st)
        /\ c.f = "send" => inf[c.i].tag # "none"
    BY <1>2 DEF Frames
  <1>7. Frames(c2, fi, inf, st)
    BY <1>2, <1>3, <1>4 DEF Frames
  <1> QED  BY <1>2, <1>5, <1>6, <1>7 DEF c2, c

\* While sockets are deleted, no slots are looked at.
LEMMA FramesDeleting ==
    ASSUME NEW cs, NEW fi, NEW inf, NEW st, Frames(cs, fi, inf, st),
           \A j \in 1..Len(cs) : ~(cs[j].f = "recv" /\ cs[j].ph = "scan"),
           NEW fi2, NEW inf2, NEW st2,
           \A i \in Tcp : inf[i].tag # "none" => inf2[i].tag # "none"
    PROVE  Frames(cs, fi2, inf2, st2)
  <1>1. cs \in Seq(Frame) /\ OneRecv(cs)
    BY DEF Frames
  <1>3. ASSUME NEW j \in 1..Len(cs), cs[j].f = "send"
        PROVE  inf2[cs[j].i].tag # "none"
    <2>1. cs[j] \in SendFrames
      BY <1>1, <1>3 DEF Frame, FreeFrame, ScanFrame, SendFrames, HandlerFrame
    <2>2. cs[j].i \in Tcp
      BY <2>1 DEF SendFrames
    <2> QED  BY <1>3, <2>2 DEF Frames
  <1> QED  BY <1>1, <1>3 DEF Frames

-----------------------------------------------------------------------------
(* The fields of an Fds_info.                                              *)

\* A number and its quotient, for a bound that is a multiple.
LEMMA Quotient ==
    ASSUME NEW c \in Nat \ {0}, NEW x \in Nat, NEW o \in Nat, x <= o * c
    PROVE  /\ x % c \in 0..(c - 1) /\ x \div c \in 0..o
           /\ x = o * c => x \div c = o
  <1>1. x % c \in 0..(c - 1)
    OBVIOUS
  <1>2. x = c * (x \div c) + (x % c)
    OBVIOUS
  <1>3. x \div c \in Nat
    OBVIOUS
  <1> DEFINE q == x \div c
             m == x % c
  <1>4. q \in Nat /\ m \in 0..(c - 1) /\ x = c * q + m
    BY <1>1, <1>2, <1>3
  <1> HIDE DEF q, m
  <1>5. c * q \in Nat /\ o * c \in Nat /\ c * o = o * c
    BY <1>4
  <1>6. q <= o
    <2> SUFFICES ASSUME q >= o + 1 PROVE FALSE
      BY <1>4
    <2>1. c * q >= c * (o + 1)
      BY <1>4
    <2>2. c * (o + 1) = o * c + c
      OBVIOUS
    <2> QED  BY <2>1, <2>2, <1>4, <1>5
  <1>7. ASSUME x = o * c PROVE q = o
    <2> SUFFICES ASSUME q + 1 <= o PROVE FALSE
      BY <1>4, <1>6
    <2>1. c * (q + 1) <= c * o
      BY <1>4
    <2>2. c * (q + 1) = c * q + c
      BY <1>4
    <2> QED  BY <2>1, <2>2, <1>4, <1>5, <1>7
  <1> QED  BY <1>1, <1>4, <1>6, <1>7 DEF q

\* r may take the place of the Fds_info of i, which stays in use.
Succeeds(r, i) ==
    /\ r \in Rec /\ r.fds_index = info[i].fds_index
    /\ \/ r.tag = info[i].tag
       \/ info[i].tag = "NET_TCP_CONNECTING" /\ r.tag = "NET_TCP_CLIENT"
    /\ r.delete_me = 2 => info[i].delete_me = 2

\* After a write, less is left to send.
LEMMA SentRec ==
    ASSUME NEW r \in Rec, NEW n \in 0..Unsent(r)
    PROVE  /\ Sent(r, n) \in Rec /\ Sent(r, n).tag = r.tag
           /\ Sent(r, n).fds_index = r.fds_index /\ Sent(r, n).delete_me = r.delete_me
           /\ ~(n < Unsent(r)) => Sent(r, n).out = 0
           /\ Unsent(r) \in Int
  <1>0. OutChunks \in Nat \ {0}
    BY Constants
  <1>1. r.out \in Nat /\ r.sent \in 0..(OutChunks - 1)
    BY RecTypes
  <1> DEFINE o == r.out
             s == r.sent
             c == OutChunks
  <1>2. o \in Nat /\ s \in Nat /\ c \in Nat \ {0}
    BY <1>0, <1>1
  <1>3. Unsent(r) = o * c - s
    BY DEF Unsent
  <1> HIDE DEF o, s, c
  <1>4. o * c \in Nat
    BY <1>2
  <1>5. n \in 0..(o * c - s)
    BY <1>3
  <1>6. s + n \in Nat /\ s + n <= o * c /\ (~(n < o * c - s) => s + n = o * c)
    BY <1>2, <1>4, <1>5
  <1>7. /\ (s + n) % c \in 0..(c - 1) /\ (s + n) \div c \in 0..o
        /\ s + n = o * c => (s + n) \div c = o
    BY <1>2, <1>6, Quotient
  <1> DEFINE o2 == o - ((s + n) \div c)
             s2 == (s + n) % c
  <1>8. o2 \in Nat /\ s2 \in 0..(OutChunks - 1) /\ (~(n < Unsent(r)) => o2 = 0)
    BY <1>2, <1>3, <1>6, <1>7 DEF c
  <1>9. Sent(r, n) = [r EXCEPT !.out = o2, !.sent = s2]
    BY DEF Sent, o, s, c
  <1> HIDE DEF o2, s2
  <1>10. /\ [r EXCEPT !.out = o2, !.sent = s2] \in Rec
         /\ [r EXCEPT !.out = o2, !.sent = s2].tag = r.tag
         /\ [r EXCEPT !.out = o2, !.sent = s2].fds_index = r.fds_index
         /\ [r EXCEPT !.out = o2, !.sent = s2].delete_me = r.delete_me
         /\ [r EXCEPT !.out = o2, !.sent = s2].out = o2
    BY <1>8 DEF Rec
  <1> QED  BY <1>2, <1>3, <1>4, <1>8, <1>9, <1>10

\* Fds_info::reset changes neither the tag nor the slot.
LEMMA ResetRec ==
    ASSUME NEW r \in Rec
    PROVE  /\ Reset(r) \in Rec /\ Reset(r).tag = r.tag /\ Reset(r).fds_index = r.fds_index
           /\ Reset(r).delete_me = r.delete_me
  BY DEF Reset, Rec

\* message_cleanup changes neither the tag nor the slot nor what is to be sent.
LEMMA CleanedRec ==
    ASSUME NEW r \in Rec
    PROVE  /\ message_cleanup(r) \in Rec /\ message_cleanup(r).tag = r.tag
           /\ message_cleanup(r).fds_index = r.fds_index
           /\ message_cleanup(r).delete_me = r.delete_me /\ message_cleanup(r).out = r.out
  <1>1. 0 \in 0..LengthChunks /\ 0 \in 0..MaxLength
    BY Constants
  <1> DEFINE z == 0
  <1>2. z \in Nat /\ z \in 0..LengthChunks /\ z \in 0..MaxLength
    BY <1>1
  <1>3. message_cleanup(r) = [r EXCEPT !.in_message = FALSE, !.in_msg_got = z,
                                       !.in_length = z, !.in_length_got = z]
    BY DEF message_cleanup
  <1> HIDE DEF z
  <1> QED  BY ONLY <1>2, <1>3, r \in Rec DEF Rec

\* The constructor gives every field its type.
LEMMA NewRec ==
    ASSUME NEW tag \in Tags, NEW k \in 0..Cardinality(Infos),
           NEW wt \in {"WRITE_O2", "WRITE_CUSTOM"}
    PROVE  /\ Fds_info(tag, k, wt) \in Rec /\ Fds_info(tag, k, wt).tag = tag
           /\ Fds_info(tag, k, wt).fds_index = k /\ Fds_info(tag, k, wt).delete_me = 0
           /\ Fds_info(tag, k, wt).out = 0
  BY Constants DEF Fds_info, Rec

-----------------------------------------------------------------------------
(* Parts of actions.                                                       *)

Kept(fi, st) ==
    /\ Core(fds', fi, info', net', st) /\ delete_flag' \in BOOLEAN
    /\ \A x \in Infos : info[x].tag # "none" => info'[x].tag # "none"

\* One entry of info changes to r and no tag goes back to "none".
LEMMA TagsKept ==
    ASSUME NEW i \in Infos, info \in [Infos -> Rec], NEW r, r.tag # "none",
           info' = [info EXCEPT ![i] = r]
    PROVE  \A x \in Infos : info[x].tag # "none" => info'[x].tag # "none"
  <1>1. info'[i] = r /\ \A x \in Infos : x # i => info'[x] = info[x]
    OBVIOUS
  <1> QED  BY <1>1

\* What an Fds_info that may take the place of another one keeps.
LEMMA Successor ==
    ASSUME NEW fi, NEW st, Core(fds, fi, info, net, st), NEW i \in Infos, Live(info[i]),
           NEW r, Succeeds(r, i)
    PROVE  /\ r \in Rec /\ Live(r) /\ r.tag # "none" /\ r.fds_index = info[i].fds_index
           /\ r.fds_index \in Slots /\ fds[r.fds_index] \in Entry
           /\ fds[r.fds_index].pollout \in BOOLEAN
           /\ [fds EXCEPT ![r.fds_index].pollout = fds[r.fds_index].pollout] = fds
           /\ info \in [Infos -> Rec] /\ fds \in [Slots -> Entry]
  <1>1. r \in Rec /\ r.fds_index = info[i].fds_index /\ Live(r) /\ r.tag # "none"
    BY DEF Succeeds, Live
  <1>2. r.fds_index \in Slots /\ fds[r.fds_index] \in Entry
    BY <1>1, Slotted
  <1>3. info \in [Infos -> Rec] /\ fds \in [Slots -> Entry]
    BY CoreTypes
  <1> DEFINE k == r.fds_index
             e == fds[k]
  <1>4. k \in Slots /\ e \in Entry
    BY <1>2
  <1> HIDE DEF k
  <1>5. e.pollout \in BOOLEAN /\ [e EXCEPT !.pollout = e.pollout] = e
    <2> HIDE DEF e
    <2> QED  BY <1>4 DEF Entry
  <1>6. [fds EXCEPT ![k].pollout = e.pollout] = [fds EXCEPT ![k] = e]
    BY <1>3, <1>4, <1>5
  <1>7. [fds EXCEPT ![k] = e] = fds
    BY <1>3, <1>4
  <1> QED  BY <1>1, <1>2, <1>3, <1>5, <1>6, <1>7 DEF k

\* An Fds_info changes, and what poll() is asked for it.
LEMMA PutKept ==
    ASSUME NEW fi, NEW st, Core(fds, fi, info, net, st), NEW i \in Infos, Live(info[i]),
           delete_flag \in BOOLEAN, NEW r, Succeeds(r, i), NEW p \in BOOLEAN, Waits(r) => p,
           info' = [info EXCEPT ![i] = r], fds' = [fds EXCEPT ![r.fds_index].pollout = p],
           delete_flag' = delete_flag, net' = net
    PROVE  Kept(fi, st)
  <1>2. /\ r \in Rec /\ r.fds_index = info[i].fds_index
        /\ \/ r.tag = info[i].tag
           \/ info[i].tag = "NET_TCP_CONNECTING" /\ r.tag = "NET_TCP_CLIENT"
        /\ r.delete_me = 2 => info[i].delete_me = 2
    BY DEF Succeeds
  <1>3. Core([fds EXCEPT ![r.fds_index].pollout = p], fi, [info EXCEPT ![i] = r], net, st)
    BY <1>2, CoreChanged
  <1>4. r.tag # "none" /\ info \in [Infos -> Rec]
    BY Successor
  <1>5. \A x \in Infos : info[x].tag # "none" => info'[x].tag # "none"
    BY <1>4, TagsKept
  <1> QED  BY <1>3, <1>5 DEF Kept

\* The same when what poll() is asked for stays.
LEMMA PutSame ==
    ASSUME NEW fi, NEW st, Core(fds, fi, info, net, st), NEW i \in Infos, Live(info[i]),
           delete_flag \in BOOLEAN, NEW r, Succeeds(r, i),
           Waits(r) => Waits(info[i]), info' = [info EXCEPT ![i] = r], fds' = fds,
           delete_flag' = delete_flag, net' = net
    PROVE  Kept(fi, st)
  <1> DEFINE p == fds[r.fds_index].pollout
  <1>1. /\ p \in BOOLEAN /\ [fds EXCEPT ![r.fds_index].pollout = p] = fds
        /\ r.fds_index = info[i].fds_index
    BY Successor
  <1>2. Waits(r) => p
    BY <1>1 DEF Core, Wanted
  <1>3. fds' = [fds EXCEPT ![r.fds_index].pollout = p]
    BY <1>1
  <1> HIDE DEF p
  <1> QED  BY <1>1, <1>2, <1>3, PutKept

\* A socket is closed and its Fds_info left to be deleted.
LEMMA CloseNowKept ==
    ASSUME NEW fi, NEW st, Core(fds, fi, info, net, st), NEW i \in Infos, Live(info[i]),
           NEW r, Succeeds(r, i), CloseNow(i, r)
    PROVE  Kept(fi, st)
  <1> DEFINE c == [r EXCEPT !.delete_me = 2, !.tag = "NET_INFO_CLOSED"]
  <1>1. /\ info' = [info EXCEPT ![i] = c]
        /\ fds' = [fds EXCEPT ![r.fds_index].fd = INVALID_SOCKET]
        /\ net' = [net EXCEPT ![i] = "closed"] /\ delete_flag' = TRUE
    BY DEF CloseNow
  <1>2. r \in Rec /\ r.fds_index = info[i].fds_index /\ info \in [Infos -> Rec]
    BY Successor
  <1>3. c \in Rec /\ c.tag = "NET_INFO_CLOSED" /\ c.fds_index = r.fds_index
    <2> DEFINE d == 2
               t == "NET_INFO_CLOSED"
    <2>1. d \in 0..2 /\ t \in Tags
      BY DEF Tags
    <2> HIDE DEF d, t
    <2>2. /\ [r EXCEPT !.delete_me = d, !.tag = t] \in Rec
          /\ [r EXCEPT !.delete_me = d, !.tag = t].tag = t
          /\ [r EXCEPT !.delete_me = d, !.tag = t].fds_index = r.fds_index
      BY ONLY <1>2, <2>1 DEF Rec
    <2> QED  BY <2>2 DEF d, t
  <1> HIDE DEF c
  <1>4. Core([fds EXCEPT ![c.fds_index].fd = INVALID_SOCKET], fi, [info EXCEPT ![i] = c],
             [net EXCEPT ![i] = "closed"], st)
    BY <1>2, <1>3, CoreClosed
  <1>5. \A x \in Infos : info[x].tag # "none" => info'[x].tag # "none"
    BY <1>1, <1>2, <1>3, TagsKept
  <1> QED  BY <1>1, <1>3, <1>4, <1>5 DEF Kept

\* close_socket, at once or when the socket can be written.
LEMMA CloseKept ==
    ASSUME NEW fi, NEW st, Core(fds, fi, info, net, st), NEW i \in Infos, Live(info[i]),
           delete_flag \in BOOLEAN, NEW r, Succeeds(r, i), NEW now, close_socket(i, r, now)
    PROVE  Kept(fi, st)
  <1>0. r \in Rec
    BY DEF Succeeds
  <1>1. /\ Reset(r) \in Rec /\ Reset(r).tag = r.tag /\ Reset(r).fds_index = r.fds_index
        /\ Reset(r).delete_me = r.delete_me
    BY <1>0, ResetRec
  <1> DEFINE s == Reset(r)
             c == [s EXCEPT !.delete_me = 1]
  <1>2. Succeeds(s, i)
    BY <1>1 DEF Succeeds
  <1>3. CASE ~now /\ r.tag \in Connected
    <2>1. /\ info' = [info EXCEPT ![i] = c] /\ delete_flag' = delete_flag /\ net' = net
          /\ fds' = [fds EXCEPT ![r.fds_index].pollout = TRUE]
      BY <1>3 DEF close_socket, Put
    <2>2. s \in Rec
      BY <1>1
    <2> HIDE DEF s
    <2>3. c \in Rec /\ c.tag = s.tag /\ c.fds_index = s.fds_index /\ c.delete_me = 1
      BY <2>2 DEF Rec
    <2> HIDE DEF c
    <2>4. Succeeds(c, i)
      BY <1>2, <2>3 DEF Succeeds
    <2>5. c.fds_index = r.fds_index
      BY <1>1, <2>3 DEF s
    <2>6. fds' = [fds EXCEPT ![c.fds_index].pollout = TRUE]
      BY <2>1, <2>5
    <2> QED  BY <2>1, <2>4, <2>6, PutKept
  <1>4. CASE ~(~now /\ r.tag \in Connected)
    <2>1. CloseNow(i, s)
      BY <1>4 DEF close_socket
    <2> HIDE DEF s
    <2> QED  BY <1>2, <2>1, CloseNowKept
  <1> QED  BY <1>3, <1>4

\* Fds_info::send(false).
LEMMA SendKept ==
    ASSUME NEW fi, NEW st, Core(fds, fi, info, net, st), NEW i \in Infos, Live(info[i]),
           delete_flag \in BOOLEAN, NEW r, Succeeds(r, i), r.tag # "NET_TCP_CONNECTING",
           NEW clear \in BOOLEAN, clear => r.delete_me # 1,
           r.tag \in Connected /\ r.delete_me = 1 => Waits(info[i]),
           NEW e, SendNonblocking(i, r, e, clear)
    PROVE  Kept(fi, st)
  <1> DEFINE k == r.fds_index
  <1>1. r \in Rec /\ k \in Slots /\ fds[k].pollout \in BOOLEAN /\ k = info[i].fds_index
        /\ fds \in [Slots -> Entry] /\ fds[k] \in Entry
    BY Successor
  <1>2. CASE r.tag = "NET_INFO_CLOSED" /\ Put(i, r, fds)
    <2>1. ~Waits(r)
      BY <1>2 DEF Waits, Connected
    <2>2. /\ info' = [info EXCEPT ![i] = r] /\ fds' = fds /\ delete_flag' = delete_flag
          /\ net' = net
      BY <1>2 DEF Put
    <2> QED  BY <2>1, <2>2, PutSame
  <1>3. CASE \E n \in 0..Unsent(r) :
                /\ Write(i, r, e, fds[k].fd, n)
                /\ fds' = [fds EXCEPT ![k].pollout =
                              IF n < Unsent(r) THEN TRUE ELSE @ /\ ~clear]
    <2>1. PICK n \in 0..Unsent(r) :
                /\ Write(i, r, e, fds[k].fd, n)
                /\ fds' = [fds EXCEPT ![k].pollout =
                              IF n < Unsent(r) THEN TRUE ELSE @ /\ ~clear]
      BY <1>3
    <2> DEFINE p == IF n < Unsent(r) THEN TRUE ELSE fds[k].pollout /\ ~clear
               s == Sent(r, n)
    <2>2. /\ s \in Rec /\ s.tag = r.tag /\ s.fds_index = r.fds_index
          /\ s.delete_me = r.delete_me /\ (~(n < Unsent(r)) => s.out = 0)
      BY <1>1, SentRec
    <2>3. info' = [info EXCEPT ![i] = s] /\ delete_flag' = delete_flag /\ net' = net
      BY <2>1 DEF Write
    <2>4. fds' = [fds EXCEPT ![k].pollout = p]
      BY <2>1, <1>1
    <2>5. p \in BOOLEAN
      BY <1>1
    <2> HIDE DEF s
    <2>6. Waits(s) => p
      <3> SUFFICES ASSUME Waits(s), ~(n < Unsent(r)) PROVE fds[k].pollout /\ ~clear
        OBVIOUS
      <3>1. s.out = 0
        BY <2>2
      <3>2. s.tag \in Connected /\ s.delete_me = 1
        BY <2>2, <3>1 DEF Waits
      <3>3. Waits(info[i]) /\ ~clear
        BY <2>2, <3>2
      <3> QED  BY <3>3, <1>1 DEF Core, Wanted
    <2>7. Succeeds(s, i)
      BY <2>2 DEF Succeeds
    <2>8. fds' = [fds EXCEPT ![s.fds_index].pollout = p]
      BY <2>2, <2>4
    <2> HIDE DEF p
    <2> QED  BY <2>3, <2>5, <2>6, <2>7, <2>8, PutKept
  <1>4. CASE close_socket(i, r, TRUE)
    BY <1>4, CloseKept
  <1> QED  BY <1>2, <1>3, <1>4 DEF SendNonblocking

\* A message is added to the list of an Fds_info and sent if it is the only one.
LEMMA EnqueueKept ==
    ASSUME NEW fi, NEW st, Core(fds, fi, info, net, st), NEW i \in Infos, Live(info[i]),
           delete_flag \in BOOLEAN, enqueue(i, info[i])
    PROVE  Kept(fi, st)
  <1> DEFINE r == info[i]
  <1>1. r \in Rec
    BY Slotted
  <1>2. r.out \in Nat
    BY <1>1, RecTypes
  <1>3. CASE r.out = 0 /\ r.tag # "NET_TCP_CONNECTING"
    <2> DEFINE s == [r EXCEPT !.out = 1, !.sent = 0]
    <2>1. SendNonblocking(i, s, enq[i] + 1, FALSE)
      BY <1>3 DEF enqueue
    <2>2. s \in Rec /\ s.tag = r.tag /\ s.fds_index = r.fds_index /\ s.delete_me = r.delete_me
      <3> DEFINE x == 1
                 y == 0
      <3>1. x \in Nat /\ y \in 0..(OutChunks - 1)
        BY Constants
      <3> HIDE DEF r, x, y
      <3>2. /\ [r EXCEPT !.out = x, !.sent = y] \in Rec
            /\ [r EXCEPT !.out = x, !.sent = y].tag = r.tag
            /\ [r EXCEPT !.out = x, !.sent = y].fds_index = r.fds_index
            /\ [r EXCEPT !.out = x, !.sent = y].delete_me = r.delete_me
        BY ONLY <1>1, <3>1 DEF Rec
      <3> QED  BY <3>2 DEF x, y
    <2> HIDE DEF s
    <2>3. Succeeds(s, i)
      BY <2>2 DEF Succeeds
    <2>4. s.tag \in Connected /\ s.delete_me = 1 => Waits(info[i])
      BY <2>2 DEF Waits
    <2>5. s.tag # "NET_TCP_CONNECTING"
      BY <1>3, <2>2
    <2> DEFINE e == enq[i] + 1
               cl == FALSE
    <2>6. SendNonblocking(i, s, e, cl) /\ cl \in BOOLEAN /\ ~cl
      BY <2>1
    <2> HIDE DEF e, cl
    <2> QED  BY <2>3, <2>4, <2>5, <2>6, SendKept
  <1>4. CASE ~(r.out = 0 /\ r.tag # "NET_TCP_CONNECTING")
    <2> DEFINE n == r.out + 1
               s == [r EXCEPT !.out = n]
    <2>1. Put(i, s, fds)
      BY <1>4 DEF enqueue
    <2>2. n \in Nat
      BY <1>2
    <2>3. s \in Rec /\ s.tag = r.tag /\ s.fds_index = r.fds_index /\ s.delete_me = r.delete_me
      <3> HIDE DEF r, n
      <3> QED  BY ONLY <1>1, <2>2 DEF Rec
    <2> HIDE DEF s
    <2>4. Succeeds(s, i)
      BY <2>3 DEF Succeeds
    <2>5. r.out > 0 \/ r.tag = "NET_TCP_CONNECTING"
      BY <1>2, <1>4
    <2>6. Waits(s) => Waits(info[i])
      BY <2>3, <2>5 DEF Waits
    <2>7. /\ info' = [info EXCEPT ![i] = s] /\ fds' = fds /\ delete_flag' = delete_flag
          /\ net' = net
      BY <2>1 DEF Put
    <2> QED  BY <2>4, <2>6, <2>7, PutSame
  <1> QED  BY <1>3, <1>4

\* A new socket.
LEMMA NewKept ==
    ASSUME NEW st, Core(fds, fds_info, info, net, st), NEW i \in Tcp, info[i].tag = "none",
           delete_flag \in BOOLEAN, delete_flag' = delete_flag,
           NEW tag \in Connected \cup {"NET_TCP_CONNECTING"},
           NEW p \in BOOLEAN, tag = "NET_TCP_CONNECTING" => p,
           NEW s \in {"up", "connecting"}, i \in Accepts => s = "up",
           \A k \in 1..Len(st[srv]) : st[srv][k] # i,
           NewInfo(i, tag, p), net' = [net EXCEPT ![i] = s]
    PROVE  /\ Kept(fds_info', st) /\ fds_info' = Append(fds_info, i)
  <1>1. PICK wt \in {"WRITE_O2", "WRITE_CUSTOM"} :
        /\ fds_info' = Append(fds_info, i)
        /\ fds' = [fds EXCEPT ![Size + 1] = Slot(i, p)]
        /\ info' = [info EXCEPT ![i] = Fds_info(tag, Size + 1, wt)]
    BY DEF NewInfo
  <1> DEFINE k == Len(fds_info) + 1
             r == Fds_info(tag, k, wt)
             e == Slot(i, p)
  <1>2. Size + 1 = k
    BY DEF Size
  <1>3. i \in Infos /\ Cardinality(Infos) \in Nat
    BY Constants
  <1>4. Len(fds_info) < Cardinality(Infos)
    BY <1>3, Fits DEF Live
  <1>5. Len(fds_info) \in Nat /\ info \in [Infos -> Rec]
    BY CoreTypes
  <1>6. k \in 0..Cardinality(Infos)
    BY <1>3, <1>4, <1>5
  <1>7. tag \in Tags /\ tag # "none"
    BY DEF Tags, Connected
  <1>8. r \in Rec /\ r.tag = tag /\ r.fds_index = k /\ r.delete_me = 0 /\ r.out = 0
    <2> HIDE DEF k
    <2> QED  BY <1>6, <1>7, NewRec
  <1>9. e \in Entry /\ e.fd = i /\ e.pollout = p
    BY <1>3 DEF Slot, Entry
  <1> HIDE DEF r, e
  <1>10. Core([fds EXCEPT ![Len(fds_info) + 1] = e], Append(fds_info, i),
              [info EXCEPT ![i] = r], [net EXCEPT ![i] = s], st)
    BY <1>8, <1>9, CoreNew
  <1>11. info' = [info EXCEPT ![i] = r] /\ fds' = [fds EXCEPT ![Len(fds_info) + 1] = e]
    BY <1>1, <1>2 DEF r, e
  <1>12. \A x \in Infos : info[x].tag # "none" => info'[x].tag # "none"
    BY <1>3, <1>5, <1>7, <1>8, <1>11, TagsKept
  <1> QED  BY <1>1, <1>10, <1>11, <1>12 DEF Kept

-----------------------------------------------------------------------------
(* The steps.  First the user code and the calls of send(true).            *)

\* The calls in progress are not disturbed by a part of an action.
LEMMA CallsKept ==
    ASSUME IInv, NEW cs, Frames(cs, fds_info, info, stream), NEW fi2, NEW st2, Kept(fi2, st2),
           fi2 = fds_info \/ \E i \in Infos : fi2 = Append(fds_info, i),
           st2[srv] = << >> => stream[srv] = << >>
    PROVE  Frames(cs, fi2, info', st2)
  <1>1. fds_info \in Seq(Infos) /\ Len(fds_info) \in Nat
    BY CoreTypes DEF IInv
  <1>2. Len(fi2) \in Nat /\ Len(fds_info) <= Len(fi2)
        /\ \A k \in 1..Len(fds_info) : fi2[k] = fds_info[k]
    BY <1>1
  <1>3. \A i \in Tcp : info[i].tag # "none" => info'[i].tag # "none"
    BY Constants DEF Kept
  <1> QED  BY ONLY <1>1, <1>2, <1>3, FramesKept, Frames(cs, fds_info, info, stream),
                   st2[srv] = << >> => stream[srv] = << >>

\* What is left to show when the calls stay and no slot is freed.
LEMMA StepKept ==
    ASSUME IInv, NEW fi2, NEW st2, Kept(fi2, st2), fds_info' = fi2, stream' = st2,
           fi2 = fds_info \/ \E i \in Infos : fi2 = Append(fds_info, i),
           st2[srv] = << >> => stream[srv] = << >>, fault' = fault,
           calls' = calls \/ (calls # << >> /\ calls' = Tail(calls))
    PROVE  IInv'
  <1>1. Frames(calls, fds_info, info, stream) /\ fault \in BOOLEAN
    BY DEF IInv
  <1>2. Frames(calls', fds_info, info, stream)
    <2>1. CASE calls' = calls
      BY <1>1, <2>1
    <2>2. CASE calls # << >> /\ calls' = Tail(calls)
      BY <1>1, <2>2, FramesPopped
    <2> QED  BY <2>1, <2>2
  <1> DEFINE cs == calls'
  <1>3. Frames(cs, fds_info, info, stream)
    BY <1>2
  <1> HIDE DEF cs
  <1>4. Frames(cs, fi2, info', st2)
    BY <1>3, CallsKept
  <1>5. Core(fds', fi2, info', net', st2) /\ delete_flag' \in BOOLEAN
    BY DEF Kept
  <1> QED  BY <1>1, <1>4, <1>5 DEF IInv, cs

\* Making a client socket keeps the invariant.
LEMMA CreateStep ==
    ASSUME IInv, NEW i \in Clients, create_tcp_client(i)
    PROVE  IInv'
  <1>1. PICK up \in BOOLEAN :
          /\ NewInfo(i, IF up THEN "NET_TCP_CLIENT" ELSE "NET_TCP_CONNECTING", ~up)
          /\ net' = [net EXCEPT ![i] = IF up THEN "up" ELSE "connecting"]
    BY DEF create_tcp_client
  <1>2. /\ info[i].tag = "none" /\ delete_flag' = delete_flag /\ calls' = calls
        /\ fault' = fault /\ stream' = stream
    BY DEF create_tcp_client
  <1> DEFINE tag == IF up THEN "NET_TCP_CLIENT" ELSE "NET_TCP_CONNECTING"
             p == ~up
             s == IF up THEN "up" ELSE "connecting"
  <1>3. /\ tag \in Connected \cup {"NET_TCP_CONNECTING"} /\ p \in BOOLEAN
        /\ tag = "NET_TCP_CONNECTING" => p
        /\ s \in {"up", "connecting"}
    BY DEF Connected
  <1>4. NewInfo(i, tag, p) /\ net' = [net EXCEPT ![i] = s]
    BY <1>1
  <1> HIDE DEF tag, p, s
  <1>5. i \in Tcp /\ i \notin Accepts /\ i \in Infos
    BY Constants, NetworkAssumption
  <1>6. Core(fds, fds_info, info, net, stream) /\ delete_flag \in BOOLEAN
    BY DEF IInv
  <1>7. stream[srv] \in Seq(Accepts)
    BY <1>6, CoreTypes
  <1>8. \A k \in 1..Len(stream[srv]) : stream[srv][k] # i
    BY <1>5, <1>7
  <1> DEFINE fi2 == Append(fds_info, i)
  <1>9. Kept(fds_info', stream) /\ fds_info' = fi2
    BY <1>2, <1>3, <1>4, <1>5, <1>6, <1>8, NewKept
  <1>10. Kept(fi2, stream) /\ \E x \in Infos : fi2 = Append(fds_info, x)
    BY <1>5, <1>9
  <1> HIDE DEF fi2
  <1> QED  BY <1>2, <1>9, <1>10, StepKept

\* Who is in the array has an Fds_info in use.
LEMMA InArray ==
    ASSUME IInv, NEW i \in Range(fds_info)
    PROVE  /\ i \in Infos /\ Live(info[i]) /\ info[i] \in Rec /\ info[i].fds_index \in Slots
           /\ info[i].tag # "none"
  <1>1. Core(fds, fds_info, info, net, stream) /\ fds_info \in Seq(Infos)
    BY CoreTypes DEF IInv
  <1>2. PICK k \in 1..Len(fds_info) : i = fds_info[k]
    BY <1>1 DEF Range
  <1>3. /\ fds_info[k] \in Infos /\ Live(info[fds_info[k]])
        /\ info[fds_info[k]].fds_index = k /\ k \in Slots /\ info[fds_info[k]] \in Rec
    BY <1>1, SlotInUse
  <1> QED  BY <1>2, <1>3 DEF Live

\* Sending, or waiting to send, keeps the invariant.
LEMMA SendStep ==
    ASSUME IInv, NEW i \in Tcp, NEW block \in BOOLEAN, send_tcp(i, block)
    PROVE  IInv'
  <1>1. i \in Range(fds_info) /\ fds_info' = fds_info /\ fault' = fault /\ stream' = stream
    BY DEF send_tcp
  <1>2. i \in Infos /\ Live(info[i]) /\ info[i].fds_index \in Slots /\ info[i].tag # "none"
    BY <1>1, InArray
  <1>3. /\ Core(fds, fds_info, info, net, stream) /\ delete_flag \in BOOLEAN
        /\ Frames(calls, fds_info, info, stream) /\ fault \in BOOLEAN
    BY DEF IInv
  <1>4. CASE /\ calls' = <<[f |-> "send", i |-> i, k |-> info[i].fds_index,
                            wait |-> 0]>> \o calls
             /\ UNCHANGED <<fds, info, delete_flag, net, tx, enq>>
    <2> DEFINE c == [f |-> "send", i |-> i, k |-> info[i].fds_index, wait |-> 0]
    <2>1. c \in Frame /\ c.f = "send" /\ c.i = i
      BY <1>2 DEF Frame, SendFrames
    <2>2. calls' = <<c>> \o calls
      BY <1>4
    <2> HIDE DEF c
    <2>3. Frames(<<c>> \o calls, fds_info, info, stream)
      BY <1>2, <1>3, <2>1, FramesPushed
    <2> QED  BY <1>1, <1>3, <1>4, <2>2, <2>3 DEF IInv
  <1>5. CASE enqueue(i, info[i]) /\ UNCHANGED calls
    <2>1. Kept(fds_info, stream)
      BY <1>2, <1>3, <1>5, EnqueueKept
    <2> QED  BY <1>1, <1>5, <2>1, StepKept
  <1> QED  BY <1>4, <1>5 DEF send_tcp

\* A close by user code keeps the invariant.
LEMMA CloseStep ==
    ASSUME IInv, NEW i \in Tcp, NEW now \in BOOLEAN, NEW keep \in BOOLEAN,
           CloseByUser(i, now, keep)
    PROVE  IInv'
  <1>1. /\ i \in Range(fds_info) /\ fds_info' = fds_info /\ fault' = fault /\ stream' = stream
        /\ calls' = calls /\ close_socket(i, [info[i] EXCEPT !.owner = keep], now)
    BY DEF CloseByUser
  <1>2. i \in Infos /\ Live(info[i]) /\ info[i] \in Rec
    BY <1>1, InArray
  <1>3. Core(fds, fds_info, info, net, stream) /\ delete_flag \in BOOLEAN
    BY DEF IInv
  <1> DEFINE r == info[i]
             s == [r EXCEPT !.owner = keep]
  <1>4. s \in Rec /\ s.tag = r.tag /\ s.fds_index = r.fds_index /\ s.delete_me = r.delete_me
    <2> HIDE DEF r
    <2>1. r \in Rec
      BY <1>2 DEF r
    <2> QED  BY ONLY <2>1, keep \in BOOLEAN DEF Rec
  <1>5. close_socket(i, s, now)
    BY <1>1
  <1> HIDE DEF s
  <1>6. Succeeds(s, i)
    BY <1>4 DEF Succeeds
  <1>7. Kept(fds_info, stream)
    BY <1>2, <1>3, <1>5, <1>6, CloseKept
  <1> QED  BY <1>1, <1>7, StepKept

-----------------------------------------------------------------------------
(* o2n_recv begins.                                                        *)

\* No o2n_recv is in progress.
Outside(cs) == \A j \in 1..Len(cs) : cs[j].f # "recv"

\* What poll() reports is an event, and a connection is there when it reports one.
LEMMA ReventsFacts ==
    ASSUME NEW i, NEW slot, NEW full, NEW hup
    PROVE  /\ Revents(i, slot, full, hup) \in Events
           /\ Revents(i, slot, full, hup) = "POLLIN" => stream[i] # << >> \/ net[i] = "eof"
  <1> DEFINE e == Revents(i, slot, full, hup)
  <1>1. CASE slot.fd = INVALID_SOCKET
    <2>1. e = "none"
      BY <1>1 DEF Revents
    <2> QED  BY <2>1 DEF Events
  <1>2. CASE slot.fd # INVALID_SOCKET /\ net[i] = "reset"
    <2>1. e = "POLLERR"
      BY <1>2 DEF Revents
    <2> QED  BY <2>1 DEF Events
  <1>3. CASE slot.fd # INVALID_SOCKET /\ net[i] # "reset" /\ i \in hup
    <2>1. e = "POLLHUP"
      BY <1>3 DEF Revents
    <2> QED  BY <2>1 DEF Events
  <1>4. CASE slot.fd # INVALID_SOCKET /\ net[i] # "reset" /\ i \notin hup
    <2>1. \/ e = "POLLOUT" \/ e = "none"
          \/ e = "POLLIN" /\ (stream[i] # << >> \/ net[i] = "eof")
      BY <1>4 DEF Revents
    <2> QED  BY <2>1 DEF Events
  <1> QED  BY <1>1, <1>2, <1>3, <1>4

\* poll() returns, and the loop over the slots begins.
LEMMA PollFrames ==
    ASSUME IInv, NEW cs, Frames(cs, fds_info, info, stream), Outside(cs), Poll(cs)
    PROVE  Frames(calls', fds_info, info, stream)
  <1>1. PICK full, hup :
          LET ev == [k \in 1..Size |-> Revents(fds_info[k], fds[k], full, hup)]
          IN calls' = <<[f |-> "recv", ph |-> "scan", k |-> Reported(ev, 1),
                         ev |-> ev]>> \o cs
    BY DEF Poll
  <1> DEFINE ev == [k \in 1..Size |-> Revents(fds_info[k], fds[k], full, hup)]
             k1 == Reported(ev, 1)
             c == [f |-> "recv", ph |-> "scan", k |-> k1, ev |-> ev]
  <1>2. calls' = <<c>> \o cs
    BY <1>1
  <1>3. Core(fds, fds_info, info, net, stream)
    BY DEF IInv
  <1>4. fds_info \in Seq(Infos) /\ Len(fds_info) \in Nat /\ Size = Len(fds_info)
    BY <1>3, CoreTypes DEF Size
  <1>5. \A k \in 1..Size : ev[k] = Revents(fds_info[k], fds[k], full, hup) /\ ev[k] \in Events
    BY ReventsFacts
  <1>6. ev \in Seq(Events) /\ Len(ev) = Size
    <2>1. ev \in [1..Size -> Events]
      BY <1>5
    <2> QED  BY <1>4, <2>1
  <1>7. net[srv] # "eof"
    BY <1>3 DEF Core, Sockets
  <1>8. ASSUME NEW k \in 1..Size, fds_info[k] = srv, ev[k] = "POLLIN"
        PROVE  stream[srv] # << >>
    BY <1>5, <1>7, <1>8, ReventsFacts
  <1> HIDE DEF ev
  <1>9. k1 \in Nat \ {0}
    BY <1>6, ReportedFacts
  <1> HIDE DEF k1
  <1>10. c \in Frame /\ c.k = k1 /\ c.ev = ev
    BY <1>6, <1>9 DEF Frame, ScanFrame
  <1> HIDE DEF c
  <1>11. ScanOK(c, fds_info, stream)
    <2>1. ASSUME NEW k \in c.k..Len(c.ev) PROVE k \in 1..Size
      BY <1>4, <1>6, <1>9, <1>10
    <2> QED  BY <1>4, <1>6, <1>8, <1>10, <2>1 DEF ScanOK
  <1>12. c.f = "recv"
    BY DEF c
  <1>13. Frames(<<c>> \o cs, fds_info, info, stream)
    BY <1>10, <1>11, <1>12, FramesPushed DEF Outside
  <1> QED  BY <1>2, <1>13

\* The beginning of o2n_recv keeps the invariant.
LEMMA RecvStep ==
    ASSUME IInv, NEW cs, Frames(cs, fds_info, info, stream), Outside(cs), o2n_recv(cs)
    PROVE  IInv'
  <1>1. /\ Core(fds, fds_info, info, net, stream) /\ delete_flag \in BOOLEAN
        /\ fault \in BOOLEAN
    BY DEF IInv
  <1>2. UNCHANGED <<fds, fds_info, info, fault, net, stream>>
    BY DEF o2n_recv, os
  <1>3. Frames(calls', fds_info, info, stream) /\ delete_flag' \in BOOLEAN
    <2>1. CASE delete_flag
      <3> DEFINE c == [f |-> "recv", ph |-> "pre", k |-> 1]
      <3>1. calls' = <<c>> \o cs /\ delete_flag' = FALSE
        BY <2>1 DEF o2n_recv
      <3>2. c \in Frame /\ c.f = "recv" /\ c.ph = "pre"
        BY DEF Frame, FreeFrame
      <3> HIDE DEF c
      <3>3. Frames(<<c>> \o cs, fds_info, info, stream)
        BY <3>2, FramesPushed DEF Outside
      <3> QED  BY <3>1, <3>3
    <2>2. CASE ~delete_flag
      <3>1. Poll(cs) /\ delete_flag' = delete_flag
        BY <2>2 DEF o2n_recv
      <3> QED  BY <1>1, <3>1, PollFrames
    <2> QED  BY <2>1, <2>2
  <1> QED  BY <1>1, <1>2, <1>3 DEF IInv

\* A poll outside of all calls keeps the invariant.
LEMMA PollStep ==
    ASSUME IInv, o2_poll
    PROVE  IInv'
  <1>1. calls = << >> /\ o2n_recv(calls)
    BY DEF o2_poll
  <1>2. Frames(calls, fds_info, info, stream)
    BY DEF IInv
  <1>3. Outside(calls)
    BY <1>1 DEF Outside
  <1> QED  BY <1>1, <1>2, <1>3, RecvStep

-----------------------------------------------------------------------------
(* send(true).                                                             *)

\* The socket of a blocking send exists or has been deleted.
LEMMA SenderFacts ==
    ASSUME IInv, SendFrame
    PROVE  /\ calls # << >> /\ Head(calls) \in SendFrames /\ Sender \in Tcp /\ Sender \in Infos
           /\ info[Sender].tag # "none" /\ Frames(Tail(calls), fds_info, info, stream)
           /\ calls = <<Head(calls)>> \o Tail(calls)
  <1>1. calls # << >> /\ Head(calls).f = "send"
    BY DEF SendFrame, Current
  <1>2. Frames(calls, fds_info, info, stream)
    BY DEF IInv
  <1>3. /\ Frames(Tail(calls), fds_info, info, stream) /\ Head(calls) \in Frame
        /\ Head(calls).f = "send" => info[Head(calls).i].tag # "none"
        /\ calls = <<Head(calls)>> \o Tail(calls)
    BY <1>1, <1>2, FramesPopped
  <1>4. Head(calls) \in SendFrames
    BY <1>1, <1>3 DEF Frame, FreeFrame, ScanFrame, SendFrames, HandlerFrame
  <1>5. Sender \in Tcp
    BY <1>4 DEF SendFrames, Sender
  <1> QED  BY <1>1, <1>3, <1>4, <1>5, Constants DEF Sender

\* A blocking send that polls keeps the invariant.
LEMMA SendPollsStep ==
    ASSUME IInv, SendPolls
    PROVE  IInv'
  <1> DEFINE h == Head(calls)
             w == h.wait + 1
             c == [h EXCEPT !.wait = w]
             t == Tail(calls)
  <1>1. SendFrame /\ ~In_o2n_recv(calls) /\ o2n_recv(<<c>> \o t)
    BY DEF SendPolls
  <1>2. /\ h \in SendFrames /\ Frames(t, fds_info, info, stream) /\ info[h.i].tag # "none"
        /\ calls = <<h>> \o t
    BY <1>1, SenderFacts DEF Sender
  <1>3. Outside(calls) /\ t \in Seq(Frame)
    BY <1>1, <1>2 DEF Outside, In_o2n_recv, IInv, Frames
  <1>4. w \in Nat
    BY <1>2 DEF SendFrames
  <1> HIDE DEF h, w, t
  <1>5. c \in SendFrames /\ c.i = h.i
    BY ONLY <1>2, <1>4 DEF SendFrames
  <1> HIDE DEF c
  <1>6. c \in Frame /\ c.f = "send" /\ h \in Frame
    BY <1>2, <1>5 DEF Frame, SendFrames
  <1>7. Frames(<<c>> \o t, fds_info, info, stream)
    BY <1>2, <1>5, <1>6, FramesPushed
  <1>8. \A j \in 1..Len(t) : j + 1 \in 1..Len(calls) /\ calls[j + 1] = t[j]
    BY <1>2, <1>3, <1>6
  <1>9. Outside(t)
    BY <1>3, <1>8 DEF Outside
  <1> DEFINE cs == <<c>> \o t
  <1>10. \A j \in 1..Len(cs) : cs[j] = c \/ (j - 1 \in 1..Len(t) /\ cs[j] = t[j - 1])
    BY <1>3, <1>6
  <1>11. Outside(cs) /\ Frames(cs, fds_info, info, stream) /\ o2n_recv(cs)
    BY <1>1, <1>6, <1>7, <1>9, <1>10 DEF Outside
  <1> HIDE DEF cs
  <1> QED  BY <1>11, RecvStep

\* A blocking send that waits for the connection keeps the invariant.
LEMMA SendSelectsStep ==
    ASSUME IInv, SendSelects
    PROVE  IInv'
  <1>1. SendFrame /\ info[Sender].tag = "NET_TCP_CONNECTING"
    BY DEF SendSelects
  <1>2. calls # << >> /\ Sender \in Infos
    BY <1>1, SenderFacts
  <1>3. UNCHANGED <<fds, fds_info, delete_flag, fault, net, stream>>
    BY DEF SendSelects, os
  <1>4. Core(fds, fds_info, info, net, stream) /\ delete_flag \in BOOLEAN
    BY DEF IInv
  <1>5. CASE info' = [info EXCEPT ![Sender].tag = "NET_TCP_CLIENT"] /\ UNCHANGED calls
    <2> DEFINE i == Sender
               r == info[i]
               t == "NET_TCP_CLIENT"
               s == [r EXCEPT !.tag = t]
    <2>1. Live(r)
      BY <1>1 DEF Live
    <2>2. r \in Rec
      BY <1>2, <1>4, <2>1, Slotted
    <2>3. t \in Tags
      BY DEF Tags
    <2>4. s \in Rec /\ s.tag = t /\ s.fds_index = r.fds_index /\ s.delete_me = r.delete_me
      <3> HIDE DEF r, t
      <3> QED  BY ONLY <2>2, <2>3 DEF Rec
    <2>5. info \in [Infos -> Rec]
      BY <1>4, CoreTypes
    <2>6. info' = [info EXCEPT ![i] = s]
      BY <1>2, <1>5, <2>5
    <2> HIDE DEF s, i
    <2>7. Succeeds(s, i)
      BY <1>1, <2>4 DEF Succeeds, i
    <2>8. Waits(info[i]) /\ Live(info[i]) /\ i \in Infos
      BY <1>1, <1>2, <2>1 DEF Waits, i
    <2>9. Kept(fds_info, stream)
      BY <1>3, <1>4, <2>6, <2>7, <2>8, PutSame
    <2> QED  BY <1>3, <1>5, <2>9, StepKept
  <1>6. CASE calls' = Tail(calls) /\ UNCHANGED info
    <2>1. Kept(fds_info, stream)
      BY <1>3, <1>4, <1>6 DEF Kept
    <2> QED  BY <1>2, <1>3, <1>6, <2>1, StepKept
  <1> QED  BY <1>5, <1>6 DEF SendSelects

\* A blocking send that writes, or fails to, keeps the invariant.
LEMMA SendWritesStep ==
    ASSUME IInv, SendWrites
    PROVE  IInv'
  <1> DEFINE i == Sender
             r == info[i]
  <1>1. /\ SendFrame /\ r.tag \notin {"NET_TCP_CONNECTING", "freed"} /\ r.out > 0
        /\ UNCHANGED <<fds_info, fault, stream>>
    BY DEF SendWrites
  <1>2. calls # << >> /\ i \in Infos /\ r.tag # "none"
    BY <1>1, SenderFacts
  <1>3. Core(fds, fds_info, info, net, stream) /\ delete_flag \in BOOLEAN
    BY DEF IInv
  <1>4. Live(r)
    BY <1>1, <1>2 DEF Live
  <1>5. r \in Rec
    BY <1>2, <1>3, <1>4, Slotted
  <1>6. ASSUME NEW fd, NEW n \in 1..Unsent(r), Write(i, r, enq[i], fd, n),
               UNCHANGED <<fds, calls>>
        PROVE  IInv'
    <2> DEFINE s == Sent(r, n)
    <2>1. n \in 0..Unsent(r)
      <3>1. Unsent(r) \in Int \/ Unsent(r) \notin Int
        OBVIOUS
      <3> QED  BY <1>6
    <2>2. /\ s \in Rec /\ s.tag = r.tag /\ s.fds_index = r.fds_index
          /\ s.delete_me = r.delete_me
      BY <1>5, <2>1, SentRec
    <2>3. info' = [info EXCEPT ![i] = s] /\ delete_flag' = delete_flag /\ net' = net
          /\ fds' = fds /\ calls' = calls
      BY <1>6 DEF Write
    <2> HIDE DEF s, i
    <2>4. Succeeds(s, i)
      BY <2>2 DEF Succeeds
    <2>5. Waits(s) => Waits(info[i])
      BY <1>1, <2>2 DEF Waits
    <2>6. Kept(fds_info, stream)
      BY <1>2, <1>3, <1>4, <2>3, <2>4, <2>5, PutSame
    <2> QED  BY <1>1, <2>3, <2>6, StepKept
  <1>7. CASE close_socket(i, r, TRUE) /\ calls' = Tail(calls)
    <2>1. Succeeds(r, i)
      BY <1>5 DEF Succeeds
    <2> HIDE DEF i
    <2>2. Kept(fds_info, stream)
      BY <1>2, <1>3, <1>4, <1>7, <2>1, CloseKept
    <2> QED  BY <1>1, <1>2, <1>7, <2>2, StepKept
  <1> QED  BY <1>6, <1>7 DEF SendWrites

\* A blocking send that enqueues its message keeps the invariant.
LEMMA SendDoneStep ==
    ASSUME IInv, SendDone
    PROVE  IInv'
  <1> DEFINE i == Sender
  <1>1. /\ SendFrame /\ info[i].tag \notin {"NET_TCP_CONNECTING", "freed"}
        /\ enqueue(i, info[i]) /\ calls' = Tail(calls)
        /\ UNCHANGED <<fds_info, fault, stream>>
    BY DEF SendDone
  <1>2. calls # << >> /\ i \in Infos /\ info[i].tag # "none"
    BY <1>1, SenderFacts
  <1>3. Core(fds, fds_info, info, net, stream) /\ delete_flag \in BOOLEAN
    BY DEF IInv
  <1>4. Live(info[i])
    BY <1>1, <1>2 DEF Live
  <1> HIDE DEF i
  <1>5. Kept(fds_info, stream)
    BY <1>1, <1>2, <1>3, <1>4, EnqueueKept
  <1> QED  BY <1>1, <1>2, <1>5, StepKept

-----------------------------------------------------------------------------
(* o2n_free_deleted_sockets.                                               *)

\* The current call of o2n_recv is the only one.
LEMMA RecvFacts ==
    ASSUME IInv, Current("recv")
    PROVE  /\ calls # << >> /\ Head(calls) \in FreeFrame \cup ScanFrame
           /\ Frames(Tail(calls), fds_info, info, stream) /\ Outside(Tail(calls))
           /\ calls = <<Head(calls)>> \o Tail(calls)
           /\ Head(calls).ph = "scan" => ScanOK(Head(calls), fds_info, stream)
           /\ Head(calls).k \in Nat \ {0} /\ Head(calls).f = "recv"
  <1>1. calls # << >> /\ Head(calls).f = "recv"
    BY DEF Current
  <1>2. Frames(calls, fds_info, info, stream)
    BY DEF IInv
  <1>3. /\ Frames(Tail(calls), fds_info, info, stream) /\ Head(calls) \in Frame
        /\ Head(calls).f = "recv" => \A j \in 1..Len(Tail(calls)) : Tail(calls)[j].f # "recv"
        /\ Head(calls).f = "recv" /\ Head(calls).ph = "scan" =>
              ScanOK(Head(calls), fds_info, stream)
        /\ calls = <<Head(calls)>> \o Tail(calls)
    BY <1>1, <1>2, FramesPopped
  <1>4. Head(calls) \in FreeFrame \cup ScanFrame
    BY <1>1, <1>3 DEF Frame, FreeFrame, ScanFrame, SendFrames, HandlerFrame
  <1>5. Head(calls).k \in Nat \ {0}
    BY <1>4 DEF FreeFrame, ScanFrame
  <1> QED  BY <1>1, <1>3, <1>4, <1>5 DEF Outside

\* Deleting an Fds_info and moving the last one into its slot keep the invariant.
LEMMA FreeOneStep ==
    ASSUME IInv, FreeOne
    PROVE  IInv'
  <1> DEFINE h == Head(calls)
             t == Tail(calls)
             k == CHOOSE x \in Deleted : \A j \in Deleted : x <= j
             c == [h EXCEPT !.k = k]
  <1>1. /\ Current("recv") /\ h.ph \in {"pre", "post"} /\ Deleted # {} /\ Delete(k)
        /\ calls' = <<c>> \o t /\ UNCHANGED <<delete_flag, fault, net>>
    BY DEF FreeOne, Freeing
  <1>2. /\ h \in FreeFrame \cup ScanFrame /\ Frames(t, fds_info, info, stream)
        /\ Outside(t) /\ h.k \in Nat \ {0}
    BY <1>1, RecvFacts
  <1>3. h \in FreeFrame
    BY <1>1, <1>2 DEF ScanFrame
  <1>4. /\ Core(fds, fds_info, info, net, stream) /\ delete_flag \in BOOLEAN
        /\ fault \in BOOLEAN
    BY DEF IInv
  <1>5. fds_info \in Seq(Infos) /\ Len(fds_info) \in Nat /\ Size = Len(fds_info)
        /\ info \in [Infos -> Rec]
    BY <1>4, CoreTypes DEF Size
  <1>6. k \in 1..Size /\ info[fds_info[k]].delete_me = 2
    <2>1. Deleted \subseteq Nat /\ Deleted \subseteq 1..Size
      BY <1>2, <1>5 DEF Deleted
    <2>2. \E x \in Deleted : \A j \in Deleted : x <= j
      BY <1>1, <2>1, Least
    <2>3. k \in Deleted
      BY <2>2
    <2> HIDE DEF k
    <2> QED  BY <2>1, <2>3 DEF Deleted
  <1> HIDE DEF k
  <1> DEFINE r == Fds_info("freed", 0, "WRITE_O2")
             d == fds_info[k]
             l == fds_info[Size]
             fi2 == [j \in 1..(Size - 1) |-> IF j = k THEN fds_info[Size] ELSE fds_info[j]]
             st2 == [stream EXCEPT ![d] = << >>]
  <1>7. r \in Rec /\ r.tag = "freed" /\ r.delete_me = 0
    <2> DEFINE tg == "freed"
               z == 0
               wt == "WRITE_O2"
    <2>1. tg \in Tags /\ z \in 0..Cardinality(Infos) /\ wt \in {"WRITE_O2", "WRITE_CUSTOM"}
      BY Constants DEF Tags
    <2> HIDE DEF tg, z, wt
    <2>2. /\ Fds_info(tg, z, wt) \in Rec /\ Fds_info(tg, z, wt).tag = tg
          /\ Fds_info(tg, z, wt).delete_me = 0
      BY <2>1, NewRec
    <2> QED  BY <2>2 DEF tg, z, wt
  <1>8. /\ fds' = [fds EXCEPT ![k] = fds[Size]] /\ fds_info' = fi2 /\ stream' = st2
        /\ info' = [[info EXCEPT ![l].fds_index = k] EXCEPT ![d] = r]
    BY <1>1 DEF Delete
  <1> HIDE DEF r
  <1>9. Core([fds EXCEPT ![k] = fds[Len(fds_info)]],
             [j \in 1..(Len(fds_info) - 1) |->
                 IF j = k THEN fds_info[Len(fds_info)] ELSE fds_info[j]],
             [[info EXCEPT ![fds_info[Len(fds_info)]].fds_index = k]
                 EXCEPT ![fds_info[k]] = r],
             net, [stream EXCEPT ![fds_info[k]] = << >>])
    BY <1>4, <1>5, <1>6, <1>7, CoreDeleted
  <1>10. Core(fds', fds_info', info', net', stream')
    BY <1>1, <1>5, <1>8, <1>9
  <1>11. d \in Infos /\ l \in Infos
    BY <1>4, <1>5, <1>6, Fits
  <1>12. \A x \in Tcp : info[x].tag # "none" => info'[x].tag # "none"
    <2> SUFFICES ASSUME NEW x \in Tcp, info[x].tag # "none" PROVE info'[x].tag # "none"
      OBVIOUS
    <2>0. x \in Infos
      BY Constants
    <2> DEFINE m == info[l]
               n == [m EXCEPT !.fds_index = k]
    <2>1. m \in Rec
      BY <1>5, <1>11
    <2>2. n.tag = m.tag
      <3> HIDE DEF m
      <3> QED  BY <2>1 DEF Rec
    <2>3. info' = [[info EXCEPT ![l] = n] EXCEPT ![d] = r]
      BY <1>5, <1>8, <1>11
    <2> HIDE DEF n
    <2>4. info'[x] = IF x = d THEN r ELSE IF x = l THEN n ELSE info[x]
      BY <2>0, <2>3, <1>5, <1>11
    <2> QED  BY <2>2, <2>4, <1>7
  <1> HIDE DEF h, t
  <1>13. c \in FreeFrame
    <2>1. k \in Nat \ {0}
      BY <1>5, <1>6
    <2> QED  BY ONLY <1>3, <2>1 DEF FreeFrame
  <1>14. c \in Frame /\ c.f = "recv" /\ c.ph # "scan"
    BY <1>13 DEF Frame, FreeFrame
  <1> HIDE DEF c
  <1>15. \A j \in 1..Len(t) : ~(t[j].f = "recv" /\ t[j].ph = "scan")
    BY <1>2 DEF Outside
  <1> DEFINE fi3 == fds_info'
             st3 == stream'
             inf3 == info'
  <1>16. Core(fds', fi3, inf3, net', st3) /\ fi3 = fds_info' /\ inf3 = info' /\ st3 = stream'
         /\ \A x \in Tcp : info[x].tag # "none" => inf3[x].tag # "none"
    BY <1>10, <1>12
  <1> HIDE DEF fi3, st3, inf3
  <1>17. Frames(t, fi3, inf3, st3)
    BY <1>2, <1>15, <1>16, FramesDeleting
  <1>18. Frames(<<c>> \o t, fi3, inf3, st3)
    BY <1>2, <1>14, <1>17, FramesPushed DEF Outside
  <1> QED  BY <1>1, <1>4, <1>16, <1>18 DEF IInv

\* The end of o2n_free_deleted_sockets keeps the invariant.
LEMMA FreeDoneStep ==
    ASSUME IInv, FreeDone
    PROVE  IInv'
  <1>1. Current("recv") /\ UNCHANGED <<fds, fds_info, info, delete_flag, fault, net, stream>>
    BY DEF FreeDone, Freeing, os
  <1>2. Frames(Tail(calls), fds_info, info, stream) /\ Outside(Tail(calls))
    BY <1>1, RecvFacts
  <1>3. Frames(calls', fds_info, info, stream)
    <2>1. CASE Poll(Tail(calls))
      BY <1>2, <2>1, PollFrames
    <2>2. CASE calls' = Tail(calls)
      BY <1>2, <2>2
    <2> QED  BY <2>1, <2>2 DEF FreeDone
  <1> QED  BY <1>1, <1>3 DEF IInv

-----------------------------------------------------------------------------
(* The loop of o2n_recv.                                                   *)

\* The slot that the loop looks at is in use.
LEMMA ScanFacts ==
    ASSUME IInv, NEW e, Event(e)
    PROVE  /\ Fi \in Infos /\ Live(info[Fi]) /\ info[Fi].fds_index = Head(calls).k
           /\ info[Fi] \in Rec /\ Succeeds(info[Fi], Fi)
           /\ Head(calls).k \in 1..Len(fds_info) /\ Head(calls).k \in 1..Len(Head(calls).ev)
           /\ Head(calls).ev[Head(calls).k] = e
           /\ Core(fds, fds_info, info, net, stream) /\ delete_flag \in BOOLEAN
           /\ fault \in BOOLEAN
  <1> DEFINE h == Head(calls)
  <1>1. Current("recv") /\ h.ph = "scan" /\ h.k <= Len(h.ev) /\ h.ev[h.k] = e
    BY DEF Event, Scanning
  <1>2. h \in FreeFrame \cup ScanFrame /\ ScanOK(h, fds_info, stream) /\ h.k \in Nat \ {0}
    BY <1>1, RecvFacts
  <1>3. h \in ScanFrame
    BY <1>1, <1>2 DEF FreeFrame
  <1>4. h.ev \in Seq(Events) /\ Len(h.ev) \in Nat
    BY <1>3 DEF ScanFrame
  <1>5. Core(fds, fds_info, info, net, stream) /\ delete_flag \in BOOLEAN /\ fault \in BOOLEAN
    BY DEF IInv
  <1>6. Len(fds_info) \in Nat
    BY <1>5, CoreTypes
  <1>7. h.k \in 1..Len(fds_info) /\ h.k \in 1..Len(h.ev)
    BY <1>1, <1>2, <1>4, <1>6 DEF ScanOK
  <1>8. /\ fds_info[h.k] \in Infos /\ Live(info[fds_info[h.k]])
        /\ info[fds_info[h.k]].fds_index = h.k /\ info[fds_info[h.k]] \in Rec
    <2> HIDE DEF h
    <2> QED  BY <1>5, <1>7, SlotInUse
  <1> QED  BY <1>1, <1>5, <1>7, <1>8 DEF Fi, Succeeds

\* The loop goes on at a later slot, which is not that of the same server socket.
LEMMA NextFrames ==
    ASSUME IInv, NEW e, Event(e), NEW fi2, NEW st2, Kept(fi2, st2),
           fi2 = fds_info \/ \E i \in Infos : fi2 = Append(fds_info, i),
           st2[srv] = << >> => stream[srv] = << >> \/ Fi = srv
    PROVE  Frames(Next_k, fi2, info', st2)
  <1> DEFINE h == Head(calls)
             t == Tail(calls)
             n == Reported(h.ev, h.k + 1)
             c == [h EXCEPT !.k = n]
             inf2 == info'
  <1>1. Current("recv") /\ h.ph = "scan"
    BY DEF Event, Scanning
  <1>2. /\ h \in FreeFrame \cup ScanFrame /\ ScanOK(h, fds_info, stream)
        /\ Frames(t, fds_info, info, stream) /\ Outside(t)
    BY <1>1, RecvFacts
  <1>3. h \in ScanFrame
    BY <1>1, <1>2 DEF FreeFrame
  <1>4. h.ev \in Seq(Events) /\ Len(h.ev) \in Nat /\ h.k \in Nat
    BY <1>3 DEF ScanFrame
  <1>5. /\ h.k \in 1..Len(fds_info) /\ h.k \in 1..Len(h.ev) /\ Fi = fds_info[h.k]
        /\ Core(fds, fds_info, info, net, stream)
    BY ScanFacts DEF Fi
  <1>6. Next_k = <<c>> \o t
    BY DEF Next_k
  <1>7. n \in Nat \ {0} /\ h.k + 1 <= n
    <2> DEFINE ev == h.ev
               k == h.k + 1
    <2>1. ev \in Seq(Events) /\ k \in Nat \ {0} /\ k <= Len(ev) + 1
      BY <1>4, <1>5
    <2> HIDE DEF ev, k
    <2>2. Reported(ev, k) \in Nat \ {0} /\ k <= Reported(ev, k)
      BY <2>1, ReportedFacts
    <2> QED  BY <2>2 DEF ev, k
  <1> HIDE DEF h, t, n
  <1>8. c \in ScanFrame /\ c.ev = h.ev /\ c.k = n /\ c.f = "recv"
    BY ONLY <1>3, <1>7 DEF ScanFrame
  <1> HIDE DEF c
  <1>9. fds_info \in Seq(Infos) /\ Len(fds_info) \in Nat
    BY <1>5, CoreTypes
  <1>10. Len(fi2) \in Nat /\ Len(fds_info) <= Len(fi2)
         /\ \A k \in 1..Len(fds_info) : fi2[k] = fds_info[k]
    BY <1>9
  <1>11. Len(h.ev) <= Len(fds_info)
    BY <1>2 DEF ScanOK
  <1>12. ScanOK(c, fi2, st2)
    <2>1. ASSUME NEW k \in c.k..Len(c.ev), fi2[k] = srv, c.ev[k] = "POLLIN"
          PROVE  st2[srv] # << >>
      <3>1. k \in 1..Len(fds_info) /\ k # h.k /\ k \in h.k..Len(h.ev)
        BY <1>4, <1>5, <1>7, <1>8, <1>9, <1>11
      <3>2. fds_info[k] = srv /\ h.ev[k] = "POLLIN"
        BY <2>1, <3>1, <1>8, <1>10
      <3>3. stream[srv] # << >>
        BY <3>1, <3>2, <1>2 DEF ScanOK
      <3>4. Fi # srv
        BY <3>1, <3>2, <1>5, Fits
      <3> QED  BY <3>3, <3>4
    <2>2. Len(c.ev) <= Len(fi2)
      BY <1>4, <1>8, <1>9, <1>10, <1>11
    <2> QED  BY <2>1, <2>2 DEF ScanOK
  <1>13. \A x \in Tcp : info[x].tag # "none" => inf2[x].tag # "none"
    BY Constants DEF Kept
  <1>14. \A j \in 1..Len(t) : ~(t[j].f = "recv" /\ t[j].ph = "scan")
    BY <1>2 DEF Outside
  <1> HIDE DEF inf2
  <1>15. Frames(t, fi2, inf2, st2)
    BY <1>2, <1>13, <1>14, FramesDeleting
  <1>16. c \in Frame
    BY <1>8 DEF Frame
  <1>17. Frames(<<c>> \o t, fi2, inf2, st2)
    BY <1>2, <1>8, <1>12, <1>15, <1>16, FramesPushed DEF Outside
  <1> QED  BY <1>6, <1>17 DEF inf2

\* What is left to show of a turn of the loop, with or without a handler.
LEMMA ScanKept ==
    ASSUME IInv, NEW e, Event(e), NEW fi2, NEW st2, Kept(fi2, st2),
           fds_info' = fi2, stream' = st2, fault' = fault,
           fi2 = fds_info \/ \E i \in Infos : fi2 = Append(fds_info, i),
           st2[srv] = << >> => stream[srv] = << >> \/ Fi = srv,
           calls' = Next_k \/ calls' = <<[f |-> "handler", i |-> Fi]>> \o Next_k
    PROVE  IInv'
  <1>1. Frames(Next_k, fi2, info', st2)
    BY NextFrames
  <1> DEFINE c == [f |-> "handler", i |-> Fi]
             cs == Next_k
             inf2 == info'
  <1>2. c \in Frame /\ c.f = "handler"
    BY ScanFacts DEF Frame, HandlerFrame
  <1>3. Frames(cs, fi2, inf2, st2) /\ (calls' = cs \/ calls' = <<c>> \o cs)
    BY <1>1
  <1> HIDE DEF c, cs, inf2
  <1>4. Frames(<<c>> \o cs, fi2, inf2, st2)
    BY <1>2, <1>3, FramesPushed
  <1>5. Frames(calls', fi2, inf2, st2)
    BY <1>3, <1>4
  <1>6. fault \in BOOLEAN
    BY DEF IInv
  <1> QED  BY <1>5, <1>6 DEF IInv, Kept, inf2

\* Closing a socket that was hung up keeps the invariant.
LEMMA ScanHupStep ==
    ASSUME IInv, ScanHup
    PROVE  IInv'
  <1>1. /\ Event("POLLHUP") /\ close_socket(Fi, info[Fi], TRUE) /\ calls' = Next_k
        /\ UNCHANGED <<fds_info, fault, stream>>
    BY DEF ScanHup
  <1>2. /\ Fi \in Infos /\ Live(info[Fi]) /\ Succeeds(info[Fi], Fi)
        /\ Core(fds, fds_info, info, net, stream) /\ delete_flag \in BOOLEAN
    BY <1>1, ScanFacts
  <1>3. Kept(fds_info, stream)
    BY <1>1, <1>2, CloseKept
  <1> QED  BY <1>1, <1>3, ScanKept

\* Going on with a connection that can be written keeps the invariant.
LEMMA ScanOutStep ==
    ASSUME IInv, ScanOut
    PROVE  IInv'
  <1> DEFINE i == Fi
             o == info[i]
             r == IF o.tag = "NET_TCP_CONNECTING" THEN [o EXCEPT !.tag = "NET_TCP_CLIENT"]
                  ELSE o
             custom == r.owner /\ r.write_type = "WRITE_CUSTOM"
  <1>1. /\ Event("POLLOUT") /\ calls' = Next_k /\ UNCHANGED <<fds_info, fault, stream>>
        /\ CASE custom -> Put(i, r, fds)
             [] ~custom /\ r.delete_me = 1 -> CloseNow(i, r)
             [] ~custom /\ r.delete_me # 1 /\ r.out > 0 ->
                  SendNonblocking(i, r, enq[i], TRUE)
             [] OTHER -> Put(i, r, [fds EXCEPT ![Head(calls).k].pollout = FALSE])
    BY DEF ScanOut
  <1>2. /\ i \in Infos /\ Live(o) /\ o \in Rec /\ o.fds_index = Head(calls).k
        /\ Core(fds, fds_info, info, net, stream) /\ delete_flag \in BOOLEAN
    BY <1>1, ScanFacts
  <1>3. /\ r \in Rec /\ r.fds_index = o.fds_index /\ r.delete_me = o.delete_me
        /\ r.out = o.out /\ r.tag # "NET_TCP_CONNECTING"
        /\ \/ r.tag = o.tag
           \/ o.tag = "NET_TCP_CONNECTING" /\ r.tag = "NET_TCP_CLIENT"
    <2>1. CASE o.tag = "NET_TCP_CONNECTING"
      <3> DEFINE t == "NET_TCP_CLIENT"
                 c == [o EXCEPT !.tag = t]
      <3>1. t \in Tags /\ t # "NET_TCP_CONNECTING" /\ r = c
        BY <2>1 DEF Tags
      <3> HIDE DEF o, t, r
      <3>2. /\ c \in Rec /\ c.fds_index = o.fds_index /\ c.delete_me = o.delete_me
            /\ c.out = o.out /\ c.tag = t
        BY ONLY <1>2, <3>1 DEF Rec
      <3> QED  BY <2>1, <3>1, <3>2 DEF t
    <2>2. CASE o.tag # "NET_TCP_CONNECTING"
      BY <1>2, <2>2
    <2> QED  BY <2>1, <2>2
  <1> HIDE DEF i, r
  <1>4. Succeeds(r, i)
    BY <1>3 DEF Succeeds
  <1>5. Waits(r) => Waits(info[i])
    BY <1>3 DEF Waits
  <1>6. r.out \in Nat
    BY <1>3, RecTypes
  <1>7. CASE custom
    <2>1. Put(i, r, fds)
      BY <1>1, <1>7
    <2>2. /\ info' = [info EXCEPT ![i] = r] /\ fds' = fds /\ delete_flag' = delete_flag
          /\ net' = net
      BY <2>1 DEF Put
    <2>3. Kept(fds_info, stream)
      BY <1>2, <1>4, <1>5, <2>2, PutSame
    <2> QED  BY <1>1, <2>3, ScanKept
  <1>8. CASE ~custom /\ r.delete_me = 1
    <2>1. CloseNow(i, r)
      BY <1>1, <1>8
    <2>2. Kept(fds_info, stream)
      BY <1>2, <1>4, <2>1, CloseNowKept
    <2> QED  BY <1>1, <2>2, ScanKept
  <1>9. CASE ~custom /\ r.delete_me # 1 /\ r.out > 0
    <2> DEFINE cl == TRUE
               e == enq[i]
    <2>1. SendNonblocking(i, r, e, cl) /\ cl \in BOOLEAN
      BY <1>1, <1>9
    <2> HIDE DEF cl, e
    <2>2. Kept(fds_info, stream)
      BY <1>2, <1>3, <1>4, <1>9, <2>1, SendKept
    <2> QED  BY <1>1, <2>2, ScanKept
  <1>10. CASE ~custom /\ r.delete_me # 1 /\ ~(r.out > 0)
    <2> DEFINE p == FALSE
    <2>1. Put(i, r, [fds EXCEPT ![Head(calls).k].pollout = p])
      BY <1>1, <1>10
    <2>2. p \in BOOLEAN /\ (Waits(r) => p)
      BY <1>3, <1>10 DEF Waits
    <2> HIDE DEF p
    <2>3. /\ info' = [info EXCEPT ![i] = r] /\ fds' = [fds EXCEPT ![r.fds_index].pollout = p]
          /\ delete_flag' = delete_flag /\ net' = net
      BY <1>2, <1>3, <2>1 DEF Put
    <2>4. Kept(fds_info, stream)
      BY <1>2, <1>4, <2>2, <2>3, PutKept
    <2> QED  BY <1>1, <2>4, ScanKept
  <1> QED  BY <1>7, <1>8, <1>9, <1>10

\* Accepting a connection in the middle of the loop keeps the invariant.
LEMMA AcceptStep ==
    ASSUME IInv, Accept
    PROVE  IInv'
  <1> DEFINE c == Head(stream[srv])
             st2 == [stream EXCEPT ![srv] = Tail(stream[srv])]
  <1>1. /\ Event("POLLIN") /\ info[Fi].tag = "NET_TCP_SERVER" /\ calls' = Next_k
        /\ fault' = fault /\ stream' = st2
        /\ \/ /\ NewInfo(c, "NET_TCP_CONNECTION", FALSE)
              /\ net' = [net EXCEPT ![c] = "up"]
              /\ UNCHANGED <<delete_flag, tx>>
           \/ /\ close_socket(Fi, info[Fi], TRUE)
              /\ UNCHANGED fds_info
    BY DEF Accept
  <1>2. /\ Fi \in Infos /\ Live(info[Fi]) /\ Succeeds(info[Fi], Fi)
        /\ Core(fds, fds_info, info, net, stream) /\ delete_flag \in BOOLEAN
    BY <1>1, ScanFacts
  <1>3. Fi = srv
    BY <1>1, <1>2 DEF Core, Sockets
  <1>4. stream[srv] # << >>
    <2> DEFINE h == Head(calls)
    <2>1. Current("recv") /\ h.ph = "scan"
      BY <1>1 DEF Event, Scanning
    <2>2. ScanOK(h, fds_info, stream) /\ h.k \in Nat
      BY <2>1, RecvFacts
    <2>3. h.k \in 1..Len(h.ev) /\ h.ev[h.k] = "POLLIN" /\ fds_info[h.k] = srv
      BY <1>1, <1>3, ScanFacts DEF Fi
    <2>4. h.k \in h.k..Len(h.ev)
      BY <2>2, <2>3
    <2> QED  BY <2>2, <2>3, <2>4 DEF ScanOK
  <1>6. st2 = [stream EXCEPT ![srv] = Tail(stream[srv])] /\ c = Head(stream[srv])
    OBVIOUS
  <1> HIDE DEF c, st2
  <1>5. /\ Core(fds, fds_info, info, net, st2) /\ c \in Accepts /\ info[c].tag = "none"
        /\ \A k \in 1..Len(st2[srv]) : st2[srv][k] # c
    <2>1. Core(fds, fds_info, info, net, stream)
      BY <1>2
    <2>2. Core(fds, fds_info, info, net, st2) /\ c \in Accepts /\ info[c].tag = "none"
          /\ Absent(c, st2[srv])
      BY ONLY <2>1, <1>4, <1>6, CoreDequeued
    <2> QED  BY <2>2 DEF Absent
  <1>7. CASE /\ NewInfo(c, "NET_TCP_CONNECTION", FALSE)
             /\ net' = [net EXCEPT ![c] = "up"]
             /\ UNCHANGED <<delete_flag, tx>>
    <2> DEFINE tag == "NET_TCP_CONNECTION"
               p == FALSE
               s == "up"
               fi2 == Append(fds_info, c)
    <2>1. /\ tag \in Connected \cup {"NET_TCP_CONNECTING"} /\ p \in BOOLEAN
          /\ tag # "NET_TCP_CONNECTING" /\ s \in {"up", "connecting"} /\ s = "up"
          /\ NewInfo(c, tag, p) /\ net' = [net EXCEPT ![c] = s]
      BY <1>7 DEF Connected
    <2> HIDE DEF tag, p, s
    <2>2. c \in Tcp /\ c \in Infos /\ delete_flag' = delete_flag
      BY <1>5, <1>7, Constants
    <2>3. Kept(fds_info', st2) /\ fds_info' = fi2
      BY <1>2, <1>5, <2>1, <2>2, NewKept
    <2>4. Kept(fi2, st2) /\ \E x \in Infos : fi2 = Append(fds_info, x)
      BY <2>2, <2>3
    <2> HIDE DEF fi2
    <2> QED  BY <1>1, <1>3, <2>3, <2>4, ScanKept
  <1>8. CASE close_socket(Fi, info[Fi], TRUE) /\ UNCHANGED fds_info
    <2>1. Kept(fds_info, st2)
      BY <1>2, <1>5, <1>8, CloseKept
    <2> QED  BY <1>1, <1>3, <1>8, <2>1, ScanKept
  <1> QED  BY <1>1, <1>7, <1>8

\* Reading a datagram keeps the invariant.
LEMMA UdpReceiveStep ==
    ASSUME IInv, UdpReceive
    PROVE  IInv'
  <1> DEFINE st2 == [stream EXCEPT ![udp] = Tail(stream[udp])]
  <1>1. /\ Event("POLLIN") /\ fds_info' = fds_info /\ fault' = fault /\ stream' = st2
        /\ \/ /\ calls' = <<[f |-> "handler", i |-> Fi]>> \o Next_k
              /\ UNCHANGED <<fds, info, delete_flag, net, tx>>
           \/ /\ close_socket(Fi, info[Fi], TRUE)
              /\ calls' = Next_k
    BY DEF UdpReceive
  <1>2. /\ Fi \in Infos /\ Live(info[Fi]) /\ Succeeds(info[Fi], Fi)
        /\ Core(fds, fds_info, info, net, stream) /\ delete_flag \in BOOLEAN
    BY <1>1, ScanFacts
  <1>3. DOMAIN stream = Infos /\ \A i \in Tcp : stream[i] \in Seq(Chunk)
    BY <1>2, CoreTypes
  <1>4. /\ DOMAIN st2 = Infos /\ st2[srv] = stream[srv]
        /\ \A i \in Tcp : st2[i] \in Seq(Chunk)
    BY <1>3, NetworkAssumption DEF Infos
  <1> HIDE DEF st2
  <1>5. Core(fds, fds_info, info, net, st2)
    BY <1>2, <1>4, CoreStream
  <1>6. CASE /\ calls' = <<[f |-> "handler", i |-> Fi]>> \o Next_k
             /\ UNCHANGED <<fds, info, delete_flag, net, tx>>
    <2>1. Kept(fds_info, st2)
      BY <1>2, <1>5, <1>6 DEF Kept
    <2> QED  BY <1>1, <1>4, <1>6, <2>1, ScanKept
  <1>7. CASE close_socket(Fi, info[Fi], TRUE) /\ calls' = Next_k
    <2>1. Kept(fds_info, st2)
      BY <1>2, <1>5, <1>7, CloseKept
    <2> QED  BY <1>1, <1>4, <1>7, <2>1, ScanKept
  <1> QED  BY <1>1, <1>6, <1>7

\* Closing a connection that cannot be read keeps the invariant.
LEMMA ReadFailsStep ==
    ASSUME IInv, ReadFails
    PROVE  IInv'
  <1> DEFINE r == message_cleanup(info[Fi])
  <1>1. /\ Event("POLLIN") /\ close_socket(Fi, r, TRUE) /\ calls' = Next_k
        /\ UNCHANGED <<fds_info, fault, stream>>
    BY DEF ReadFails
  <1>2. /\ Fi \in Infos /\ Live(info[Fi]) /\ info[Fi] \in Rec
        /\ Core(fds, fds_info, info, net, stream) /\ delete_flag \in BOOLEAN
    BY <1>1, ScanFacts
  <1>3. Succeeds(r, Fi)
    BY <1>2, CleanedRec DEF Succeeds
  <1> HIDE DEF r
  <1>4. Kept(fds_info, stream)
    BY <1>1, <1>2, <1>3, CloseKept
  <1> QED  BY <1>1, <1>4, ScanKept

\* Passing over a socket closed since poll() returned keeps the invariant.
LEMMA ReadClosedStep ==
    ASSUME IInv, ReadClosed
    PROVE  IInv'
  <1> DEFINE r == Reset(info[Fi])
  <1>1. /\ Event("POLLIN") /\ Put(Fi, r, fds) /\ calls' = Next_k
        /\ info[Fi].tag \notin Connected
        /\ UNCHANGED <<fds_info, fault, stream>>
    BY DEF ReadClosed
  <1>2. /\ Fi \in Infos /\ Live(info[Fi]) /\ info[Fi] \in Rec
        /\ Core(fds, fds_info, info, net, stream) /\ delete_flag \in BOOLEAN
    BY <1>1, ScanFacts
  <1>3. Succeeds(r, Fi) /\ r.tag = info[Fi].tag
    BY <1>2, ResetRec DEF Succeeds
  <1> HIDE DEF r
  <1>4. Waits(r) => Waits(info[Fi])
    BY <1>1, <1>3 DEF Waits
  <1>5. /\ info' = [info EXCEPT ![Fi] = r] /\ fds' = fds /\ delete_flag' = delete_flag
        /\ net' = net
    BY <1>1 DEF Put
  <1>6. Kept(fds_info, stream)
    BY <1>2, <1>3, <1>4, <1>5, PutSame
  <1> QED  BY <1>1, <1>6, ScanKept

\* The end of the loop keeps the invariant.
LEMMA ScanDoneStep ==
    ASSUME IInv, ScanDone
    PROVE  IInv'
  <1>1. /\ Current("recv") /\ UNCHANGED <<fds, fds_info, info, fault, net, stream>>
        /\ delete_flag' = FALSE
        /\ calls' = IF delete_flag
                    THEN <<[f |-> "recv", ph |-> "post", k |-> 1]>> \o Tail(calls)
                    ELSE Tail(calls)
    BY DEF ScanDone, Scanning, os
  <1>2. Frames(Tail(calls), fds_info, info, stream) /\ Outside(Tail(calls))
    BY <1>1, RecvFacts
  <1> DEFINE c == [f |-> "recv", ph |-> "post", k |-> 1]
  <1>3. c \in Frame /\ c.f = "recv" /\ c.ph = "post"
    BY DEF Frame, FreeFrame
  <1>4. calls' = Tail(calls) \/ calls' = <<c>> \o Tail(calls)
    BY <1>1
  <1> HIDE DEF c
  <1>5. Frames(<<c>> \o Tail(calls), fds_info, info, stream)
    BY <1>2, <1>3, FramesPushed DEF Outside
  <1>6. Frames(calls', fds_info, info, stream)
    BY <1>2, <1>4, <1>5
  <1> QED  BY <1>1, <1>6 DEF IInv

\* The return of a handler keeps the invariant.
LEMMA HandlerStep ==
    ASSUME IInv, NEW err \in BOOLEAN, HandlerReturns(err)
    PROVE  IInv'
  <1> DEFINE i == Head(calls).i
  <1>1. /\ calls # << >> /\ Head(calls).f = "handler" /\ calls' = Tail(calls)
        /\ UNCHANGED <<fds_info, fault, stream>>
        /\ IF err /\ info[i].tag \in Connected \cup {"NET_TCP_CONNECTING"}
           THEN close_socket(i, info[i], TRUE)
           ELSE UNCHANGED <<fds, info, delete_flag, net, tx>>
    BY DEF HandlerReturns, Current
  <1>2. Core(fds, fds_info, info, net, stream) /\ delete_flag \in BOOLEAN
        /\ Frames(calls, fds_info, info, stream)
    BY DEF IInv
  <1>3. Head(calls) \in Frame
    BY <1>1, <1>2, FramesPopped
  <1>4. i \in Infos
    BY <1>1, <1>3 DEF Frame, FreeFrame, ScanFrame, SendFrames, HandlerFrame
  <1> HIDE DEF i
  <1>5. CASE /\ info[i].tag \in Connected \cup {"NET_TCP_CONNECTING"}
             /\ close_socket(i, info[i], TRUE)
    <2>1. Live(info[i])
      BY <1>5 DEF Live, Connected
    <2>2. info[i] \in Rec
      BY <1>2, <1>4, <2>1, Slotted
    <2>3. Succeeds(info[i], i)
      BY <2>2 DEF Succeeds
    <2>4. Kept(fds_info, stream)
      BY <1>2, <1>4, <1>5, <2>1, <2>3, CloseKept
    <2> QED  BY <1>1, <2>4, StepKept
  <1>6. CASE UNCHANGED <<fds, info, delete_flag, net, tx>>
    <2>1. Kept(fds_info, stream)
      BY <1>2, <1>6 DEF Kept
    <2> QED  BY <1>1, <2>1, StepKept
  <1> QED  BY <1>1, <1>5, <1>6

\* Reading less than what is missing keeps the counts in their ranges.
LEMMA ReadRec ==
    ASSUME NEW r \in Rec, NEW h \in Nat, NEW b \in Nat, NEW length \in Nat,
           h <= LengthChunks - r.in_length_got,
           r.in_length_got + h < LengthChunks => b = 0, length <= MaxLength,
           Read(r, h, b, length).in_message => Read(r, h, b, length).in_msg_got <= length
    PROVE  LET new == Read(r, h, b, length)
           IN  /\ new \in Rec /\ new.tag = r.tag /\ new.fds_index = r.fds_index
               /\ new.delete_me = r.delete_me /\ new.out = r.out
  <1> DEFINE g == r.in_length_got + h
             m == r.in_msg_got + b
             w == g = LengthChunks
             n == [r EXCEPT !.in_length_got = g, !.in_msg_got = m, !.in_length = length,
                            !.in_message = w]
  <1>1. Read(r, h, b, length) = n
    BY DEF Read
  <1>2. r.in_length_got \in 0..LengthChunks /\ r.in_msg_got \in 0..MaxLength
    BY RecTypes
  <1>3. LengthChunks \in Nat /\ MaxLength \in Nat
    BY Constants
  <1>4. g \in 0..LengthChunks /\ m \in Nat /\ w \in BOOLEAN
    BY <1>2, <1>3
  <1>5. ~w => m \in 0..MaxLength
    BY <1>2, <1>3
  <1> HIDE DEF g, m, w
  <1>6. n.in_message = w /\ n.in_msg_got = m
    BY ONLY r \in Rec DEF Rec
  <1>7. w => m <= length
    BY <1>1, <1>6
  <1>8. m \in 0..MaxLength
    BY <1>3, <1>4, <1>5, <1>7
  <1>9. /\ n \in Rec /\ n.tag = r.tag /\ n.fds_index = r.fds_index
        /\ n.delete_me = r.delete_me /\ n.out = r.out
    BY ONLY <1>4, <1>8, r \in Rec, length \in Nat DEF Rec
  <1> QED  BY <1>1, <1>9

\* Reading a part of a message keeps the invariant.
LEMMA ReadSomeStep ==
    ASSUME IInv, ReadSome
    PROVE  IInv'
  <1> DEFINE r == info[Fi]
             s == stream[Fi]
             Length(h) == IF h > 0 /\ r.in_length_got + h = LengthChunks
                          THEN s[h].length ELSE r.in_length
             New(h, b) == Read(r, h, b, Length(h))
             Whole(h, b) == New(h, b).in_message /\ New(h, b).in_msg_got = Length(h)
  <1>1. Event("POLLIN") /\ r.tag \in Connected /\ UNCHANGED <<fds_info, fault>>
    BY DEF ReadSome
  <1>2. PICK h \in 0..(LengthChunks - r.in_length_got), b \in 0..MaxLength :
            /\ h + b > 0 /\ h + b <= Len(s)
            /\ r.in_length_got < LengthChunks => h > 0
            /\ r.in_length_got + h < LengthChunks => b = 0
            /\ r.in_length_got = LengthChunks => r.in_message
            /\ /\ Length(h) <= MaxLength
               /\ New(h, b).in_message => New(h, b).in_msg_got <= Length(h)
               /\ stream' = [stream EXCEPT ![Fi] = SubSeq(s, h + b + 1, Len(s))]
               /\ delivered' = [delivered EXCEPT ![Fi] = IF Whole(h, b) THEN @ + 1 ELSE @]
               /\ IF Whole(h, b) /\ ~(r.owner /\ r.delete_me = 0)
                  THEN /\ close_socket(Fi, message_cleanup(New(h, b)), TRUE)
                       /\ calls' = Next_k
                  ELSE /\ Put(Fi, IF Whole(h, b) THEN message_cleanup(New(h, b))
                                  ELSE New(h, b), fds)
                       /\ calls' = IF Whole(h, b)
                                   THEN <<[f |-> "handler", i |-> Fi]>> \o Next_k
                                   ELSE Next_k
    <2>1. ReadSome
      OBVIOUS
    <2> QED  BY ONLY <2>1, Zenon DEF ReadSome
  <1>3. /\ Fi \in Infos /\ Live(r) /\ r \in Rec
        /\ Core(fds, fds_info, info, net, stream) /\ delete_flag \in BOOLEAN
    BY <1>1, ScanFacts
  <1>4. Fi \in Tcp /\ Fi # srv
    <2>1. Fi \in Tcp
      BY <1>1, <1>3 DEF Core, Sockets, Talking
    <2> QED  BY <2>1, Constants
  <1>5. DOMAIN stream = Infos /\ \A i \in Tcp : stream[i] \in Seq(Chunk)
    BY <1>3, CoreTypes
  <1>6. s \in Seq(Chunk)
    BY <1>4, <1>5
  <1>7. r.in_length_got \in 0..LengthChunks /\ r.in_length \in Nat /\ LengthChunks \in Nat
        /\ MaxLength \in Nat
    BY <1>3, RecTypes, Constants
  <1>8. h \in Nat /\ b \in Nat /\ h <= LengthChunks - r.in_length_got
    BY <1>2, <1>7
  <1>9. Length(h) \in Nat
    <2>1. CASE h > 0
      <3>1. h \in 1..Len(s)
        BY <1>2, <1>6, <1>8, <2>1
      <3>2. s[h] \in Chunk
        BY <1>6, <3>1
      <3>3. s[h].length \in Nat
        BY <3>2 DEF Chunk
      <3> QED  BY <1>7, <3>3
    <2>2. CASE ~(h > 0)
      BY <1>7, <2>2
    <2> QED  BY <2>1, <2>2
  <1> DEFINE length == Length(h)
             new == New(h, b)
             whole == Whole(h, b)
             q == SubSeq(s, h + b + 1, Len(s))
             st2 == [stream EXCEPT ![Fi] = q]
             x == IF whole THEN message_cleanup(new) ELSE new
  <1>10. q \in Seq(Chunk)
    BY <1>6, <1>8
  <1> HIDE DEF q
  <1>11. /\ DOMAIN st2 = Infos /\ st2[srv] = stream[srv]
         /\ \A i \in Tcp : st2[i] \in Seq(Chunk)
    BY <1>4, <1>5, <1>10, Constants
  <1>12. stream' = st2 /\ length <= MaxLength /\ new = Read(r, h, b, length)
         /\ (new.in_message => new.in_msg_got <= length)
         /\ IF whole /\ ~(r.owner /\ r.delete_me = 0)
            THEN close_socket(Fi, message_cleanup(new), TRUE) /\ calls' = Next_k
            ELSE /\ Put(Fi, x, fds)
                 /\ calls' = IF whole THEN <<[f |-> "handler", i |-> Fi]>> \o Next_k
                             ELSE Next_k
    BY <1>2 DEF q
  <1>13. length \in Nat
    BY <1>9
  <1> HIDE DEF st2, length, new, whole
  <1>14. Core(fds, fds_info, info, net, st2)
    BY <1>3, <1>11, CoreStream
  <1>15. /\ new \in Rec /\ new.tag = r.tag /\ new.fds_index = r.fds_index
         /\ new.delete_me = r.delete_me /\ new.out = r.out
    BY <1>2, <1>3, <1>8, <1>12, <1>13, ReadRec
  <1> DEFINE cl == message_cleanup(new)
  <1>16. /\ cl \in Rec /\ cl.tag = r.tag /\ cl.fds_index = r.fds_index
         /\ cl.delete_me = r.delete_me /\ cl.out = r.out
    BY <1>15, CleanedRec
  <1> HIDE DEF cl
  <1>17. x = cl \/ x = new
    BY DEF cl
  <1> HIDE DEF x
  <1>18. Succeeds(cl, Fi) /\ Succeeds(x, Fi) /\ (Waits(x) => Waits(info[Fi]))
    BY <1>15, <1>16, <1>17 DEF Succeeds, Waits
  <1>19. CASE whole /\ ~(r.owner /\ r.delete_me = 0)
    <2>1. close_socket(Fi, cl, TRUE) /\ calls' = Next_k
      BY <1>12, <1>19 DEF cl
    <2>2. Kept(fds_info, st2)
      BY <1>3, <1>14, <1>18, <2>1, CloseKept
    <2> QED  BY <1>1, <1>11, <1>12, <2>1, <2>2, ScanKept
  <1>20. CASE ~(whole /\ ~(r.owner /\ r.delete_me = 0))
    <2>1. /\ Put(Fi, x, fds)
          /\ calls' = Next_k \/ calls' = <<[f |-> "handler", i |-> Fi]>> \o Next_k
      BY <1>12, <1>20
    <2>2. /\ info' = [info EXCEPT ![Fi] = x] /\ fds' = fds /\ delete_flag' = delete_flag
          /\ net' = net
      BY <2>1 DEF Put
    <2>3. Kept(fds_info, st2)
      BY <1>3, <1>14, <1>18, <2>2, PutSame
    <2> QED  BY <1>1, <1>11, <1>12, <2>1, <2>3, ScanKept
  <1> QED  BY <1>19, <1>20

-----------------------------------------------------------------------------
(* The peers.                                                              *)

\* The messages of the peers are counted.
Counts == arrived \in [Infos -> Nat]

\* Every step keeps the count of messages.
LEMMA CountsStep ==
    ASSUME Counts, [Next]_vars
    PROVE  Counts'
  <1>1. ASSUME NEW i \in Tcp, NEW length, PeerSends(i, length) PROVE Counts'
    BY <1>1, Constants DEF PeerSends, Counts
  <1>2. CASE Datagram
    BY <1>2, Constants DEF Datagram, Counts
  <1>3. ASSUME NEW i, PeerAnswers(i) \/ PeerConnects(i) \/ PeerLeaves(i) PROVE Counts'
    BY <1>3 DEF PeerAnswers, PeerConnects, PeerLeaves, Counts
  <1>4. CASE User
    BY <1>4 DEF User, create_tcp_client, send_tcp, CloseByUser, Counts
  <1>5. CASE o2_poll \/ Blocked
    BY <1>5, Zenon DEF o2_poll, Blocked, SendPolls, SendSelects, SendWrites, SendDone,
                       SendFreed, o2n_recv, os, Counts
  <1>6. CASE Scan
    BY <1>6, Zenon DEF Scan, ScanHup, ScanOut, Accept, UdpReceive, ReadFails, ReadSome, ReadClosed,
                ScanDone, os, Counts
  <1>7. CASE FreeOne \/ FreeDone \/ Returns
    BY <1>7 DEF FreeOne, FreeDone, Returns, HandlerReturns, os, Counts
  <1>8. CASE UNCHANGED vars
    BY <1>8 DEF vars, os, Counts
  <1> QED  BY <1>1, <1>2, <1>3, <1>4, <1>5, <1>6, <1>7, <1>8 DEF Next, Peers, Process

\* The peers and the operating system keep the invariant.
LEMMA PeersStep ==
    ASSUME IInv, Counts, Peers
    PROVE  IInv'
  <1>1. /\ Core(fds, fds_info, info, net, stream) /\ delete_flag \in BOOLEAN
        /\ fault \in BOOLEAN
    BY DEF IInv
  <1>2. /\ net \in [Infos -> Nets] /\ DOMAIN stream = Infos /\ stream[srv] \in Seq(Accepts)
        /\ \A i \in Tcp : stream[i] \in Seq(Chunk)
    BY <1>1, CoreTypes
  <1>3. Sockets(info, net, stream)
    BY <1>1 DEF Core
  <1>4. UNCHANGED <<fds, fds_info, info, delete_flag, calls, fault>>
    BY DEF Peers, PeerAnswers, PeerConnects, PeerSends, PeerLeaves, Datagram, process
  <1>5. ASSUME NEW st2, Core(fds, fds_info, info, net', st2), stream' = st2,
               st2[srv] = << >> => stream[srv] = << >>
        PROVE  IInv'
    <2>1. Kept(fds_info, st2)
      BY <1>1, <1>4, <1>5 DEF Kept
    <2> QED  BY <1>4, <1>5, <2>1, StepKept
  <1>6. ASSUME NEW i \in Clients, PeerAnswers(i) PROVE IInv'
    <2>1. PICK s \in {"up", "reset"} : net' = [net EXCEPT ![i] = s]
      BY <1>6 DEF PeerAnswers
    <2>2. net[i] = "connecting" /\ stream' = stream /\ i \in Tcp
      BY <1>6, Constants DEF PeerAnswers
    <2>3. Live(info[i])
      BY <1>3, <2>2 DEF Sockets
    <2>4. s \in {"up", "eof", "reset"} /\ net[i] # "closed"
      BY <2>2
    <2>5. Core(fds, fds_info, info, [net EXCEPT ![i] = s], stream)
      BY <1>1, <2>2, <2>3, <2>4, CoreNet
    <2> QED  BY <1>5, <2>1, <2>2, <2>5
  <1>7. ASSUME NEW i \in Accepts, PeerConnects(i) PROVE IInv'
    <2> DEFINE n2 == [net EXCEPT ![i] = "connecting"]
               st2 == [stream EXCEPT ![srv] = Append(stream[srv], i)]
    <2>1. net[i] = "none" /\ net' = n2 /\ stream' = st2
      BY <1>7 DEF PeerConnects
    <2>2. Core(fds, fds_info, info, n2, st2)
      BY <1>1, <2>1, CoreQueued
    <2>3. st2[srv] # << >>
      BY <1>2, Constants
    <2> HIDE DEF n2, st2
    <2> QED  BY <1>5, <2>1, <2>2, <2>3
  <1>8. ASSUME NEW i \in Tcp, NEW length \in 0..(MaxLength + 1), PeerSends(i, length)
        PROVE  IInv'
    <2> DEFINE q == [c \in 1..(LengthChunks + length) |->
                       [m |-> arrived[i] + 1, c |-> c, length |-> length]]
               st2 == [stream EXCEPT ![i] = stream[i] \o q]
    <2>1. stream' = st2 /\ net' = net
      BY <1>8 DEF PeerSends
    <2>2. arrived[i] + 1 \in Nat /\ LengthChunks + length \in Nat /\ length \in Nat
      BY Constants DEF Counts
    <2>3. q \in Seq(Chunk)
      <3>1. \A c \in 1..(LengthChunks + length) :
               [m |-> arrived[i] + 1, c |-> c, length |-> length] \in Chunk
        BY <2>2 DEF Chunk
      <3>2. q \in [1..(LengthChunks + length) -> Chunk]
        BY <3>1
      <3> QED  BY <2>2, <3>2
    <2> HIDE DEF q
    <2>4. stream[i] \o q \in Seq(Chunk)
      BY <1>2, <2>3
    <2>5. /\ DOMAIN st2 = Infos /\ st2[srv] = stream[srv]
          /\ \A x \in Tcp : st2[x] \in Seq(Chunk)
      BY <1>2, <2>4, Constants
    <2> HIDE DEF st2
    <2>6. Core(fds, fds_info, info, net, st2)
      BY <1>1, <2>5, CoreStream
    <2> QED  BY <1>5, <2>1, <2>5, <2>6
  <1>9. ASSUME NEW i \in Tcp, PeerLeaves(i) PROVE IInv'
    <2>1. PICK s \in {"eof", "reset"} : net' = [net EXCEPT ![i] = s]
      BY <1>9 DEF PeerLeaves
    <2>2. net[i] = "up" /\ stream' = stream /\ i \in Infos
      BY <1>9, Constants DEF PeerLeaves
    <2>3. Live(info[i])
      BY <1>3, <2>2 DEF Sockets
    <2>4. s \in {"up", "eof", "reset"} /\ net[i] # "closed"
      BY <2>2
    <2>5. Core(fds, fds_info, info, [net EXCEPT ![i] = s], stream)
      BY <1>1, <2>2, <2>3, <2>4, CoreNet
    <2> QED  BY <1>5, <2>1, <2>2, <2>5
  <1>10. CASE Datagram
    <2> DEFINE st2 == [stream EXCEPT ![udp] = Append(stream[udp], arrived[udp] + 1)]
    <2>1. stream' = st2 /\ net' = net
      BY <1>10 DEF Datagram
    <2>2. /\ DOMAIN st2 = Infos /\ st2[srv] = stream[srv]
          /\ \A x \in Tcp : st2[x] \in Seq(Chunk)
      BY <1>2, NetworkAssumption DEF Infos
    <2> HIDE DEF st2
    <2>3. Core(fds, fds_info, info, net, st2)
      BY <1>1, <2>2, CoreStream
    <2> QED  BY <1>5, <2>1, <2>2, <2>3
  <1> QED  BY <1>6, <1>7, <1>8, <1>9, <1>10 DEF Peers

-----------------------------------------------------------------------------
(* The invariant and the theorems.                                         *)

\* After o2_initialize there are the two server sockets.
LEMMA InitIInv ==
    ASSUME Init
    PROVE  IInv /\ Counts
  <1>0. /\ srv \in Infos /\ udp \in Infos /\ Tcp \subseteq Infos /\ srv \notin Tcp
        /\ udp \notin Tcp /\ udp # srv /\ Clients \subseteq Tcp /\ Accepts \subseteq Tcp
        /\ INVALID_SOCKET \notin Infos /\ \A i \in Infos : i \in Tcp \/ i = udp \/ i = srv
    BY Constants, NetworkAssumption DEF Infos
  <1> DEFINE N == Cardinality(Infos)
             U == Fds_info("NET_UDP_SERVER", 1, "WRITE_O2")
             S == Fds_info("NET_TCP_SERVER", 2, "WRITE_O2")
             Z == Fds_info("none", 0, "WRITE_O2")
  <1>1. N \in Nat /\ N >= 2
    <2>1. IsFiniteSet(Infos) /\ N \in Nat
      BY Constants
    <2>2. {udp, srv} \subseteq Infos
      BY <1>0
    <2>3. IsFiniteSet({srv}) /\ Cardinality({srv}) = 1
      BY FS_Singleton
    <2>4. IsFiniteSet({srv} \cup {udp}) /\ Cardinality({srv} \cup {udp}) = 2
      <3> DEFINE T == {srv}
      <3>1. IsFiniteSet(T) /\ Cardinality(T) = 1 /\ udp \notin T
        BY <1>0, <2>3
      <3> HIDE DEF T
      <3>2. /\ IsFiniteSet(T \cup {udp})
            /\ Cardinality(T \cup {udp}) = IF udp \in T THEN Cardinality(T)
                                           ELSE Cardinality(T) + 1
        BY <3>1, FS_AddElement
      <3>3. IsFiniteSet(T \cup {udp}) /\ Cardinality(T \cup {udp}) = 2
        BY <3>1, <3>2
      <3> QED  BY <3>3 DEF T
    <2>5. {udp, srv} = {srv} \cup {udp}
      OBVIOUS
    <2>6. Cardinality({udp, srv}) <= N
      BY <2>1, <2>2, FS_Subset
    <2> QED  BY <2>1, <2>4, <2>5, <2>6
  <1>2. /\ U \in Rec /\ U.tag = "NET_UDP_SERVER" /\ U.fds_index = 1 /\ U.delete_me = 0
        /\ S \in Rec /\ S.tag = "NET_TCP_SERVER" /\ S.fds_index = 2 /\ S.delete_me = 0
        /\ Z \in Rec /\ Z.tag = "none" /\ Z.delete_me = 0
    <2>1. {"NET_UDP_SERVER", "NET_TCP_SERVER", "none"} \subseteq Tags
      BY DEF Tags
    <2>2. 1 \in 0..N /\ 2 \in 0..N /\ 0 \in 0..N
      BY <1>1
    <2>3. ASSUME NEW t \in Tags, NEW k \in 0..N
          PROVE  /\ Fds_info(t, k, "WRITE_O2") \in Rec /\ Fds_info(t, k, "WRITE_O2").tag = t
                 /\ Fds_info(t, k, "WRITE_O2").fds_index = k
                 /\ Fds_info(t, k, "WRITE_O2").delete_me = 0
      <3> DEFINE wt == "WRITE_O2"
      <3>1. wt \in {"WRITE_O2", "WRITE_CUSTOM"}
        OBVIOUS
      <3> HIDE DEF wt
      <3>2. /\ Fds_info(t, k, wt) \in Rec /\ Fds_info(t, k, wt).tag = t
            /\ Fds_info(t, k, wt).fds_index = k /\ Fds_info(t, k, wt).delete_me = 0
        BY <3>1, NewRec
      <3> QED  BY <3>2 DEF wt
    <2> QED  BY <2>1, <2>2, <2>3
  <1> HIDE DEF U, S, Z
  <1>3. /\ info \in [Infos -> Rec] /\ info[udp] = U /\ info[srv] = S
        /\ \A i \in Tcp : info[i] = Z
    <2>1. info = [i \in Infos |-> CASE i = udp -> U [] i = srv -> S [] OTHER -> Z]
      BY DEF Init, U, S, Z
    <2> QED  BY <1>0, <1>2, <2>1
  <1>4. 1 \in Slots /\ 2 \in Slots
    BY <1>1 DEF Slots
  <1>5. /\ fds \in [Slots -> Entry] /\ fds[1].fd = udp /\ fds[2].fd = srv
    <2> DEFINE s1 == Slot(udp, FALSE)
               s2 == Slot(srv, FALSE)
               s3 == Slot(INVALID_SOCKET, FALSE)
    <2>1. s1 \in Entry /\ s2 \in Entry /\ s3 \in Entry /\ s1.fd = udp /\ s2.fd = srv
      BY <1>0 DEF Slot, Entry
    <2>2. fds = [k \in Slots |-> CASE k = 1 -> s1 [] k = 2 -> s2 [] OTHER -> s3]
      BY DEF Init
    <2> HIDE DEF s1, s2, s3
    <2>3. fds[1] = s1 /\ fds[2] = s2 /\ fds \in [Slots -> Entry]
      <3>1. ASSUME NEW k \in Slots PROVE fds[k] \in Entry
        <4>1. fds[k] = s1 \/ fds[k] = s2 \/ fds[k] = s3
          BY <2>2
        <4> QED  BY <2>1, <4>1
      <3>2. fds[1] = s1 /\ fds[2] = s2
        BY <1>4, <2>2
      <3> QED  BY <2>2, <3>1, <3>2
    <2> QED  BY <2>1, <2>3
  <1>6. /\ fds_info \in Seq(Infos) /\ Len(fds_info) = 2 /\ fds_info[1] = udp
        /\ fds_info[2] = srv
    BY <1>0 DEF Init
  <1>7. /\ net \in [Infos -> Nets] /\ net[udp] = "up" /\ net[srv] = "up"
        /\ \A i \in Tcp : net[i] = "none"
    BY <1>0 DEF Init, Nets
  <1>8. /\ DOMAIN stream = Infos /\ stream[srv] = << >> /\ \A i \in Tcp : stream[i] = << >>
    BY <1>0 DEF Init
  <1>9. Types(fds, fds_info, info, net, stream)
    <2>1. stream[srv] \in Seq(Accepts) /\ \A i \in Tcp : stream[i] \in Seq(Chunk)
      <3>1. << >> \in Seq(Accepts) /\ << >> \in Seq(Chunk)
        OBVIOUS
      <3> QED  BY <1>8, <3>1, Zenon
    <2> QED  BY <1>3, <1>5, <1>6, <1>7, <1>8, <2>1 DEF Types
  <1>10. Live(U) /\ Live(S) /\ ~Live(Z)
    BY <1>2 DEF Live
  <1>11. Arrays(fds, fds_info, info)
    <2>1. \A k \in 1..Len(fds_info) : k = 1 \/ k = 2
      BY <1>6
    <2>2. \A k \in 1..Len(fds_info) :
            /\ info[fds_info[k]].fds_index = k /\ Live(info[fds_info[k]])
            /\ fds[k].fd = IF info[fds_info[k]].tag = "NET_INFO_CLOSED" THEN INVALID_SOCKET
                           ELSE fds_info[k]
      BY <1>2, <1>3, <1>5, <1>6, <1>10, <2>1
    <2>3. ASSUME NEW i \in Infos, Live(info[i])
          PROVE  info[i].fds_index \in 1..Len(fds_info) /\ fds_info[info[i].fds_index] = i
      <3>1. i = udp \/ i = srv
        BY <1>0, <1>3, <1>10, <2>3
      <3> QED  BY <1>2, <1>3, <1>6, <3>1
    <2> QED  BY <2>2, <2>3 DEF Arrays
  <1>12. Sockets(info, net, stream)
    <2>1. \A i \in Infos : /\ info[i].delete_me = 2 => net[i] = "closed"
                           /\ net[i] \in {"up", "eof", "reset"} => Live(info[i])
                           /\ info[i].tag = "NET_TCP_SERVER" => i = srv
                           /\ info[i].tag \in Talking => i \in Tcp
      BY <1>0, <1>2, <1>3, <1>7, <1>10 DEF Talking, Connected
    <2>2. /\ \A i \in Clients : net[i] = "connecting" => Live(info[i])
          /\ \A i \in Accepts : net[i] \in {"none", "connecting"} => info[i].tag = "none"
          /\ net[srv] \in {"up", "closed"}
      BY <1>0, <1>2, <1>3, <1>7
    <2>3. /\ \A k \in 1..Len(stream[srv]) : net[stream[srv][k]] = "connecting"
          /\ \A k, l \in 1..Len(stream[srv]) : k # l => stream[srv][k] # stream[srv][l]
      BY <1>8
    <2> QED  BY <2>1, <2>2, <2>3 DEF Sockets
  <1>13. Wanted(fds, info)
    <2>1. ~Waits(U) /\ ~Waits(S) /\ ~Waits(Z)
      BY <1>2 DEF Waits, Connected
    <2>2. \A i \in Infos : info[i] = U \/ info[i] = S \/ info[i] = Z
      BY <1>0, <1>3
    <2> QED  BY <2>1, <2>2 DEF Wanted
  <1>14. Core(fds, fds_info, info, net, stream)
    BY <1>9, <1>11, <1>12, <1>13 DEF Core
  <1>15. Frames(calls, fds_info, info, stream)
    <2>1. calls = << >>
      BY DEF Init
    <2>2. calls \in Seq(Frame) /\ Len(calls) = 0
      BY <2>1
    <2> QED  BY <2>2 DEF Frames, OneRecv
  <1>16. Counts
    BY DEF Init, Counts
  <1>17. delete_flag \in BOOLEAN /\ fault \in BOOLEAN
    BY DEF Init
  <1> QED  BY <1>14, <1>15, <1>16, <1>17 DEF IInv

\* Every step keeps the invariant.
LEMMA NextIInv ==
    ASSUME IInv, Counts, [Next]_vars
    PROVE  IInv'
  <1>1. CASE Peers
    BY <1>1, PeersStep
  <1>2. CASE User
    BY <1>2, CreateStep, SendStep, CloseStep DEF User
  <1>3. CASE o2_poll
    BY <1>3, PollStep
  <1>4. CASE Blocked
    <2>1. CASE SendFreed
      BY <2>1 DEF SendFreed, os, IInv
    <2> QED  BY <1>4, <2>1, SendPollsStep, SendSelectsStep, SendWritesStep, SendDoneStep
             DEF Blocked
  <1>5. CASE Scan
    BY <1>5, ScanHupStep, ScanOutStep, AcceptStep, UdpReceiveStep, ReadFailsStep,
       ReadSomeStep, ReadClosedStep, ScanDoneStep DEF Scan
  <1>6. CASE FreeOne
    BY <1>6, FreeOneStep
  <1>7. CASE FreeDone
    BY <1>7, FreeDoneStep
  <1>8. CASE Returns
    BY <1>8, HandlerStep DEF Returns
  <1>9. CASE UNCHANGED vars
    BY <1>9 DEF vars, os, IInv
  <1> QED  BY <1>1, <1>2, <1>3, <1>4, <1>5, <1>6, <1>7, <1>8, <1>9 DEF Next, Process

\* The invariant holds in every reachable state.
LEMMA Invariance == Spec => [](IInv /\ Counts)
  <1>1. Init => IInv /\ Counts
    BY InitIInv
  <1>2. IInv /\ Counts /\ [Next]_vars => (IInv /\ Counts)'
    BY NextIInv, CountsStep
  <1> QED  BY <1>1, <1>2, PTL DEF Spec

\* Through closes by user code, handlers and peers, accepts in the middle of the loop of
\* o2n_recv and moves into the slots of deleted sockets, o2n_fds and o2n_fds_info agree:
\* each Fds_info has the index of its slot, the slot has its socket, every open socket has
\* an Fds_info in the array, and o2n_recv looks at no slot past the end.
THEOREM ArraysStayParallel == Spec => []ArraysSound
  <1>1. ASSUME IInv PROVE ArraysSound
    <2>1. /\ Core(fds, fds_info, info, net, stream) /\ delete_flag \in BOOLEAN
          /\ fault \in BOOLEAN /\ Frames(calls, fds_info, info, stream)
      BY <1>1 DEF IInv
    <2>2. /\ fds \in [Slots -> Entry] /\ fds_info \in Seq(Infos) /\ info \in [Infos -> Rec]
          /\ net \in [Infos -> Nets] /\ Size = Len(fds_info)
      BY <2>1, CoreTypes DEF Size
    <2>3. Size <= Cardinality(Infos)
      BY <2>1, <2>2, Fits
    <2>4. \A c \in Range(calls) : c.f \in {"recv", "send", "handler"}
      <3> SUFFICES ASSUME NEW c \in Range(calls) PROVE c.f \in {"recv", "send", "handler"}
        OBVIOUS
      <3>1. calls \in Seq(Frame)
        BY <2>1 DEF Frames
      <3>2. c \in Frame
        BY <3>1 DEF Range
      <3> QED  BY <3>2 DEF Frame, FreeFrame, ScanFrame, SendFrames, HandlerFrame
    <2>5. \A i \in Infos :
            /\ info[i].tag \in Tags
            /\ info[i].fds_index \in 0..Cardinality(Infos)
            /\ info[i].delete_me \in 0..2
            /\ info[i].out \in Nat /\ info[i].sent \in 0..(OutChunks - 1)
            /\ info[i].in_length_got \in 0..LengthChunks
            /\ info[i].in_msg_got \in 0..MaxLength
      <3> SUFFICES ASSUME NEW i \in Infos, info[i] \in Rec
                   PROVE  /\ info[i].tag \in Tags
                          /\ info[i].fds_index \in 0..Cardinality(Infos)
                          /\ info[i].delete_me \in 0..2
                          /\ info[i].out \in Nat /\ info[i].sent \in 0..(OutChunks - 1)
                          /\ info[i].in_length_got \in 0..LengthChunks
                          /\ info[i].in_msg_got \in 0..MaxLength
        BY <2>2
      <3> QED  BY RecTypes
    <2>6. TypeOK
      BY <2>1, <2>2, <2>3, <2>4, <2>5 DEF TypeOK, Entry, Nets
    <2>7. \A k \in 1..Size :
            LET i == fds_info[k]
            IN /\ info[i].fds_index = k
               /\ fds[k].fd = IF info[i].tag = "NET_INFO_CLOSED"
                              THEN INVALID_SOCKET ELSE i
      BY <2>1, <2>2 DEF Core, Arrays
    <2>8. ASSUME NEW i \in Infos, net[i] \in {"up", "eof", "reset"}
          PROVE  i \in Range(fds_info)
      <3>1. Live(info[i])
        BY <2>1, <2>8 DEF Core, Sockets
      <3>2. info[i].fds_index \in 1..Len(fds_info) /\ fds_info[info[i].fds_index] = i
        BY <2>1, <3>1, Slotted
      <3> QED  BY <2>2, <3>2 DEF Range
    <2>9. Scanning => Len(Head(calls).ev) <= Size
      <3> SUFFICES ASSUME Scanning PROVE Len(Head(calls).ev) <= Size
        OBVIOUS
      <3>1. Current("recv") /\ Head(calls).ph = "scan"
        BY DEF Scanning
      <3>2. ScanOK(Head(calls), fds_info, stream)
        BY <1>1, <3>1, RecvFacts
      <3> QED  BY <2>2, <3>2 DEF ScanOK
    <2> QED  BY <2>6, <2>7, <2>8, <2>9 DEF ArraysSound, ArraysAgree
  <1> QED  BY <1>1, Invariance, PTL

\* A socket with messages left to send, or to be closed when it can be written, is polled
\* for writing: no partial send, blocking send or move of the socket to another slot loses
\* the request, so o2n_recv comes back to it.
THEOREM WritesNotForgotten == Spec => []WriteRequested
  <1>1. ASSUME IInv PROVE WriteRequested
    <2> SUFFICES ASSUME NEW i \in Range(fds_info),
                        info[i].tag \in Connected \cup {"NET_TCP_CONNECTING"},
                        info[i].out > 0 \/ info[i].delete_me = 1
                 PROVE  fds[info[i].fds_index].pollout
      BY DEF WriteRequested
    <2>1. i \in Infos
      BY <1>1, InArray
    <2>2. Waits(info[i])
      BY DEF Waits
    <2> QED  BY <1>1, <2>1, <2>2 DEF IInv, Core, Wanted
  <1> QED  BY <1>1, Invariance, PTL

\* While o2n_recv looks at its slots, sockets are only added at the end.
LEMMA SlotsStay ==
    ASSUME IInv, [Next]_vars, Scans(calls)
    PROVE  IsPrefix(fds_info, fds_info')
  <1>1. fds_info \in Seq(Infos)
    BY CoreTypes DEF IInv
  <1>2. CASE fds_info' = fds_info
    BY <1>1, <1>2 DEF IsPrefix
  <1>3. ASSUME NEW i \in Infos, fds_info' = Append(fds_info, i)
        PROVE  IsPrefix(fds_info, fds_info')
    BY <1>1, <1>3 DEF IsPrefix
  <1>4. ~FreeOne
    <2> SUFFICES ASSUME FreeOne PROVE FALSE
      OBVIOUS
    <2>1. Current("recv") /\ Head(calls).ph \in {"pre", "post"}
      BY DEF FreeOne, Freeing
    <2>2. PICK j \in DOMAIN calls : calls[j].f = "recv" /\ calls[j].ph = "scan"
      BY DEF Scans
    <2>3. calls \in Seq(Frame) /\ OneRecv(calls) /\ calls # << >>
      BY <2>1 DEF IInv, Frames, Current
    <2>4. Head(calls) = calls[1] /\ 1 \in 1..Len(calls) /\ j \in 1..Len(calls)
      BY <2>3
    <2>5. j = 1
      BY <2>1, <2>2, <2>3, <2>4 DEF OneRecv, Current
    <2> QED  BY <2>1, <2>2, <2>4, <2>5
  <1>5. CASE Peers
    BY <1>2, <1>5 DEF Peers, PeerAnswers, PeerConnects, PeerSends, PeerLeaves, Datagram,
                      process
  <1>6. CASE User
    <2>1. ASSUME NEW i \in Clients, create_tcp_client(i) PROVE IsPrefix(fds_info, fds_info')
      <3>1. fds_info' = Append(fds_info, i) /\ i \in Infos
        BY <2>1, Constants DEF create_tcp_client, NewInfo
      <3> QED  BY <1>3, <3>1
    <2> QED  BY <1>2, <1>6, <2>1 DEF User, send_tcp, CloseByUser
  <1>7. CASE o2_poll \/ Blocked
    BY <1>2, <1>7, Zenon DEF o2_poll, Blocked, SendPolls, SendSelects, SendWrites,
                             SendDone, SendFreed, o2n_recv
  <1>8. CASE Scan
    <2>1. ASSUME Accept PROVE IsPrefix(fds_info, fds_info')
      <3>1. CASE UNCHANGED fds_info
        BY <1>2, <3>1
      <3>2. CASE fds_info' = Append(fds_info, Head(stream[srv]))
        <4>1. Len(fds_info) \in Nat
          BY <1>1
        <4> QED  BY <1>1, <3>2, <4>1 DEF IsPrefix
      <3> QED  BY <2>1, <3>1, <3>2 DEF Accept, NewInfo
    <2> QED  BY <1>2, <1>8, <2>1, Zenon
             DEF Scan, ScanHup, ScanOut, UdpReceive, ReadFails, ReadSome, ReadClosed,
                 ScanDone
  <1>9. CASE FreeDone \/ Returns
    BY <1>2, <1>9 DEF FreeDone, Returns, HandlerReturns
  <1>10. CASE UNCHANGED vars
    BY <1>2, <1>10 DEF vars
  <1> QED  BY <1>4, <1>5, <1>6, <1>7, <1>8, <1>9, <1>10 DEF Next, Process

\* While o2n_recv looks at its slots, whatever handlers and the sends and polls nested in
\* them do, sockets are only added at the end: each slot keeps the socket poll() reported.
THEOREM NoMoveWhileScanning == Spec => NoMoveInScan
  <1>1. IInv /\ [Next]_vars =>
          [Scans(calls) /\ Scans(calls') => IsPrefix(fds_info, fds_info')]_vars
    BY SlotsStay
  <1> QED  BY <1>1, Invariance, PTL DEF NoMoveInScan, Spec

-----------------------------------------------------------------------------
(* What is received.                                                       *)

\* The Fds_info is in use, or not yet made, and is not going to be closed.
Open(r) == r.delete_me = 0 /\ r.tag # "freed"

\* The chunks of s are what is left of a first message and whole messages, numbered up
\* to a.
Left(x) == LengthChunks + x.length - x.c
Chain(s, a) ==
    \A k \in 1..Len(s) :
        /\ s[k].c >= 1 /\ s[k].c <= LengthChunks + s[k].length
        /\ k + Left(s[k]) <= Len(s)
        /\ \A j \in k..(k + Left(s[k])) : /\ s[j].m = s[k].m /\ s[j].length = s[k].length
                                          /\ s[j].c = s[k].c + (j - k)
        /\ k + Left(s[k]) = Len(s) => s[k].m = a
        /\ k + Left(s[k]) < Len(s) => /\ s[k + Left(s[k]) + 1].m = s[k].m + 1
                                      /\ s[k + Left(s[k]) + 1].c = 1

\* What r has read of the first message of s is what is missing there; d messages were
\* read before.
Position(s, r, a, d) ==
    /\ r.in_length_got < LengthChunks => r.in_msg_got = 0
    /\ s = << >> => r.in_length_got = 0 /\ r.in_msg_got = 0 /\ d = a
    /\ s # << >> => /\ s[1].m = d + 1 /\ s[1].c = r.in_length_got + r.in_msg_got + 1
                    /\ r.in_length_got = LengthChunks => r.in_length = s[1].length

Received(i) ==
    /\ Chain(stream[i], arrived[i])
    /\ Open(info[i]) => Position(stream[i], info[i], arrived[i], delivered[i])
    /\ info[i].tag = "none" => stream[i] = << >> /\ arrived[i] = delivered[i]
    /\ info[i].tag = "freed" => stream[i] = << >>

RInv == delivered \in [Infos -> Nat] /\ \A i \in Tcp : Received(i)

\* The fields of the chunks of a stream.
LEMMA ChunkTypes ==
    ASSUME NEW s \in Seq(Chunk), NEW k \in 1..Len(s)
    PROVE  s[k].c \in Nat /\ s[k].m \in Nat /\ s[k].length \in Nat
  <1>1. s[k] \in Chunk
    OBVIOUS
  <1> QED  BY <1>1 DEF Chunk

\* What is left of a message.
LEMMA LeftIs ==
    ASSUME NEW x, x.c \in Nat, x.length \in Nat, x.c <= LengthChunks + x.length
    PROVE  Left(x) \in Nat
  <1> DEFINE c == x.c
             l == x.length
             L == LengthChunks
  <1>1. c \in Nat /\ l \in Nat /\ c <= L + l /\ L \in Nat /\ Left(x) = L + l - c
    BY Constants DEF Left
  <1> HIDE DEF c, l, L
  <1> QED  BY <1>1

\* The rest of a chain is a chain.
LEMMA ChainTail ==
    ASSUME NEW s \in Seq(Chunk), NEW a, Chain(s, a), NEW n \in 0..Len(s)
    PROVE  Chain(SubSeq(s, n + 1, Len(s)), a)
  <1> DEFINE q == SubSeq(s, n + 1, Len(s))
  <1>1. /\ Len(s) \in Nat /\ n \in Nat /\ Len(q) = Len(s) - n
        /\ \A k \in 1..(Len(s) - n) : q[k] = s[n + k]
    OBVIOUS
  <1>2. \A k \in 1..Len(s) : s[k].c \in Nat /\ s[k].m \in Nat /\ s[k].length \in Nat
    BY ChunkTypes
  <1>3. LengthChunks \in Nat
    BY Constants
  <1> HIDE DEF q
  <1>4. ASSUME NEW k \in 1..Len(q)
        PROVE  /\ q[k].c >= 1 /\ q[k].c <= LengthChunks + q[k].length
               /\ k + Left(q[k]) <= Len(q)
               /\ \A j \in k..(k + Left(q[k])) :
                     /\ q[j].m = q[k].m /\ q[j].length = q[k].length
                     /\ q[j].c = q[k].c + (j - k)
               /\ k + Left(q[k]) = Len(q) => q[k].m = a
               /\ k + Left(q[k]) < Len(q) => /\ q[k + Left(q[k]) + 1].m = q[k].m + 1
                                             /\ q[k + Left(q[k]) + 1].c = 1
    <2> DEFINE l == n + k
               e == Left(q[k])
    <2>1. l \in 1..Len(s) /\ q[k] = s[l] /\ e = Left(s[l]) /\ k \in Nat
      BY <1>1
    <2>2. e \in Nat /\ s[l].c >= 1 /\ s[l].c <= LengthChunks + s[l].length /\ l + e <= Len(s)
      <3>1. s[l].c >= 1 /\ s[l].c <= LengthChunks + s[l].length /\ l + Left(s[l]) <= Len(s)
        BY <2>1 DEF Chain
      <3>2. s[l].c \in Nat /\ s[l].length \in Nat
        BY <1>2, <2>1
      <3>3. Left(s[l]) \in Nat
        BY <3>1, <3>2, LeftIs
      <3> QED  BY <2>1, <3>1, <3>3
    <2>3. /\ \A j \in l..(l + e) : /\ s[j].m = s[l].m /\ s[j].length = s[l].length
                                   /\ s[j].c = s[l].c + (j - l)
          /\ l + e = Len(s) => s[l].m = a
          /\ l + e < Len(s) => s[l + e + 1].m = s[l].m + 1 /\ s[l + e + 1].c = 1
      BY <2>1 DEF Chain
    <2> DEFINE N == Len(s)
    <2>7. /\ l = n + k /\ l \in Nat /\ k \in Nat /\ 1 <= k /\ k <= N - n /\ N \in Nat
          /\ n \in Nat /\ n <= N /\ Len(q) = N - n
      BY <1>1
    <2>8. e \in Nat /\ l + e <= N
      BY <2>2
    <2> HIDE DEF e, l, N
    <2>4. ASSUME NEW j \in k..(k + e)
          PROVE  /\ q[j].m = q[k].m /\ q[j].length = q[k].length
                 /\ q[j].c = q[k].c + (j - k)
      <3>1. n + j \in l..(l + e) /\ j \in 1..(N - n) /\ (n + j) - l = j - k
        BY ONLY <2>7, <2>8, j \in k..(k + e)
      <3>2. q[j] = s[n + j]
        BY <1>1, <3>1 DEF N
      <3> QED  BY <2>1, <2>3, <3>1, <3>2
    <2>5. ASSUME k + e < Len(q)
          PROVE  q[k + e + 1].m = q[k].m + 1 /\ q[k + e + 1].c = 1
      <3>1. k + e + 1 \in 1..(N - n) /\ n + (k + e + 1) = l + e + 1 /\ l + e < N
        BY ONLY <2>5, <2>7, <2>8
      <3>2. q[k + e + 1] = s[l + e + 1]
        BY <1>1, <3>1 DEF N
      <3> QED  BY <2>1, <2>3, <3>1, <3>2 DEF N
    <2>6. k + e <= Len(q) /\ (k + e = Len(q) => l + e = N)
      BY ONLY <2>7, <2>8
    <2> QED  BY <2>1, <2>2, <2>3, <2>4, <2>5, <2>6 DEF e, N
  <1> QED  BY <1>4 DEF Chain, q

\* A new message continues a chain.
LEMMA ChainAppend ==
    ASSUME NEW s \in Seq(Chunk), NEW a \in Nat, Chain(s, a), NEW length \in Nat, NEW q,
           q = [c \in 1..(LengthChunks + length) |->
                  [m |-> a + 1, c |-> c, length |-> length]]
    PROVE  Chain(s \o q, a + 1)
  <1> DEFINE t == s \o q
             N == LengthChunks + length
  <1>1. LengthChunks \in Nat \ {0} /\ N \in Nat \ {0} /\ Len(s) \in Nat
    BY Constants
  <1>2. q \in Seq(Chunk) /\ Len(q) = N
    <2>1. \A c \in 1..N : [m |-> a + 1, c |-> c, length |-> length] \in Chunk
      BY <1>1 DEF Chunk
    <2>2. q \in [1..N -> Chunk]
      BY <2>1
    <2> HIDE DEF N
    <2> QED  BY <1>1, <2>2
  <1>3. \A c \in 1..N : q[c].m = a + 1 /\ q[c].c = c /\ q[c].length = length
    OBVIOUS
  <1>4. /\ Len(t) = Len(s) + N
        /\ \A k \in 1..Len(s) : t[k] = s[k]
        /\ \A k \in 1..N : t[Len(s) + k] = q[k]
    BY <1>1, <1>2
  <1>5. \A k \in 1..Len(s) : s[k].c \in Nat /\ s[k].m \in Nat /\ s[k].length \in Nat
    BY ChunkTypes
  <1> HIDE DEF t
  <1>6. ASSUME NEW k \in 1..Len(s)
        PROVE  /\ t[k].c >= 1 /\ t[k].c <= LengthChunks + t[k].length
               /\ k + Left(t[k]) <= Len(t)
               /\ \A j \in k..(k + Left(t[k])) :
                     /\ t[j].m = t[k].m /\ t[j].length = t[k].length
                     /\ t[j].c = t[k].c + (j - k)
               /\ k + Left(t[k]) = Len(t) => t[k].m = a + 1
               /\ k + Left(t[k]) < Len(t) => /\ t[k + Left(t[k]) + 1].m = t[k].m + 1
                                             /\ t[k + Left(t[k]) + 1].c = 1
    <2> DEFINE e == Left(s[k])
    <2>1. t[k] = s[k] /\ Left(t[k]) = e /\ k \in Nat
      BY <1>4
    <2>2. e \in Nat /\ s[k].c >= 1 /\ s[k].c <= LengthChunks + s[k].length /\ k + e <= Len(s)
      <3>1. s[k].c >= 1 /\ s[k].c <= LengthChunks + s[k].length /\ k + Left(s[k]) <= Len(s)
        BY DEF Chain
      <3>2. Left(s[k]) \in Nat
        BY <1>5, <3>1, LeftIs
      <3> QED  BY <3>1, <3>2
    <2>3. /\ \A j \in k..(k + e) : /\ s[j].m = s[k].m /\ s[j].length = s[k].length
                                   /\ s[j].c = s[k].c + (j - k)
          /\ k + e = Len(s) => s[k].m = a
          /\ k + e < Len(s) => s[k + e + 1].m = s[k].m + 1 /\ s[k + e + 1].c = 1
      BY DEF Chain
    <2> HIDE DEF e, N
    <2>4. k + e < Len(t)
      BY <1>1, <1>4, <2>2
    <2>5. \A j \in k..(k + e) : t[j] = s[j]
      <3>1. \A j \in k..(k + e) : j \in 1..Len(s)
        BY <1>1, <2>1, <2>2
      <3> QED  BY <1>4, <3>1
    <2>6. t[k + e + 1].m = s[k].m + 1 /\ t[k + e + 1].c = 1
      <3>1. CASE k + e = Len(s)
        <4>1. k + e + 1 = Len(s) + 1 /\ 1 \in 1..N
          BY <1>1, <2>1, <2>2, <3>1
        <4>2. t[k + e + 1] = q[1]
          BY <1>4, <4>1
        <4> QED  BY <1>3, <2>3, <3>1, <4>1, <4>2
      <3>2. CASE k + e < Len(s)
        <4>1. k + e + 1 \in 1..Len(s)
          BY <1>1, <2>1, <2>2, <3>2
        <4> QED  BY <1>4, <2>3, <3>2, <4>1
      <3>3. k + e = Len(s) \/ k + e < Len(s)
        <4> DEFINE n == Len(s)
        <4>1. k \in Nat /\ e \in Nat /\ n \in Nat /\ k + e <= n
          BY <1>1, <2>1, <2>2
        <4> HIDE DEF n
        <4>2. k + e = n \/ k + e < n
          BY ONLY <4>1
        <4> QED  BY <4>2 DEF n
      <3> QED  BY <3>1, <3>2, <3>3
    <2>7. k + e <= Len(t) /\ ~(k + e = Len(t))
      <3> DEFINE n == Len(t)
      <3>1. k + e < n /\ n \in Nat /\ k \in Nat /\ e \in Nat
        BY <1>1, <1>4, <2>1, <2>2, <2>4
      <3> HIDE DEF n
      <3>2. k + e <= n /\ ~(k + e = n)
        BY ONLY <3>1
      <3> QED  BY <3>2 DEF n
    <2> QED  BY <2>1, <2>2, <2>3, <2>5, <2>6, <2>7
  <1>7. ASSUME NEW k \in 1..N
        PROVE  LET l == Len(s) + k
               IN  /\ t[l].c >= 1 /\ t[l].c <= LengthChunks + t[l].length
                   /\ l + Left(t[l]) = Len(t) /\ t[l].m = a + 1
                   /\ \A j \in l..(l + Left(t[l])) :
                         /\ t[j].m = t[l].m /\ t[j].length = t[l].length
                         /\ t[j].c = t[l].c + (j - l)
    <2> DEFINE l == Len(s) + k
    <2>1. t[l].m = a + 1 /\ t[l].c = k /\ t[l].length = length
      BY <1>3, <1>4
    <2>2. l + Left(t[l]) = Len(t) /\ l \in Nat /\ k \in Nat
      BY <1>1, <1>4, <2>1 DEF Left
    <2>3. ASSUME NEW j \in l..Len(t)
          PROVE  t[j].m = a + 1 /\ t[j].length = length /\ t[j].c = k + (j - l)
      <3> DEFINE i == j - Len(s)
      <3>1. i \in 1..N /\ j = Len(s) + i /\ i = k + (j - l)
        BY <1>1, <1>4, <2>2
      <3> HIDE DEF i, N
      <3>2. t[j] = q[i]
        BY <1>4, <3>1
      <3> QED  BY <1>3, <3>1, <3>2
    <2> QED  BY <1>1, <2>1, <2>2, <2>3
  <1>8. \A l \in 1..Len(t) : l \in 1..Len(s) \/ \E k \in 1..N : l = Len(s) + k
    <2>1. ASSUME NEW l \in 1..Len(t), l \notin 1..Len(s)
          PROVE  \E k \in 1..N : l = Len(s) + k
      <3>1. l - Len(s) \in 1..N /\ l = Len(s) + (l - Len(s))
        BY <1>1, <1>4, <2>1
      <3> QED  BY <3>1
    <2> QED  BY <2>1
  <1>9. ASSUME NEW l \in 1..Len(t)
        PROVE  /\ t[l].c >= 1 /\ t[l].c <= LengthChunks + t[l].length
               /\ l + Left(t[l]) <= Len(t)
               /\ \A j \in l..(l + Left(t[l])) :
                     /\ t[j].m = t[l].m /\ t[j].length = t[l].length
                     /\ t[j].c = t[l].c + (j - l)
               /\ l + Left(t[l]) = Len(t) => t[l].m = a + 1
               /\ l + Left(t[l]) < Len(t) => /\ t[l + Left(t[l]) + 1].m = t[l].m + 1
                                             /\ t[l + Left(t[l]) + 1].c = 1
    <2>1. CASE l \in 1..Len(s)
      BY <1>6, <2>1
    <2>2. ASSUME NEW k \in 1..N, l = Len(s) + k
          PROVE  /\ t[l].c >= 1 /\ t[l].c <= LengthChunks + t[l].length
                 /\ l + Left(t[l]) = Len(t) /\ t[l].m = a + 1
                 /\ \A j \in l..(l + Left(t[l])) :
                       /\ t[j].m = t[l].m /\ t[j].length = t[l].length
                       /\ t[j].c = t[l].c + (j - l)
      BY <1>7, <2>2
    <2>3. Len(t) \in Nat
      BY <1>1, <1>4
    <2>4. ASSUME NEW k \in 1..N, l = Len(s) + k
          PROVE  /\ l + Left(t[l]) <= Len(t) /\ ~(l + Left(t[l]) < Len(t))
                 /\ t[l].m = a + 1
      BY <2>2, <2>3, <2>4
    <2> QED  BY <1>8, <2>1, <2>2, <2>4
  <1> QED  BY <1>9 DEF Chain, t

\* A read within a message moves the position on by what was read, a read of the rest of
\* a message to the beginning of the next one.
LEMMA ReadPosition ==
    ASSUME NEW s \in Seq(Chunk), NEW a, Chain(s, a), NEW r \in Rec, NEW d \in Nat,
           Position(s, r, a, d), NEW h \in Nat, NEW b \in Nat, h + b > 0, h + b <= Len(s),
           h <= LengthChunks - r.in_length_got, r.in_length_got < LengthChunks => h > 0,
           r.in_length_got + h < LengthChunks => b = 0, NEW length \in Nat,
           length = IF h > 0 /\ r.in_length_got + h = LengthChunks THEN s[h].length
                    ELSE r.in_length,
           Read(r, h, b, length).in_message => Read(r, h, b, length).in_msg_got <= length
    PROVE  LET new == Read(r, h, b, length)
               q == SubSeq(s, h + b + 1, Len(s))
           IN  IF new.in_message /\ new.in_msg_got = length
               THEN Position(q, message_cleanup(new), a, d + 1) ELSE Position(q, new, a, d)
  <1> DEFINE L == LengthChunks
             g == r.in_length_got
             m == r.in_msg_got
             new == Read(r, h, b, length)
             cl == message_cleanup(new)
             n == h + b
             N == Len(s)
             q == SubSeq(s, n + 1, N)
             len == s[1].length
             E == 1 + Left(s[1])
             whole == g + h = L /\ m + b = length
  <1>1. g \in 0..L /\ m \in Nat /\ L \in Nat \ {0} /\ N \in Nat /\ n \in Nat
    <2>1. /\ r.in_length_got \in 0..LengthChunks /\ r.in_msg_got \in 0..MaxLength
          /\ MaxLength \in Nat /\ LengthChunks \in Nat \ {0}
      BY RecTypes, Constants
    <2>2. g \in 0..L /\ L \in Nat \ {0}
      BY <2>1
    <2>3. m \in Nat
      BY <2>1
    <2> HIDE DEF g, L, m
    <2> QED  BY <2>2, <2>3
  <1>2. /\ new.in_length_got = g + h /\ new.in_msg_got = m + b /\ new.in_length = length
        /\ new.in_message = (g + h = L)
        /\ cl.in_length_got = 0 /\ cl.in_msg_got = 0 /\ cl.in_length = 0
    <2> DEFINE x == g + h
               y == m + b
               w == x = L
    <2>1. new = [r EXCEPT !.in_length_got = x, !.in_msg_got = y, !.in_length = length,
                          !.in_message = w]
      BY DEF Read
    <2>2. cl = [new EXCEPT !.in_message = FALSE, !.in_msg_got = 0, !.in_length = 0,
                           !.in_length_got = 0]
      BY DEF message_cleanup
    <2> HIDE DEF x, y, w, new, cl
    <2>3. /\ new.in_length_got = x /\ new.in_msg_got = y /\ new.in_length = length
          /\ new.in_message = w
          /\ cl.in_length_got = 0 /\ cl.in_msg_got = 0 /\ cl.in_length = 0
      BY ONLY <2>1, <2>2, r \in Rec DEF Rec
    <2> QED  BY <2>3 DEF x, y, w
  <1>3. N >= 1 /\ 1 \in 1..N /\ s # << >>
    BY <1>1
  <1>4. s[1].m = d + 1 /\ s[1].c = g + m + 1 /\ (g = L => r.in_length = len)
        /\ (g < L => m = 0)
    BY <1>3 DEF Position
  <1>5. /\ s[1].c <= L + len /\ E <= N /\ (E = N => s[1].m = a)
        /\ \A j \in 1..E : s[j].m = d + 1 /\ s[j].length = len /\ s[j].c = g + m + 1 + (j - 1)
        /\ E < N => s[E + 1].m = d + 1 + 1 /\ s[E + 1].c = 1
    BY <1>3, <1>4 DEF Chain
  <1>6. len \in Nat
    BY <1>3, ChunkTypes
  <1>7. E = L + len - g - m /\ E \in Int
    <2>1. Left(s[1]) = L + len - (g + m + 1)
      BY <1>4 DEF Left
    <2>2. E = 1 + (L + len - (g + m + 1))
      BY <2>1
    <2> HIDE DEF E, L, g, m, len
    <2> QED  BY <1>1, <1>6, <2>2
  <1>8. /\ N - n \in Nat /\ Len(q) = N - n /\ (q = << >> <=> N = n)
        /\ (n < N => q[1] = s[n + 1])
    <2>1. n \in 0..Len(s)
      BY <1>1
    <2> HIDE DEF n
    <2>2. /\ Len(SubSeq(s, n + 1, Len(s))) = Len(s) - n
          /\ n < Len(s) => SubSeq(s, n + 1, Len(s))[1] = s[n + 1]
          /\ SubSeq(s, n + 1, Len(s)) \in Seq(Chunk)
      BY <2>1
    <2>3. Len(q) = N - n /\ (n < N => q[1] = s[n + 1]) /\ q \in Seq(Chunk)
      BY <2>2
    <2> HIDE DEF q
    <2>4. q = << >> <=> Len(q) = 0
      BY <2>3
    <2>5. N - n \in Nat /\ (N - n = 0 <=> N = n)
      BY <1>1, <2>1
    <2> QED  BY <2>3, <2>4, <2>5
  <1> HIDE DEF L, g, m, new, cl, n, N, q, len, E
  <1>9. g + h = L => length = len
    <2>1. CASE h > 0 /\ g + h = L
      <3>1. h \in 1..E
        BY <1>1, <1>4, <1>6, <1>7, <2>1
      <3>2. length = s[h].length
        BY <2>1 DEF g, L
      <3> QED  BY <1>5, <3>1, <3>2
    <2>2. CASE ~(h > 0) /\ g + h = L
      <3>1. length = r.in_length /\ g = L
        BY <1>1, <2>2 DEF g
      <3> QED  BY <1>4, <3>1
    <2> QED  BY <2>1, <2>2
  <1>10. /\ h <= L - g /\ (g < L => h > 0) /\ (g + h < L => b = 0) /\ n = h + b
         /\ (g + h = L => m + b <= length)
    BY <1>2 DEF g, L, n, new
  <1>11. IF whole THEN n = E ELSE n < E
    <2>1. CASE g + h = L
      <3>1. length = len /\ m + b <= len
        BY <1>9, <1>10, <2>1
      <3> QED  BY ONLY <1>1, <1>6, <1>7, <1>10, <2>1, <3>1, h \in Nat, b \in Nat
    <2>2. CASE g + h < L
      <3>1. b = 0 /\ m = 0
        BY <1>1, <1>4, <1>10, <2>2
      <3> QED  BY ONLY <1>1, <1>6, <1>7, <1>10, <2>2, <3>1, h \in Nat
    <2> QED  BY <1>1, <1>10, <2>1, <2>2
  <1>12. CASE whole
    <2>1. n = E
      BY <1>11, <1>12
    <2>2. q = << >> => d + 1 = a
      BY <1>4, <1>5, <1>8, <2>1
    <2>3. q # << >> => q[1].m = d + 1 + 1 /\ q[1].c = 1
      BY <1>1, <1>5, <1>8, <2>1
    <2>4. Position(q, cl, a, d + 1)
      <3>1. cl.in_length_got # L
        BY <1>1, <1>2
      <3> QED  BY <1>2, <2>2, <2>3, <3>1 DEF Position, L
    <2>5. new.in_message /\ new.in_msg_got = length
      BY <1>2, <1>12
    <2> QED  BY <2>4, <2>5 DEF q, cl, n, N, new
  <1>13. CASE ~whole
    <2>1. n < E /\ n + 1 \in 1..E /\ n < N
      <3>1. n < E /\ E <= N
        BY <1>5, <1>11, <1>13
      <3> QED  BY ONLY <1>1, <1>7, <3>1
    <2>2. q # << >> /\ q[1].m = d + 1 /\ q[1].length = len /\ q[1].c = (g + h) + (m + b) + 1
      <3>1. q # << >> /\ q[1] = s[n + 1]
        BY <1>1, <1>8, <2>1
      <3>2. s[n + 1].c = g + m + 1 + ((n + 1) - 1) /\ s[n + 1].m = d + 1
            /\ s[n + 1].length = len
        BY <1>5, <2>1
      <3> QED  BY <1>1, <1>10, <3>1, <3>2
    <2>3. Position(q, new, a, d)
      <3>1. g + h < L => m + b = 0
        BY <1>1, <1>4, <1>10
      <3> QED  BY <1>2, <1>9, <2>2, <3>1 DEF Position, L
    <2>4. ~(new.in_message /\ new.in_msg_got = length)
      BY <1>2, <1>13
    <2> QED  BY <2>3, <2>4 DEF q, n, N, new
  <1> QED  BY <1>12, <1>13

\* y may take the place of x: it has been read as far, unless it is to be closed.
Keeps(y, x) ==
    /\ Open(y) => /\ Open(x) /\ y.in_length_got = x.in_length_got
                  /\ y.in_msg_got = x.in_msg_got /\ y.in_length = x.in_length
    /\ y.tag \in {"none", "freed"} => x.tag = y.tag

\* A changed Fds_info is put back.
LEMMA PutKeeps ==
    ASSUME info \in [Infos -> Rec], NEW i \in Infos, NEW r, info' = [info EXCEPT ![i] = r],
           Keeps(r, info[i])
    PROVE  \A x \in Infos : Keeps(info'[x], info[x])
  <1>1. info'[i] = r /\ \A x \in Infos : x # i => info'[x] = info[x]
    OBVIOUS
  <1>2. \A x \in Infos : Keeps(info[x], info[x])
    BY DEF Keeps
  <1> QED  BY <1>1, <1>2

\* Closing at once.
LEMMA CloseNowKeeps ==
    ASSUME info \in [Infos -> Rec], NEW i \in Infos, NEW r \in Rec, CloseNow(i, r)
    PROVE  /\ \A x \in Infos : Keeps(info'[x], info[x])
           /\ info'[i].delete_me = 2 /\ info'[i].tag = "NET_INFO_CLOSED"
  <1> DEFINE c == [r EXCEPT !.delete_me = 2, !.tag = "NET_INFO_CLOSED"]
  <1>1. info' = [info EXCEPT ![i] = c]
    BY DEF CloseNow
  <1>2. c.delete_me = 2 /\ c.tag = "NET_INFO_CLOSED"
    BY ONLY r \in Rec DEF Rec
  <1> HIDE DEF c
  <1>3. Keeps(c, info[i])
    BY <1>2 DEF Open, Keeps
  <1>4. info'[i] = c
    BY <1>1
  <1> QED  BY <1>1, <1>2, <1>3, <1>4, PutKeeps

\* close_socket, at once or when the socket can be written.
LEMMA CloseKeeps ==
    ASSUME info \in [Infos -> Rec], NEW i \in Infos, NEW r \in Rec, Live(r),
           NEW now, close_socket(i, r, now)
    PROVE  \A x \in Infos : Keeps(info'[x], info[x])
  <1> DEFINE s == Reset(r)
             c == [s EXCEPT !.delete_me = 1]
  <1>1. s \in Rec /\ s.tag = r.tag
    BY ResetRec
  <1>2. CASE ~now /\ r.tag \in Connected
    <2>1. info' = [info EXCEPT ![i] = c]
      BY <1>2 DEF close_socket, Put
    <2> HIDE DEF s
    <2>2. c.delete_me = 1 /\ c.tag = s.tag
      BY <1>1 DEF Rec
    <2> HIDE DEF c
    <2>3. Keeps(c, info[i])
      BY <1>1, <2>2 DEF Open, Keeps, Live
    <2> QED  BY <2>1, <2>3, PutKeeps
  <1>3. CASE ~(~now /\ r.tag \in Connected)
    <2>1. CloseNow(i, s)
      BY <1>3 DEF close_socket
    <2> HIDE DEF s
    <2> QED  BY <1>1, <2>1, CloseNowKeeps
  <1> QED  BY <1>2, <1>3

\* What is read is no matter of Sent.
LEMMA SentIn ==
    ASSUME NEW r \in Rec, NEW n, NEW x, Keeps(r, x)
    PROVE  Keeps(Sent(r, n), x)
  <1> DEFINE o2 == r.out - ((r.sent + n) \div OutChunks)
             s2 == (r.sent + n) % OutChunks
             s == [r EXCEPT !.out = o2, !.sent = s2]
  <1>1. Sent(r, n) = s
    BY DEF Sent
  <1> HIDE DEF o2, s2
  <1>2. /\ s.in_length_got = r.in_length_got /\ s.in_msg_got = r.in_msg_got
        /\ s.in_length = r.in_length /\ s.tag = r.tag /\ s.delete_me = r.delete_me
    BY ONLY r \in Rec DEF Rec
  <1> HIDE DEF s
  <1> QED  BY <1>1, <1>2 DEF Keeps, Open

\* Sending reads nothing.
LEMMA SendKeeps ==
    ASSUME info \in [Infos -> Rec], NEW i \in Infos, NEW r \in Rec, Live(r),
           Keeps(r, info[i]), NEW e, NEW clear, SendNonblocking(i, r, e, clear)
    PROVE  \A x \in Infos : Keeps(info'[x], info[x])
  <1>1. CASE Put(i, r, fds)
    <2>1. info' = [info EXCEPT ![i] = r]
      BY <1>1 DEF Put
    <2> QED  BY <2>1, PutKeeps
  <1>2. ASSUME NEW n, Write(i, r, e, fds[r.fds_index].fd, n)
        PROVE  \A x \in Infos : Keeps(info'[x], info[x])
    <2>1. info' = [info EXCEPT ![i] = Sent(r, n)]
      BY <1>2 DEF Write
    <2> QED  BY <2>1, SentIn, PutKeeps
  <1>3. CASE close_socket(i, r, TRUE)
    BY <1>3, CloseKeeps
  <1> QED  BY <1>1, <1>2, <1>3 DEF SendNonblocking

\* Nor does a message that is given to enqueue.
LEMMA EnqueueKeeps ==
    ASSUME info \in [Infos -> Rec], NEW i \in Infos, Live(info[i]), enqueue(i, info[i])
    PROVE  \A x \in Infos : Keeps(info'[x], info[x])
  <1> DEFINE r == info[i]
  <1>1. r \in Rec
    OBVIOUS
  <1>2. CASE r.out = 0 /\ r.tag # "NET_TCP_CONNECTING"
    <2> DEFINE s == [r EXCEPT !.out = 1, !.sent = 0]
               e == enq[i] + 1
               cl == FALSE
    <2>1. SendNonblocking(i, s, e, cl)
      BY <1>2 DEF enqueue
    <2>2. s \in Rec /\ Live(s) /\ Keeps(s, r)
      <3> DEFINE x == 1
                 y == 0
      <3>1. x \in Nat /\ y \in 0..(OutChunks - 1) /\ Live(r)
        BY Constants
      <3> HIDE DEF r, x, y
      <3>2. /\ [r EXCEPT !.out = x, !.sent = y] \in Rec
            /\ [r EXCEPT !.out = x, !.sent = y].tag = r.tag
            /\ [r EXCEPT !.out = x, !.sent = y].delete_me = r.delete_me
            /\ [r EXCEPT !.out = x, !.sent = y].in_length_got = r.in_length_got
            /\ [r EXCEPT !.out = x, !.sent = y].in_msg_got = r.in_msg_got
            /\ [r EXCEPT !.out = x, !.sent = y].in_length = r.in_length
        BY ONLY <1>1, <3>1 DEF Rec
      <3> QED  BY <3>1, <3>2 DEF x, y, Keeps, Open, Live
    <2> HIDE DEF s, e, cl
    <2> QED  BY <2>1, <2>2, SendKeeps
  <1>3. CASE ~(r.out = 0 /\ r.tag # "NET_TCP_CONNECTING")
    <2> DEFINE n == r.out + 1
               s == [r EXCEPT !.out = n]
    <2>1. info' = [info EXCEPT ![i] = s]
      BY <1>3 DEF enqueue, Put
    <2>2. Keeps(s, r)
      <3> HIDE DEF r, n
      <3>1. /\ s.tag = r.tag /\ s.delete_me = r.delete_me
            /\ s.in_length_got = r.in_length_got /\ s.in_msg_got = r.in_msg_got
            /\ s.in_length = r.in_length
        BY ONLY <1>1 DEF Rec
      <3> QED  BY <3>1 DEF Keeps, Open
    <2> HIDE DEF s
    <2> QED  BY <2>1, <2>2, PutKeeps
  <1> QED  BY <1>2, <1>3

\* Nothing is received.
NothingRead ==
    /\ arrived' = arrived /\ delivered' = delivered
    /\ \A i \in Tcp : stream'[i] = stream[i] /\ Keeps(info'[i], info[i])

\* A step that reads nothing.
LEMMA NothingReadKept ==
    ASSUME RInv, NothingRead
    PROVE  RInv'
  <1>1. delivered' \in [Infos -> Nat]
    BY DEF RInv, NothingRead
  <1>2. ASSUME NEW i \in Tcp PROVE Received(i)'
    <2>1. /\ stream'[i] = stream[i] /\ Keeps(info'[i], info[i]) /\ Received(i)
          /\ arrived'[i] = arrived[i] /\ delivered'[i] = delivered[i]
      BY DEF NothingRead, RInv
    <2>2. Chain(stream'[i], arrived'[i])
      BY <2>1 DEF Received
    <2>3. ASSUME Open(info'[i])
          PROVE  Position(stream'[i], info'[i], arrived'[i], delivered'[i])
      <3>1. /\ Position(stream[i], info[i], arrived[i], delivered[i])
            /\ info'[i].in_length_got = info[i].in_length_got
            /\ info'[i].in_msg_got = info[i].in_msg_got
            /\ info'[i].in_length = info[i].in_length
        BY <2>1, <2>3 DEF Keeps, Received
      <3> QED  BY <2>1, <3>1 DEF Position
    <2>4. /\ info'[i].tag = "none" => stream'[i] = << >> /\ arrived'[i] = delivered'[i]
          /\ info'[i].tag = "freed" => stream'[i] = << >>
      BY <2>1 DEF Keeps, Received
    <2> QED  BY <2>2, <2>3, <2>4 DEF Received
  <1> QED  BY <1>1, <1>2 DEF RInv

\* A new Fds_info has read nothing, and nothing was sent to it.
LEMMA NewReads ==
    ASSUME IInv, RInv, NEW i \in Tcp, info[i].tag = "none", NEW tag, NEW pollout,
           tag \notin {"none", "freed"}, NewInfo(i, tag, pollout),
           arrived' = arrived, delivered' = delivered,
           \A x \in Tcp : stream'[x] = stream[x]
    PROVE  RInv'
  <1> DEFINE New(wt) == Fds_info(tag, Size + 1, wt)
  <1>1. PICK wt : info' = [info EXCEPT ![i] = New(wt)]
    BY DEF NewInfo
  <1>2. info \in [Infos -> Rec] /\ i \in Infos
    BY CoreTypes, Constants DEF IInv
  <1>3. New(wt).tag = tag /\ New(wt).in_length_got = 0 /\ New(wt).in_msg_got = 0
    BY DEF Fds_info
  <1> HIDE DEF New
  <1>5. info'[i] = New(wt) /\ \A x \in Infos : x # i => info'[x] = info[x]
    BY <1>1, <1>2
  <1>6. ASSUME NEW x \in Tcp PROVE Received(x)'
    <2>1. stream'[x] = stream[x] /\ arrived'[x] = arrived[x] /\ delivered'[x] = delivered[x]
          /\ Received(x)
      BY DEF RInv
    <2>2. CASE x = i
      <3>1. stream[x] = << >> /\ arrived[x] = delivered[x]
        BY <2>1, <2>2 DEF Received
      <3>2. Position(stream'[x], info'[x], arrived'[x], delivered'[x])
        BY <1>3, <1>5, <2>1, <2>2, <3>1, Constants DEF Position
      <3> QED  BY <1>3, <1>5, <2>1, <2>2, <3>2 DEF Received
    <2>3. CASE x # i
      <3>1. info'[x] = info[x]
        BY <1>5, <2>3, Constants
      <3> QED  BY <2>1, <3>1 DEF Received
    <2> QED  BY <2>2, <2>3
  <1> QED  BY <1>6 DEF RInv

\* A message sent by a peer is received later.
LEMMA PeersRead ==
    ASSUME IInv, RInv, Counts, Peers
    PROVE  RInv'
  <1>1. /\ info' = info /\ delivered' = delivered /\ info \in [Infos -> Rec]
        /\ DOMAIN stream = Infos /\ Sockets(info, net, stream)
        /\ \A i \in Tcp : stream[i] \in Seq(Chunk)
    <2>1. Core(fds, fds_info, info, net, stream)
      BY DEF IInv
    <2>2. info' = info /\ delivered' = delivered
      BY DEF Peers, PeerAnswers, PeerConnects, PeerSends, PeerLeaves, Datagram, process
    <2> QED  BY <2>1, <2>2, CoreTypes DEF Core
  <1>2. ASSUME arrived' = arrived, \A i \in Tcp : stream'[i] = stream[i] PROVE RInv'
    <2>1. \A i \in Tcp : Keeps(info'[i], info[i])
      BY <1>1 DEF Keeps
    <2> QED  BY <1>1, <1>2, <2>1, NothingReadKept DEF NothingRead
  <1>3. ASSUME NEW i, PeerAnswers(i) \/ PeerLeaves(i) PROVE RInv'
    BY <1>2, <1>3 DEF PeerAnswers, PeerLeaves
  <1>4. ASSUME NEW i, PeerConnects(i) PROVE RInv'
    <2>1. arrived' = arrived /\ \A x \in Tcp : stream'[x] = stream[x]
      BY <1>1, <1>4, Constants DEF PeerConnects
    <2> QED  BY <1>2, <2>1
  <1>5. ASSUME NEW i \in Tcp, NEW length \in 0..(MaxLength + 1), PeerSends(i, length)
        PROVE  RInv'
    <2> DEFINE a == arrived[i]
               s == stream[i]
               q == [c \in 1..(LengthChunks + length) |->
                       [m |-> a + 1, c |-> c, length |-> length]]
    <2>1. /\ net[i] = "up" /\ arrived' = [arrived EXCEPT ![i] = a + 1]
          /\ stream' = [stream EXCEPT ![i] = s \o q]
      BY <1>5 DEF PeerSends
    <2>2. length \in Nat /\ a \in Nat /\ s \in Seq(Chunk) /\ i \in Infos
          /\ LengthChunks \in Nat \ {0} /\ Received(i)
      BY <1>1, Constants DEF Counts, RInv
    <2>3. Live(info[i])
      BY <1>1, <2>1, <2>2 DEF Sockets
    <2>4. Chain(s \o q, a + 1)
      BY <2>2, ChainAppend DEF Received
    <2>5. ASSUME Open(info[i]) PROVE Position(s \o q, info[i], a + 1, delivered[i])
      <3>1. Position(s, info[i], a, delivered[i])
        BY <2>2, <2>5 DEF Received
      <3>2. /\ q \in Seq(Chunk) /\ Len(q) = LengthChunks + length
            /\ q[1].m = a + 1 /\ q[1].c = 1
        <4> DEFINE N == LengthChunks + length
        <4>1. N \in Nat \ {0} /\ 1 \in 1..N
          BY <2>2
        <4>2. \A c \in 1..N : [m |-> a + 1, c |-> c, length |-> length] \in Chunk
          BY <2>2, <4>1 DEF Chunk
        <4>3. q \in [1..N -> Chunk]
          BY <4>2
        <4>4. q[1] = [m |-> a + 1, c |-> 1, length |-> length]
          BY <4>1
        <4> HIDE DEF N, q
        <4>5. q \in Seq(Chunk) /\ Len(q) = N
          BY <4>1, <4>3
        <4> QED  BY <4>4, <4>5 DEF N
      <3> HIDE DEF q
      <3>3. s \o q # << >> /\ (s # << >> => (s \o q)[1] = s[1])
            /\ (s = << >> => (s \o q)[1] = q[1])
        BY <2>2, <3>2
      <3>4. CASE s = << >>
        BY <2>2, <3>1, <3>2, <3>3, <3>4 DEF Position
      <3>5. CASE s # << >>
        BY <3>1, <3>3, <3>5 DEF Position
      <3> QED  BY <3>4, <3>5
    <2> HIDE DEF q
    <2>6. ASSUME NEW x \in Tcp PROVE Received(x)'
      <3>1. CASE x = i
        <4>1. stream'[x] = s \o q /\ arrived'[x] = a + 1
          BY <1>1, <2>1, <2>2, <3>1 DEF Counts
        <4> QED  BY <1>1, <2>3, <2>4, <2>5, <3>1, <4>1 DEF Received, Live
      <3>2. CASE x # i
        <4>1. stream'[x] = stream[x] /\ arrived'[x] = arrived[x] /\ Received(x)
          BY <1>1, <2>1, <2>2, <3>2, Constants DEF Counts, RInv
        <4> QED  BY <1>1, <4>1 DEF Received
      <3> QED  BY <3>1, <3>2
    <2> QED  BY <1>1, <2>6 DEF RInv
  <1>6. CASE Datagram
    <2>1. \A x \in Tcp : x \in Infos /\ x # udp
      BY Constants, NetworkAssumption
    <2>2. /\ stream' = [stream EXCEPT ![udp] = Append(stream[udp], arrived[udp] + 1)]
          /\ arrived' = [arrived EXCEPT ![udp] = arrived[udp] + 1]
      BY <1>6 DEF Datagram
    <2>3. \A x \in Tcp : stream'[x] = stream[x] /\ arrived'[x] = arrived[x]
      BY <1>1, <2>1, <2>2 DEF Counts
    <2>4. ASSUME NEW x \in Tcp PROVE Received(x)'
      <3>1. Received(x) /\ stream'[x] = stream[x] /\ arrived'[x] = arrived[x]
        BY <2>3 DEF RInv
      <3> QED  BY <1>1, <3>1 DEF Received
    <2> QED  BY <1>1, <2>4 DEF RInv
  <1> QED  BY <1>3, <1>4, <1>5, <1>6 DEF Peers

\* User code reads nothing.
LEMMA UserReads ==
    ASSUME IInv, RInv, User
    PROVE  RInv'
  <1>0. info \in [Infos -> Rec]
    BY CoreTypes DEF IInv
  <1>1. ASSUME NEW i \in Clients, create_tcp_client(i) PROVE RInv'
    <2>1. PICK up \in BOOLEAN :
            NewInfo(i, IF up THEN "NET_TCP_CLIENT" ELSE "NET_TCP_CONNECTING", ~up)
      BY <1>1 DEF create_tcp_client
    <2> DEFINE tag == IF up THEN "NET_TCP_CLIENT" ELSE "NET_TCP_CONNECTING"
               p == ~up
    <2>2. NewInfo(i, tag, p) /\ tag \notin {"none", "freed"}
      BY <2>1
    <2> HIDE DEF tag, p
    <2>3. info[i].tag = "none" /\ arrived' = arrived /\ delivered' = delivered
          /\ stream' = stream /\ i \in Tcp
      BY <1>1, Constants DEF create_tcp_client
    <2> QED  BY <2>2, <2>3, NewReads
  <1>2. ASSUME NEW i \in Tcp, NEW block \in BOOLEAN, send_tcp(i, block) PROVE RInv'
    <2>1. i \in Range(fds_info) /\ stream' = stream /\ arrived' = arrived
          /\ delivered' = delivered
      BY <1>2 DEF send_tcp
    <2>2. i \in Infos /\ Live(info[i])
      BY <2>1, InArray
    <2>3. CASE enqueue(i, info[i])
      <3>1. \A x \in Infos : Keeps(info'[x], info[x])
        BY <1>0, <2>2, <2>3, EnqueueKeeps
      <3> QED  BY <2>1, <3>1, NothingReadKept, Constants DEF NothingRead
    <2>4. CASE info' = info
      <3>1. \A x \in Infos : Keeps(info'[x], info[x])
        BY <2>4 DEF Keeps
      <3> QED  BY <2>1, <3>1, NothingReadKept, Constants DEF NothingRead
    <2> QED  BY <1>2, <2>3, <2>4 DEF send_tcp
  <1>3. ASSUME NEW i \in Tcp, NEW now \in BOOLEAN, NEW keep \in BOOLEAN,
               CloseByUser(i, now, keep)
        PROVE  RInv'
    <2> DEFINE r == info[i]
               s == [r EXCEPT !.owner = keep]
    <2>1. i \in Range(fds_info) /\ stream' = stream /\ arrived' = arrived
          /\ delivered' = delivered /\ close_socket(i, s, now)
      BY <1>3 DEF CloseByUser
    <2>2. i \in Infos /\ Live(r) /\ r \in Rec
      BY <2>1, InArray
    <2>3. s \in Rec /\ s.tag = r.tag
      <3> HIDE DEF r
      <3> QED  BY ONLY <2>2, keep \in BOOLEAN DEF Rec
    <2> HIDE DEF s
    <2>4. \A x \in Infos : Keeps(info'[x], info[x])
      BY <1>0, <2>1, <2>2, <2>3, CloseKeeps DEF Live
    <2> QED  BY <2>1, <2>4, NothingReadKept, Constants DEF NothingRead
  <1> QED  BY <1>1, <1>2, <1>3 DEF User

\* Neither does a blocking send.
LEMMA BlockedReads ==
    ASSUME IInv, RInv, Blocked
    PROVE  RInv'
  <1>1. /\ stream' = stream /\ arrived' = arrived /\ delivered' = delivered
        /\ SendFrame
    BY DEF Blocked, SendPolls, SendSelects, SendWrites, SendDone, SendFreed, o2n_recv, os
  <1>2. Sender \in Infos /\ info[Sender].tag # "none" /\ info \in [Infos -> Rec]
    BY <1>1, SenderFacts, CoreTypes DEF IInv
  <1> DEFINE i == Sender
             r == info[i]
  <1> SUFFICES \A x \in Infos : Keeps(info'[x], info[x])
    BY <1>1, NothingReadKept, Constants DEF NothingRead
  <1>3. CASE info' = info
    BY <1>3 DEF Keeps
  <1>4. CASE SendPolls \/ SendFreed
    BY <1>3, <1>4 DEF SendPolls, SendFreed, o2n_recv
  <1>5. CASE SendSelects
    <2>1. CASE info' = [info EXCEPT ![Sender].tag = "NET_TCP_CLIENT"]
      <3> DEFINE t == "NET_TCP_CLIENT"
                 s == [r EXCEPT !.tag = t]
      <3>1. info' = [info EXCEPT ![i] = s] /\ r \in Rec /\ i \in Infos
        BY <1>2, <2>1
      <3>2. r.tag # "freed" /\ t \notin {"none", "freed"}
        BY <1>5 DEF SendSelects
      <3>3. /\ s.in_length_got = r.in_length_got /\ s.in_msg_got = r.in_msg_got
            /\ s.in_length = r.in_length /\ s.tag = t /\ s.delete_me = r.delete_me
        <4> HIDE DEF r, t
        <4> QED  BY ONLY <3>1 DEF Rec
      <3>4. Keeps(s, r)
        BY <3>2, <3>3 DEF Keeps, Open
      <3>5. Keeps(s, info[i])
        BY <3>4
      <3> HIDE DEF s, i
      <3> QED  BY <1>2, <3>1, <3>5, PutKeeps
    <2> QED  BY <1>3, <1>5, <2>1 DEF SendSelects
  <1>6. CASE SendWrites
    <2>1. Live(r) /\ r \in Rec
      BY <1>2, <1>6 DEF SendWrites, Live
    <2>2. ASSUME NEW n, NEW fd, Write(i, r, enq[i], fd, n)
          PROVE  \A x \in Infos : Keeps(info'[x], info[x])
      <3>1. info' = [info EXCEPT ![i] = Sent(r, n)]
        BY <2>2 DEF Write
      <3>2. Keeps(r, r)
        BY DEF Keeps
      <3> HIDE DEF i
      <3>3. Keeps(Sent(r, n), r)
        BY <2>1, <3>2, SentIn
      <3> QED  BY <1>2, <3>1, <3>3, PutKeeps DEF i
    <2>3. CASE close_socket(i, r, TRUE)
      BY <1>2, <2>1, <2>3, CloseKeeps
    <2> QED  BY <1>6, <2>2, <2>3 DEF SendWrites
  <1>7. CASE SendDone
    <2>1. Live(r) /\ enqueue(i, r)
      BY <1>2, <1>7 DEF SendDone, Live
    <2> QED  BY <1>2, <2>1, EnqueueKeeps
  <1> QED  BY <1>4, <1>5, <1>6, <1>7 DEF Blocked

\* Deleting an Fds_info takes what was not read with it.
LEMMA FreeOneReads ==
    ASSUME IInv, RInv, FreeOne
    PROVE  RInv'
  <1> DEFINE k == CHOOSE x \in Deleted : \A j \in Deleted : x <= j
             d == fds_info[k]
             l == fds_info[Size]
             m == info[l]
             n == [m EXCEPT !.fds_index = k]
             r == Fds_info("freed", 0, "WRITE_O2")
  <1>1. /\ Delete(k) /\ Deleted # {} /\ arrived' = arrived /\ delivered' = delivered
        /\ Current("recv")
    BY DEF FreeOne, Freeing
  <1>2. Core(fds, fds_info, info, net, stream)
    BY DEF IInv
  <1>3. info \in [Infos -> Rec] /\ DOMAIN stream = Infos /\ Len(fds_info) \in Nat
        /\ Size = Len(fds_info)
    BY <1>2, CoreTypes DEF Size
  <1>4. k \in 1..Size
    <2>1. Head(calls).k \in Nat \ {0}
      BY <1>1, RecvFacts
    <2>2. Deleted \subseteq Nat /\ Deleted \subseteq 1..Size
      BY <1>3, <2>1 DEF Deleted
    <2>3. \E x \in Deleted : \A j \in Deleted : x <= j
      BY <1>1, <2>2, Least
    <2>4. k \in Deleted
      BY <2>3
    <2> HIDE DEF k
    <2> QED  BY <2>2, <2>4
  <1> HIDE DEF k
  <1>5. d \in Infos /\ l \in Infos
    <2>1. Size \in 1..Size
      BY <1>3, <1>4
    <2> QED  BY <1>2, <1>3, <1>4, <2>1, SlotInUse
  <1>6. /\ stream' = [stream EXCEPT ![d] = << >>]
        /\ info' = [[info EXCEPT ![l] = n] EXCEPT ![d] = r]
    BY <1>1, <1>3, <1>5 DEF Delete
  <1>7. r.tag = "freed"
    BY DEF Fds_info
  <1>8. Keeps(n, m)
    <2>1. m \in Rec
      BY <1>3, <1>5
    <2> HIDE DEF m
    <2>2. /\ n.in_length_got = m.in_length_got /\ n.in_msg_got = m.in_msg_got
          /\ n.in_length = m.in_length /\ n.tag = m.tag /\ n.delete_me = m.delete_me
      BY ONLY <2>1 DEF Rec
    <2> QED  BY <2>2 DEF Keeps, Open
  <1> HIDE DEF n, r
  <1>9. ASSUME NEW x \in Tcp PROVE Received(x)'
    <2>1. Received(x) /\ x \in Infos
      BY Constants DEF RInv
    <2>2. CASE x = d
      <3>1. stream'[x] = << >> /\ info'[x] = r
        BY <1>3, <1>5, <1>6, <2>1, <2>2
      <3>2. Chain(<< >>, arrived[x])
        BY DEF Chain
      <3> QED  BY <1>1, <1>7, <3>1, <3>2 DEF Received, Open
    <2>3. CASE x # d
      <3>1. stream'[x] = stream[x] /\ ((info'[x] = n /\ x = l) \/ info'[x] = info[x])
        BY <1>3, <1>5, <1>6, <2>1, <2>3
      <3>2. Keeps(info'[x], info[x])
        BY <1>8, <3>1 DEF Keeps
      <3>3. ASSUME Open(info'[x])
            PROVE  Position(stream'[x], info'[x], arrived'[x], delivered'[x])
        BY <1>1, <2>1, <3>1, <3>2, <3>3 DEF Keeps, Received, Position
      <3> QED  BY <1>1, <2>1, <3>1, <3>2, <3>3 DEF Keeps, Received
    <2> QED  BY <2>2, <2>3
  <1> QED  BY <1>1, <1>9 DEF RInv

\* The socket that is accepted has no Fds_info yet.
LEMMA AcceptedIsNew ==
    ASSUME IInv, Event("POLLIN"), info[Fi].tag = "NET_TCP_SERVER"
    PROVE  Head(stream[srv]) \in Accepts /\ info[Head(stream[srv])].tag = "none"
  <1> DEFINE h == Head(calls)
             c == Head(stream[srv])
             s2 == [stream EXCEPT ![srv] = Tail(stream[srv])]
  <1>1. /\ Fi \in Infos /\ Core(fds, fds_info, info, net, stream)
        /\ h.k \in 1..Len(h.ev) /\ h.ev[h.k] = "POLLIN"
    BY ScanFacts
  <1>2. fds_info[h.k] = srv
    BY <1>1 DEF Core, Sockets, Fi
  <1>3. ScanOK(h, fds_info, stream) /\ h.k \in Nat
    BY RecvFacts DEF Event, Scanning
  <1>4. h.k \in h.k..Len(h.ev)
    BY <1>1, <1>3
  <1>5. stream[srv] # << >>
    BY <1>1, <1>2, <1>3, <1>4 DEF ScanOK
  <1>6. s2 = [stream EXCEPT ![srv] = Tail(stream[srv])] /\ c = Head(stream[srv])
    OBVIOUS
  <1> HIDE DEF s2, c
  <1>7. c \in Accepts /\ info[c].tag = "none"
    BY ONLY <1>1, <1>5, <1>6, CoreDequeued
  <1> QED  BY <1>7 DEF c

\* In the loop of o2n_recv, only a stream with a message to read is read.
LEMMA ScanReads ==
    ASSUME IInv, RInv, Scan, ~ReadSome
    PROVE  RInv'
  <1>1. arrived' = arrived /\ delivered' = delivered /\ info \in [Infos -> Rec]
    BY CoreTypes DEF IInv, Scan, ScanHup, ScanOut, Accept, UdpReceive, ReadFails, ReadClosed,
                     ScanDone, os
  <1>2. ASSUME \A i \in Tcp : stream'[i] = stream[i],
               \A x \in Infos : Keeps(info'[x], info[x])
        PROVE  RInv'
    BY <1>1, <1>2, NothingReadKept, Constants DEF NothingRead
  <1> DEFINE i == Fi
             r == info[i]
  <1>3. ASSUME NEW e, Event(e) PROVE i \in Infos /\ Live(r) /\ r \in Rec
    BY <1>3, ScanFacts
  <1>4. CASE info' = info /\ \A x \in Tcp : stream'[x] = stream[x]
    <2>1. \A x \in Infos : Keeps(info'[x], info[x])
      BY <1>4 DEF Keeps
    <2> QED  BY <1>2, <1>4, <2>1
  <1>5. ASSUME Live(r), r \in Rec, i \in Infos, close_socket(i, r, TRUE),
               \A x \in Tcp : stream'[x] = stream[x]
        PROVE  RInv'
    BY <1>1, <1>2, <1>5, CloseKeeps
  <1>6. CASE ScanHup
    BY <1>3, <1>5, <1>6 DEF ScanHup
  <1>7. CASE ScanOut
    <2> DEFINE u == IF r.tag = "NET_TCP_CONNECTING" THEN [r EXCEPT !.tag = "NET_TCP_CLIENT"]
                    ELSE r
               cl == TRUE
               e == enq[i]
    <2>1. /\ stream' = stream /\ Event("POLLOUT")
          /\ \/ \E f : Put(i, u, f)
             \/ CloseNow(i, u)
             \/ SendNonblocking(i, u, e, cl)
      BY <1>7 DEF ScanOut
    <2>2. i \in Infos /\ Live(r) /\ r \in Rec
      BY <1>3, <2>1
    <2>3. u \in Rec /\ Live(u) /\ Keeps(u, r)
      <3>1. CASE r.tag = "NET_TCP_CONNECTING"
        <4> DEFINE t == "NET_TCP_CLIENT"
                   c == [r EXCEPT !.tag = t]
        <4>1. t \in Tags /\ t \notin {"none", "freed"} /\ u = c
          BY <3>1 DEF Tags
        <4> HIDE DEF r, t, u
        <4>2. /\ c.in_length_got = r.in_length_got /\ c.in_msg_got = r.in_msg_got
              /\ c.in_length = r.in_length /\ c.tag = t /\ c.delete_me = r.delete_me
              /\ c \in Rec
          BY ONLY <2>2, <4>1 DEF Rec
        <4> QED  BY <3>1, <4>1, <4>2 DEF Keeps, Open, Live
      <3>2. CASE r.tag # "NET_TCP_CONNECTING"
        BY <2>2, <3>2 DEF Keeps
      <3> QED  BY <3>1, <3>2
    <2>4. Keeps(u, info[i])
      BY <2>3
    <2> HIDE DEF i, u, e, cl
    <2>5. CASE \E f : Put(i, u, f)
      <3>1. info' = [info EXCEPT ![i] = u]
        BY <2>5 DEF Put
      <3> QED  BY <1>1, <1>2, <2>1, <2>2, <2>4, <3>1, PutKeeps
    <2>6. CASE CloseNow(i, u)
      BY <1>1, <1>2, <2>1, <2>2, <2>3, <2>6, CloseNowKeeps
    <2>7. CASE SendNonblocking(i, u, e, cl)
      BY <1>1, <1>2, <2>1, <2>2, <2>3, <2>4, <2>7, SendKeeps
    <2> QED  BY <2>1, <2>5, <2>6, <2>7
  <1>8. CASE Accept
    <2> DEFINE c == Head(stream[srv])
    <2>1. /\ Event("POLLIN") /\ info[Fi].tag = "NET_TCP_SERVER"
          /\ stream' = [stream EXCEPT ![srv] = Tail(stream[srv])]
          /\ \/ NewInfo(c, "NET_TCP_CONNECTION", FALSE)
             \/ close_socket(i, r, TRUE)
      BY <1>8 DEF Accept
    <2>2. \A x \in Tcp : stream'[x] = stream[x]
      <3>1. DOMAIN stream = Infos
        BY CoreTypes DEF IInv
      <3> QED  BY <2>1, <3>1, Constants
    <2>3. CASE NewInfo(c, "NET_TCP_CONNECTION", FALSE)
      <3>1. c \in Accepts /\ info[c].tag = "none"
        BY <2>1, AcceptedIsNew
      <3> DEFINE tag == "NET_TCP_CONNECTION"
                 p == FALSE
      <3>2. NewInfo(c, tag, p) /\ tag \notin {"none", "freed"} /\ c \in Tcp
        BY <2>3, <3>1, Constants
      <3> HIDE DEF c, tag, p
      <3> QED  BY <1>1, <2>2, <3>1, <3>2, NewReads
    <2>4. CASE close_socket(i, r, TRUE)
      BY <1>3, <1>5, <2>1, <2>2, <2>4
    <2> QED  BY <2>1, <2>3, <2>4
  <1>9. CASE UdpReceive
    <2>1. /\ Event("POLLIN") /\ stream' = [stream EXCEPT ![udp] = Tail(stream[udp])]
          /\ info' = info \/ close_socket(i, r, TRUE)
      BY <1>9 DEF UdpReceive
    <2>2. \A x \in Tcp : stream'[x] = stream[x]
      <3>1. DOMAIN stream = Infos /\ \A x \in Tcp : x \in Infos /\ x # udp
        BY CoreTypes, Constants, NetworkAssumption DEF IInv
      <3> QED  BY <2>1, <3>1
    <2> QED  BY <1>3, <1>4, <1>5, <2>1, <2>2
  <1>10. CASE ReadFails
    <2> DEFINE c == message_cleanup(r)
    <2>1. Event("POLLIN") /\ close_socket(i, c, TRUE) /\ stream' = stream
      BY <1>10 DEF ReadFails
    <2>2. i \in Infos /\ Live(r) /\ r \in Rec
      BY <1>3, <2>1
    <2>3. c \in Rec /\ Live(c)
      BY <2>2, CleanedRec DEF Live
    <2> HIDE DEF c, i
    <2> QED  BY <1>1, <1>2, <2>1, <2>2, <2>3, CloseKeeps
  <1>11. CASE ReadClosed
    <2> DEFINE c == Reset(r)
    <2>1. Event("POLLIN") /\ info' = [info EXCEPT ![i] = c] /\ stream' = stream
      BY <1>11 DEF ReadClosed, Put
    <2>2. i \in Infos /\ Live(r) /\ r \in Rec
      BY <1>3, <2>1
    <2>3. Keeps(c, info[i])
      <3> DEFINE f == FALSE
                 z == 0
                 y == [r EXCEPT !.in_message = f, !.out = z]
      <3>1. c = y
        BY DEF Reset
      <3> HIDE DEF r, f, z
      <3>2. /\ y.in_length_got = r.in_length_got /\ y.in_msg_got = r.in_msg_got
            /\ y.in_length = r.in_length /\ y.tag = r.tag /\ y.delete_me = r.delete_me
        BY ONLY <2>2 DEF Rec
      <3> HIDE DEF c, y
      <3>3. Keeps(c, r)
        BY <3>1, <3>2 DEF Keeps, Open
      <3> QED  BY <3>3 DEF r
    <2> HIDE DEF c, i
    <2> QED  BY <1>1, <1>2, <2>1, <2>2, <2>3, PutKeeps
  <1>12. CASE ScanDone
    BY <1>4, <1>12 DEF ScanDone, os
  <1> QED  BY <1>6, <1>7, <1>8, <1>9, <1>10, <1>11, <1>12 DEF Scan

\* What is read is taken from the stream in order.
LEMMA ReadSomeReads ==
    ASSUME IInv, RInv, ReadSome
    PROVE  RInv'
  <1> DEFINE r == info[Fi]
             s == stream[Fi]
             Length(h) == IF h > 0 /\ r.in_length_got + h = LengthChunks
                          THEN s[h].length ELSE r.in_length
             New(h, b) == Read(r, h, b, Length(h))
             Whole(h, b) == New(h, b).in_message /\ New(h, b).in_msg_got = Length(h)
  <1>1. Event("POLLIN") /\ r.tag \in Connected /\ arrived' = arrived
    BY DEF ReadSome
  <1>2. PICK h \in 0..(LengthChunks - r.in_length_got), b \in 0..MaxLength :
            /\ h + b > 0 /\ h + b <= Len(s)
            /\ r.in_length_got < LengthChunks => h > 0
            /\ r.in_length_got + h < LengthChunks => b = 0
            /\ r.in_length_got = LengthChunks => r.in_message
            /\ /\ Length(h) <= MaxLength
               /\ New(h, b).in_message => New(h, b).in_msg_got <= Length(h)
               /\ stream' = [stream EXCEPT ![Fi] = SubSeq(s, h + b + 1, Len(s))]
               /\ delivered' = [delivered EXCEPT ![Fi] = IF Whole(h, b) THEN @ + 1 ELSE @]
               /\ IF Whole(h, b) /\ ~(r.owner /\ r.delete_me = 0)
                  THEN /\ close_socket(Fi, message_cleanup(New(h, b)), TRUE)
                       /\ calls' = Next_k
                  ELSE /\ Put(Fi, IF Whole(h, b) THEN message_cleanup(New(h, b))
                                  ELSE New(h, b), fds)
                       /\ calls' = IF Whole(h, b)
                                   THEN <<[f |-> "handler", i |-> Fi]>> \o Next_k
                                   ELSE Next_k
    <2>1. ReadSome
      OBVIOUS
    <2> QED  BY ONLY <2>1, Zenon DEF ReadSome
  <1>3. /\ Fi \in Infos /\ Live(r) /\ r \in Rec
        /\ Core(fds, fds_info, info, net, stream)
    BY <1>1, ScanFacts
  <1>4. Fi \in Tcp
    BY <1>1, <1>3 DEF Core, Sockets, Talking
  <1>5. DOMAIN stream = Infos /\ s \in Seq(Chunk) /\ info \in [Infos -> Rec]
        /\ delivered \in [Infos -> Nat] /\ Received(Fi)
    BY <1>3, <1>4, CoreTypes DEF RInv
  <1>6. r.in_length_got \in 0..LengthChunks /\ r.in_length \in Nat /\ LengthChunks \in Nat
        /\ MaxLength \in Nat
    BY <1>3, RecTypes, Constants
  <1>7. h \in Nat /\ b \in Nat /\ h <= LengthChunks - r.in_length_got
    BY <1>2, <1>6
  <1>8. Length(h) \in Nat
    <2>1. CASE h > 0
      <3>1. h \in 1..Len(s)
        BY <1>2, <1>5, <1>7, <2>1
      <3> QED  BY <1>5, <1>6, <3>1, ChunkTypes
    <2>2. CASE ~(h > 0)
      BY <1>6, <2>2
    <2> QED  BY <2>1, <2>2
  <1> DEFINE length == Length(h)
             new == New(h, b)
             cl == message_cleanup(new)
             whole == Whole(h, b)
             q == SubSeq(s, h + b + 1, Len(s))
             a == arrived[Fi]
             d == delivered[Fi]
             x == IF whole THEN cl ELSE new
  <1>9. /\ length \in Nat /\ length <= MaxLength /\ new = Read(r, h, b, length)
        /\ new.in_message => new.in_msg_got <= length
        /\ length = IF h > 0 /\ r.in_length_got + h = LengthChunks THEN s[h].length
                    ELSE r.in_length
        /\ whole = (new.in_message /\ new.in_msg_got = length)
    BY <1>2, <1>8
  <1>10. /\ stream' = [stream EXCEPT ![Fi] = q]
         /\ delivered' = [delivered EXCEPT ![Fi] = IF whole THEN d + 1 ELSE d]
         /\ IF whole /\ ~(r.owner /\ r.delete_me = 0) THEN close_socket(Fi, cl, TRUE)
            ELSE Put(Fi, x, fds)
    BY <1>2
  <1> HIDE DEF length, whole, new
  <1>11. new \in Rec /\ new.tag = r.tag /\ new.delete_me = r.delete_me
    <2>1. /\ length \in Nat /\ length <= MaxLength /\ new = Read(r, h, b, length)
          /\ Read(r, h, b, length).in_message => Read(r, h, b, length).in_msg_got <= length
          /\ r.in_length_got + h < LengthChunks => b = 0
      BY <1>2, <1>9
    <2> HIDE DEF r
    <2> QED  BY ONLY <1>3, <1>7, <2>1, ReadRec
  <1>12. cl \in Rec /\ cl.tag = r.tag /\ cl.delete_me = r.delete_me
    BY <1>11, CleanedRec
  <1>13. Chain(q, a)
    <2>1. h + b \in 0..Len(s) /\ Chain(s, a)
      BY <1>2, <1>5, <1>7 DEF Received
    <2> QED  BY <1>5, <2>1, ChainTail
  <1>14. ASSUME Open(r)
         PROVE  IF whole THEN Position(q, cl, a, d + 1) ELSE Position(q, new, a, d)
    <2>1. Chain(s, a) /\ Position(s, r, a, d) /\ d \in Nat
      BY <1>3, <1>5, <1>14 DEF Received
    <2> DEFINE n2 == Read(r, h, b, length)
    <2>3. /\ h + b > 0 /\ h + b <= Len(s) /\ h <= LengthChunks - r.in_length_got
          /\ r.in_length_got < LengthChunks => h > 0
          /\ r.in_length_got + h < LengthChunks => b = 0
          /\ length \in Nat /\ (n2.in_message => n2.in_msg_got <= length)
          /\ length = IF h > 0 /\ r.in_length_got + h = LengthChunks THEN s[h].length
                      ELSE r.in_length
      BY <1>2, <1>7, <1>9
    <2>4. r \in Rec /\ s \in Seq(Chunk) /\ h \in Nat /\ b \in Nat
      BY <1>3, <1>5, <1>7
    <2> HIDE DEF r, s, a, d
    <2>2. IF n2.in_message /\ n2.in_msg_got = length
          THEN Position(SubSeq(s, h + b + 1, Len(s)), message_cleanup(n2), a, d + 1)
          ELSE Position(SubSeq(s, h + b + 1, Len(s)), n2, a, d)
      BY ONLY <2>1, <2>3, <2>4, ReadPosition
    <2> QED  BY <1>9, <2>2 DEF s, a, d
  <1> HIDE DEF q, a, d, cl
  <1>15. stream'[Fi] = q /\ arrived'[Fi] = a
         /\ delivered'[Fi] = IF whole THEN d + 1 ELSE d
    BY <1>1, <1>3, <1>5, <1>10 DEF a
  <1>16. \A y \in Infos : y # Fi => /\ stream'[y] = stream[y] /\ info'[y] = info[y]
                                    /\ delivered'[y] = delivered[y]
    BY <1>5, <1>10 DEF close_socket, CloseNow, Put
  <1>17. ASSUME NEW y \in Tcp, y = Fi PROVE Received(y)'
    <2>1. CASE whole /\ ~(r.owner /\ r.delete_me = 0)
      <3>1. close_socket(Fi, cl, TRUE)
        BY <1>10, <2>1
      <3>2. CloseNow(Fi, Reset(cl)) /\ Reset(cl) \in Rec
        BY <1>12, <3>1, ResetRec DEF close_socket
      <3>3. info'[Fi].delete_me = 2 /\ info'[Fi].tag = "NET_INFO_CLOSED"
        BY <1>3, <1>5, <3>2, CloseNowKeeps
      <3> QED  BY <1>13, <1>15, <1>17, <3>3 DEF Received, Open
    <2>2. CASE ~(whole /\ ~(r.owner /\ r.delete_me = 0))
      <3>1. info'[Fi] = x
        BY <1>3, <1>5, <1>10, <2>2 DEF Put
      <3>2. x.tag = r.tag /\ x.delete_me = r.delete_me
        BY <1>11, <1>12
      <3>3. Open(x) => Position(q, x, a, delivered'[Fi])
        BY <1>14, <1>15, <3>2 DEF Open
      <3>4. x.tag \notin {"none", "freed"}
        BY <1>3, <3>2 DEF Live
      <3> HIDE DEF x
      <3> QED  BY <1>13, <1>15, <1>17, <3>1, <3>3, <3>4 DEF Received
    <2> QED  BY <2>1, <2>2
  <1>18. ASSUME NEW y \in Tcp, y # Fi PROVE Received(y)'
    <2>1. y \in Infos /\ Received(y)
      BY Constants DEF RInv
    <2> QED  BY <1>1, <1>16, <1>18, <2>1 DEF Received
  <1>19. delivered' \in [Infos -> Nat]
    <2>1. d \in Nat /\ d + 1 \in Nat
      BY <1>3, <1>5 DEF d
    <2> QED  BY <1>5, <1>10, <2>1
  <1> QED  BY <1>17, <1>18, <1>19 DEF RInv

\* Every step keeps the positions in the streams.
LEMMA NextReads ==
    ASSUME IInv, RInv, Counts, [Next]_vars
    PROVE  RInv'
  <1>1. ASSUME arrived' = arrived, delivered' = delivered, stream' = stream, info' = info
        PROVE  RInv'
    <2>1. \A x \in Tcp : Keeps(info'[x], info[x])
      BY <1>1 DEF Keeps
    <2> QED  BY <1>1, <2>1, NothingReadKept DEF NothingRead
  <1>2. CASE o2_poll \/ FreeDone
    BY <1>1, <1>2 DEF o2_poll, o2n_recv, FreeDone, os
  <1>3. CASE Scan
    BY <1>3, ScanReads, ReadSomeReads
  <1>4. CASE Returns
    <2>1. PICK err \in BOOLEAN : HandlerReturns(err)
      BY <1>4 DEF Returns
    <2> DEFINE i == Head(calls).i
    <2>2. /\ arrived' = arrived /\ delivered' = delivered /\ stream' = stream
          /\ \/ info[i].tag \in Connected \cup {"NET_TCP_CONNECTING"}
                /\ close_socket(i, info[i], TRUE)
             \/ info' = info
          /\ calls # << >> /\ Head(calls).f = "handler"
      BY <2>1 DEF HandlerReturns, Current
    <2>3. CASE info[i].tag \in Connected \cup {"NET_TCP_CONNECTING"}
               /\ close_socket(i, info[i], TRUE)
      <3>1. Head(calls) \in Frame
        BY <2>2, FramesPopped DEF IInv
      <3>2. i \in Infos
        BY <2>2, <3>1 DEF Frame, FreeFrame, ScanFrame, SendFrames, HandlerFrame
      <3>3. info \in [Infos -> Rec]
        BY CoreTypes DEF IInv
      <3> HIDE DEF i
      <3>4. Live(info[i]) /\ info[i] \in Rec
        BY <2>3, <3>2, <3>3 DEF Live, Connected
      <3>5. \A x \in Infos : Keeps(info'[x], info[x])
        BY <2>3, <3>2, <3>3, <3>4, CloseKeeps
      <3> QED  BY <2>2, <3>5, NothingReadKept, Constants DEF NothingRead
    <2> QED  BY <1>1, <2>2, <2>3
  <1>5. CASE UNCHANGED vars
    BY <1>1, <1>5 DEF vars, os
  <1> QED  BY <1>2, <1>3, <1>4, <1>5, PeersRead, UserReads, BlockedReads, FreeOneReads
           DEF Next, Process

\* However the bytes of a connection are cut into reads, and whatever closes, deletions and
\* handlers come between, the next chunk of an open stream is the one that the Fds_info
\* waits for: messages are put together whole, in order, none of them twice.
THEOREM StreamsReassembled == Spec => []Reassembly
  <1>1. Init => RInv
    <2> SUFFICES ASSUME Init PROVE RInv
      OBVIOUS
    <2>1. \A x \in Tcp : x \in Infos /\ x # udp /\ x # srv
      BY NetworkAssumption DEF Infos
    <2>2. ASSUME NEW x \in Tcp PROVE Received(x)
      <3>1. /\ stream[x] = << >> /\ arrived[x] = 0 /\ delivered[x] = 0
            /\ info[x] = Fds_info("none", 0, "WRITE_O2")
        BY <2>1 DEF Init
      <3>2. info[x].tag = "none" /\ info[x].in_length_got = 0 /\ info[x].in_msg_got = 0
        BY <3>1 DEF Fds_info
      <3> QED  BY <3>1, <3>2 DEF Received, Chain, Position
    <2> QED  BY <2>2 DEF Init, RInv
  <1>2. IInv /\ Counts /\ RInv /\ [Next]_vars => RInv'
    BY NextReads
  <1>3. RInv => Reassembly
    <2> SUFFICES ASSUME RInv, NEW i \in Tcp, info[i].delete_me = 0, stream[i] # << >>
                 PROVE  /\ Head(stream[i]).m = delivered[i] + 1
                        /\ Head(stream[i]).c = info[i].in_length_got + info[i].in_msg_got + 1
      BY DEF Reassembly
    <2>1. Open(info[i]) /\ Position(stream[i], info[i], arrived[i], delivered[i])
      BY DEF RInv, Received, Open
    <2> QED  BY <2>1 DEF Position
  <1> QED  BY <1>1, <1>2, <1>3, Invariance, PTL DEF Spec

-----------------------------------------------------------------------------
(* What is sent.                                                           *)

\* Quotient and remainder are unique.
LEMMA QuotientIs ==
    ASSUME NEW c \in Nat \ {0}, NEW q \in Nat, NEW m \in 0..(c - 1), NEW x \in Nat,
           x = c * q + m
    PROVE  x \div c = q /\ x % c = m
  <1> DEFINE p == x \div c
             l == x % c
  <1>1. p \in Nat /\ l \in 0..(c - 1) /\ x = c * p + l
    OBVIOUS
  <1> HIDE DEF p, l
  <1>2. ~(p >= q + 1)
    <2> SUFFICES ASSUME p >= q + 1 PROVE FALSE
      OBVIOUS
    <2>1. c * p >= c * (q + 1)
      BY <1>1
    <2>2. c * (q + 1) = c * q + c
      OBVIOUS
    <2>3. c * p \in Nat /\ c * q \in Nat
      BY <1>1
    <2> QED  BY <1>1, <2>1, <2>2, <2>3
  <1>3. ~(q >= p + 1)
    <2> SUFFICES ASSUME q >= p + 1 PROVE FALSE
      OBVIOUS
    <2>1. c * q >= c * (p + 1)
      BY <1>1
    <2>2. c * (p + 1) = c * p + c
      BY <1>1
    <2>3. c * p \in Nat /\ c * q \in Nat
      BY <1>1
    <2> QED  BY <1>1, <2>1, <2>2, <2>3
  <1>4. p = q
    BY <1>1, <1>2, <1>3
  <1>5. l = m
    <2>1. c * q \in Nat /\ x = c * q + l
      BY <1>1, <1>4
    <2> QED  BY <1>1, <2>1
  <1> QED  BY <1>4, <1>5 DEF p, l

\* A sum is divided by dividing the rest of one part and the other.
LEMMA QuotientOfSum ==
    ASSUME NEW c \in Nat \ {0}, NEW x \in Nat, NEW y \in Nat
    PROVE  /\ (x + y) \div c = (x \div c) + (((x % c) + y) \div c)
           /\ (x + y) % c = ((x % c) + y) % c
           /\ ((x % c) + y) \div c \in Nat /\ x \div c \in Nat
  <1> DEFINE q == x \div c
             m == x % c
             p == (m + y) \div c
             l == (m + y) % c
             w == q + p
  <1>1. q \in Nat /\ m \in 0..(c - 1) /\ x = c * q + m
    OBVIOUS
  <1> HIDE DEF q, m
  <1>2. p \in Nat /\ l \in 0..(c - 1) /\ m + y = c * p + l
    <2>1. m + y \in Nat
      BY <1>1
    <2> QED  BY <2>1
  <1> HIDE DEF p, l
  <1>3. x + y = c * w + l /\ w \in Nat /\ x + y \in Nat
    <2>1. c * w = c * q + c * p
      BY <1>1, <1>2
    <2>2. c * q \in Nat /\ c * p \in Nat
      BY <1>1, <1>2
    <2> HIDE DEF w
    <2>3. x + y = c * w + l
      BY <1>1, <1>2, <2>1, <2>2
    <2> QED  BY <1>1, <1>2, <2>3 DEF w
  <1> DEFINE z == x + y
  <1>4. z = c * w + l /\ w \in Nat /\ z \in Nat
    BY <1>3
  <1> HIDE DEF w, z
  <1>5. z \div c = w /\ z % c = l
    BY ONLY <1>2, <1>4, c \in Nat \ {0}, QuotientIs
  <1> QED  BY <1>1, <1>2, <1>5 DEF w, z, p, l, q, m

\* t, written to i, is the chunks of messages 1, 2 and so on, in order.
InOrder(i, t) ==
    \A j \in 1..Len(t) :
        t[j] = <<i, 1 + ((j - 1) \div OutChunks), (j - 1) % OutChunks>>

\* The list of r is what is left to send of e messages when t has been written.
Sends(t, r, e, i) ==
    /\ t \in Seq({i} \X Int \X Int) /\ InOrder(i, t) /\ e \in Nat
    /\ (Len(t) \div OutChunks) + r.out = e /\ Len(t) % OutChunks = r.sent
    /\ r.out = 0 => r.sent = 0

\* Nothing was written of no messages.
LEMMA NothingYet ==
    ASSUME NEW r, NEW i, r.out = 0, r.sent = 0
    PROVE  Sends(<< >>, r, 0, i)
  <1> DEFINE z == 0
  <1>1. z \div OutChunks = 0 /\ z % OutChunks = 0
    <2>1. z \in Nat /\ z \in 0..(OutChunks - 1) /\ OutChunks \in Nat \ {0}
      BY Constants
    <2>2. z = OutChunks * z + z
      BY <2>1
    <2> HIDE DEF z
    <2> QED  BY ONLY <2>1, <2>2, QuotientIs DEF z
  <1>2. Len(<< >>) = z /\ << >> \in Seq({i} \X Int \X Int)
    OBVIOUS
  <1> HIDE DEF z
  <1>3. InOrder(i, << >>)
    BY DEF InOrder
  <1> QED  BY <1>1, <1>2, <1>3 DEF Sends, z

\* The next chunks are written.
LEMMA WriteSends ==
    ASSUME NEW i \in Infos, NEW r \in Rec, NEW t, NEW e, Sends(t, r, e, i),
           NEW n \in 0..Unsent(r)
    PROVE  Sends(t \o Chunks(i, r, e, n), Sent(r, n), e, i)
  <1> DEFINE c == OutChunks
             o == r.out
             s == r.sent
             N == Len(t)
             q == Chunks(i, r, e, n)
             p == (s + n) \div c
             m == (s + n) % c
             new == Sent(r, n)
             u == t \o q
  <1>1. c \in Nat \ {0} /\ o \in Nat /\ s \in 0..(c - 1)
    BY Constants, RecTypes
  <1>2. t \in Seq({i} \X Int \X Int) /\ N \in Nat /\ InOrder(i, t) /\ e \in Nat
        /\ (N \div c) + o = e /\ N % c = s /\ (o = 0 => s = 0)
    BY DEF Sends
  <1>3. Unsent(r) = o * c - s
    BY DEF Unsent
  <1>4. new.out = o - p /\ new.sent = m
    <2> DEFINE o2 == o - p
    <2>1. new = [r EXCEPT !.out = o2, !.sent = m]
      BY DEF Sent
    <2> HIDE DEF o2, m
    <2>2. [r EXCEPT !.out = o2, !.sent = m].out = o2 /\ [r EXCEPT !.out = o2, !.sent = m].sent = m
      BY ONLY r \in Rec DEF Rec
    <2> QED  BY <2>1, <2>2 DEF o2
  <1>5. q = [j \in 1..n |-> <<i, (e - o + 1) + ((s + j - 1) \div c), (s + j - 1) % c>>]
    BY DEF Chunks
  <1> HIDE DEF c, o, s, N, new, q
  <1>6. o * c \in Nat
    BY <1>1
  <1>7. n \in Nat /\ s \in Nat /\ s + n \in Nat /\ s + n <= o * c
    BY <1>1, <1>3, <1>6
  <1>8. p \in 0..o /\ m \in 0..(c - 1) /\ s + n = c * p + m
    <2>1. p \in 0..o
      BY <1>1, <1>7, Quotient
    <2>2. m \in 0..(c - 1) /\ s + n = c * p + m
      BY <1>1, <1>7
    <2> QED  BY <2>1, <2>2
  <1>9. (N + n) \div c = (N \div c) + p /\ (N + n) % c = m /\ N \div c \in Nat
    BY <1>1, <1>2, <1>7, QuotientOfSum
  <1>10. ASSUME NEW j \in 1..n
         PROVE  /\ q[j] = <<i, 1 + ((N + j - 1) \div c), (N + j - 1) % c>>
                /\ q[j] \in {i} \X Int \X Int
    <2> DEFINE y == j - 1
               f == (s + y) \div c
               g == (s + y) % c
    <2>1. y \in Nat /\ s + j - 1 = s + y /\ N + j - 1 = N + y
      BY <1>1, <1>2, <1>7
    <2> HIDE DEF y
    <2>2. (N + y) \div c = (N \div c) + f /\ (N + y) % c = g /\ f \in Nat
      BY <1>1, <1>2, <2>1, QuotientOfSum
    <2>3. g \in Int
      BY <1>1, <1>7, <2>1
    <2>4. q[j] = <<i, (e - o + 1) + f, g>>
      BY <1>5, <2>1
    <2>5. e - o + 1 + f = 1 + ((N + y) \div c) /\ e - o + 1 + f \in Int
      <3> DEFINE x == N \div c
      <3>1. x \in Nat /\ x + o = e
        BY <1>2, <1>9
      <3> HIDE DEF x, f
      <3>2. (N + y) \div c = x + f
        BY <2>2 DEF x
      <3> QED  BY <1>1, <2>2, <3>1, <3>2
    <2>6. (N + j - 1) \div c = (N + y) \div c /\ (N + j - 1) % c = g
      BY <2>1, <2>2
    <2> HIDE DEF f, g
    <2> QED  BY <2>3, <2>4, <2>5, <2>6
  <1>11. q \in Seq({i} \X Int \X Int) /\ Len(q) = n
    <2> DEFINE S == {i} \X Int \X Int
    <2>1. \A j \in 1..n : q[j] \in S
      BY <1>10
    <2> HIDE DEF S
    <2>2. q \in [1..n -> S]
      BY <1>5, <2>1
    <2>3. q \in Seq(S) /\ Len(q) = n
      BY ONLY <1>7, <2>2
    <2> QED  BY <2>3 DEF S
  <1>12. /\ u \in Seq({i} \X Int \X Int) /\ Len(u) = N + n
         /\ \A j \in 1..N : u[j] = t[j]
         /\ \A j \in 1..n : u[N + j] = q[j]
    <2> DEFINE S == {i} \X Int \X Int
    <2>1. t \in Seq(S) /\ q \in Seq(S) /\ Len(q) = n /\ Len(t) = N
      BY <1>2, <1>11 DEF N
    <2> HIDE DEF S
    <2>2. /\ u \in Seq(S) /\ Len(u) = N + n
          /\ \A j \in 1..N : u[j] = t[j]
          /\ \A j \in 1..n : u[N + j] = q[j]
      BY ONLY <2>1
    <2> QED  BY <2>2 DEF S
  <1> HIDE DEF u
  <1>13. InOrder(i, u)
    <2> SUFFICES ASSUME NEW j \in 1..(N + n)
                 PROVE  u[j] = <<i, 1 + ((j - 1) \div c), (j - 1) % c>>
      BY <1>12 DEF InOrder, c
    <2>1. CASE j <= N
      <3>1. j \in 1..N
        BY <1>2, <1>7, <2>1
      <3> QED  BY <1>2, <1>12, <3>1 DEF InOrder, c, N
    <2>2. CASE ~(j <= N)
      <3> DEFINE k == j - N
      <3>1. k \in 1..n /\ N + k = j /\ N + k - 1 = j - 1
        BY <1>2, <1>7, <2>2
      <3> HIDE DEF k
      <3> QED  BY <1>10, <1>12, <3>1
    <2> QED  BY <2>1, <2>2
  <1>14. (N + n) \div c + (o - p) = e
    <2> DEFINE x == N \div c
    <2>1. x \in Nat /\ x + o = e /\ (N + n) \div c = x + p
      BY <1>2, <1>9
    <2> HIDE DEF x
    <2> QED  BY <1>1, <1>8, <2>1
  <1>15. o - p = 0 => m = 0
    <2> SUFFICES ASSUME o - p = 0 PROVE m = 0
      OBVIOUS
    <2>1. p = o /\ c * p = o * c
      BY <1>1, <1>8
    <2> HIDE DEF p, m
    <2> QED  BY <1>6, <1>7, <1>8, <2>1
  <1> HIDE DEF p, m
  <1> QED  BY <1>2, <1>4, <1>9, <1>12, <1>13, <1>14, <1>15 DEF Sends, c, u, q, new

\* A socket that is closed is to be deleted.
Stale(r) == r.tag = "NET_INFO_CLOSED" /\ r.delete_me = 0

Sending(i) ==
    /\ Open(info[i]) => Sends(tx[i], info[i], enq[i], i)
    /\ info[i].tag \in {"none", "freed"} => tx[i] = << >>
    /\ info[i].tag = "none" => enq[i] = 0
    /\ ~Stale(info[i])

SInv == DOMAIN tx = Infos /\ DOMAIN enq = Infos /\ \A i \in Infos : Sending(i)

\* y may take the place of x: as much is left to send, unless it is to be closed.
KeepsOut(y, x) ==
    /\ Open(y) => Open(x) /\ y.out = x.out /\ y.sent = x.sent
    /\ y.tag \in {"none", "freed", "NET_TCP_CONNECTING"} => x.tag = y.tag
    /\ Stale(y) => Stale(x)

\* Only a new Fds_info begins to connect.
NewConnects ==
    \A x \in Infos : info'[x].tag = "NET_TCP_CONNECTING" =>
                        info[x].tag \in {"none", "NET_TCP_CONNECTING"}

\* Nothing is sent.
NothingSent == tx' = tx /\ enq' = enq /\ \A x \in Infos : KeepsOut(info'[x], info[x])

\* A step that sends nothing.
LEMMA NothingSentKept ==
    ASSUME SInv, NothingSent
    PROVE  SInv' /\ NewConnects
  <1>1. ASSUME NEW i \in Infos PROVE Sending(i)'
    <2>1. KeepsOut(info'[i], info[i]) /\ Sending(i) /\ tx' = tx /\ enq' = enq
      BY Constants DEF NothingSent, SInv
    <2> QED  BY <2>1 DEF KeepsOut, Sending, Sends
  <1>2. NewConnects
    BY DEF NothingSent, KeepsOut, NewConnects
  <1> QED  BY <1>1, <1>2 DEF NothingSent, SInv

\* A step that sends on one socket.
LEMMA OneSends ==
    ASSUME SInv, NEW i \in Infos, DOMAIN tx' = Infos, DOMAIN enq' = Infos, Sending(i)',
           \A x \in Infos : x # i => /\ info'[x] = info[x] /\ tx'[x] = tx[x]
                                     /\ enq'[x] = enq[x],
           info'[i].tag = "NET_TCP_CONNECTING" =>
              info[i].tag \in {"none", "NET_TCP_CONNECTING"}
    PROVE  SInv' /\ NewConnects
  <1>1. ASSUME NEW x \in Infos, x # i PROVE Sending(x)'
    <2>1. /\ info'[x] = info[x] /\ tx'[x] = tx[x] /\ enq'[x] = enq[x] /\ Sending(x)
      BY <1>1, Constants DEF SInv
    <2> QED  BY <2>1 DEF Sending
  <1>2. \A x \in Infos : Sending(x)'
    BY <1>1
  <1>3. NewConnects
    BY DEF NewConnects
  <1> QED  BY <1>2, <1>3 DEF SInv

\* A changed Fds_info is put back.
LEMMA PutSends ==
    ASSUME info \in [Infos -> Rec], NEW i \in Infos, NEW r, info' = [info EXCEPT ![i] = r],
           KeepsOut(r, info[i]), tx' = tx, enq' = enq
    PROVE  NothingSent
  <1>1. info'[i] = r /\ \A x \in Infos : x # i => info'[x] = info[x]
    OBVIOUS
  <1>2. \A x \in Infos : KeepsOut(info[x], info[x])
    BY DEF KeepsOut
  <1> QED  BY <1>1, <1>2 DEF NothingSent

\* Closing at once.
LEMMA CloseNowSends ==
    ASSUME info \in [Infos -> Rec], NEW i \in Infos, NEW r \in Rec, CloseNow(i, r)
    PROVE  /\ tx' = tx /\ info'[i].delete_me = 2 /\ info'[i].tag = "NET_INFO_CLOSED"
           /\ \A x \in Infos : x # i => info'[x] = info[x]
           /\ enq' = enq => NothingSent
  <1> DEFINE c == [r EXCEPT !.delete_me = 2, !.tag = "NET_INFO_CLOSED"]
  <1>1. info' = [info EXCEPT ![i] = c] /\ tx' = tx
    BY DEF CloseNow
  <1>2. c.delete_me = 2 /\ c.tag = "NET_INFO_CLOSED"
    BY ONLY r \in Rec DEF Rec
  <1> HIDE DEF c
  <1>3. KeepsOut(c, info[i])
    BY <1>2 DEF Open, KeepsOut, Stale
  <1>4. info'[i] = c /\ \A x \in Infos : x # i => info'[x] = info[x]
    BY <1>1
  <1> QED  BY <1>1, <1>2, <1>3, <1>4, PutSends

\* close_socket, at once or when the socket can be written.
LEMMA CloseSends ==
    ASSUME info \in [Infos -> Rec], NEW i \in Infos, NEW r \in Rec, Live(r),
           NEW now, close_socket(i, r, now), enq' = enq
    PROVE  NothingSent
  <1> DEFINE s == Reset(r)
             c == [s EXCEPT !.delete_me = 1]
  <1>1. s \in Rec /\ s.tag = r.tag
    BY ResetRec
  <1>2. CASE ~now /\ r.tag \in Connected
    <2>1. info' = [info EXCEPT ![i] = c] /\ tx' = tx
      BY <1>2 DEF close_socket, Put
    <2> HIDE DEF s
    <2>2. c.delete_me = 1 /\ c.tag = s.tag
      BY <1>1 DEF Rec
    <2> HIDE DEF c
    <2>3. KeepsOut(c, info[i])
      BY <1>1, <1>2, <2>2 DEF Open, KeepsOut, Stale, Connected
    <2> QED  BY <2>1, <2>3, PutSends
  <1>3. CASE ~(~now /\ r.tag \in Connected)
    <2>1. CloseNow(i, s)
      BY <1>3 DEF close_socket
    <2> HIDE DEF s
    <2> QED  BY <1>1, <2>1, CloseNowSends
  <1> QED  BY <1>2, <1>3

\* Fds_info::send(false): the slot of i has its socket.
LEMMA SendNonblockingSends ==
    ASSUME IInv, SInv, NEW i \in Infos, Live(info[i]), NEW r \in Rec, Succeeds(r, i),
           r.tag # "NET_TCP_CONNECTING", ~Stale(r), NEW e, Open(r) => Sends(tx[i], r, e, i),
           NEW clear, SendNonblocking(i, r, e, clear), DOMAIN enq' = Infos, enq'[i] = e,
           \A x \in Infos : x # i => enq'[x] = enq[x]
    PROVE  SInv' /\ NewConnects
  <1> DEFINE k == r.fds_index
  <1>1. i \in Infos /\ info \in [Infos -> Rec] /\ DOMAIN tx = Infos
    BY Constants, CoreTypes DEF IInv, SInv
  <1>2. Live(r) /\ r.tag \notin {"none", "freed"}
    BY DEF Succeeds, Live
  <1>3. r.tag # "NET_INFO_CLOSED" => fds[k].fd = i
    <2>1. Core(fds, fds_info, info, net, stream)
      BY DEF IInv
    <2>2. k \in 1..Len(fds_info) /\ fds_info[k] = i
      BY <1>1, <2>1, Slotted DEF Succeeds
    <2>3. fds[k].fd = IF info[fds_info[k]].tag = "NET_INFO_CLOSED" THEN INVALID_SOCKET
                      ELSE fds_info[k]
      BY <2>1, <2>2, SlotInUse
    <2> QED  BY <2>2, <2>3 DEF Succeeds
  <1>4. CASE Put(i, r, fds)
    <2>1. info' = [info EXCEPT ![i] = r] /\ tx' = tx
      BY <1>4 DEF Put
    <2>2. info'[i] = r /\ \A x \in Infos : x # i => info'[x] = info[x]
      BY <1>1, <2>1
    <2>3. Sending(i)'
      BY <1>2, <2>1, <2>2 DEF Sending
    <2> QED  BY <1>1, <2>1, <2>2, <2>3, OneSends
  <1>5. ASSUME NEW n \in 0..Unsent(r), r.tag # "NET_INFO_CLOSED",
               Write(i, r, e, fds[k].fd, n)
        PROVE  SInv' /\ NewConnects
    <2> DEFINE s == Sent(r, n)
               u == tx[i] \o Chunks(i, r, e, n)
    <2>1. info' = [info EXCEPT ![i] = s] /\ tx' = [tx EXCEPT ![i] = u]
      BY <1>3, <1>5 DEF Write
    <2>2. s.tag = r.tag /\ s.delete_me = r.delete_me
      BY SentRec
    <2>3. Open(r) => Sends(u, s, e, i)
      BY WriteSends
    <2> HIDE DEF s, u
    <2>4. info'[i] = s /\ tx'[i] = u /\ DOMAIN tx' = Infos
          /\ \A x \in Infos : x # i => info'[x] = info[x] /\ tx'[x] = tx[x]
      BY <1>1, <2>1
    <2>5. Sending(i)'
      BY <1>2, <2>2, <2>3, <2>4 DEF Sending, Open, Stale
    <2> QED  BY <2>2, <2>4, <2>5, OneSends
  <1>6. CASE close_socket(i, r, TRUE)
    <2>1. CloseNow(i, Reset(r)) /\ Reset(r) \in Rec
      BY <1>6, ResetRec DEF close_socket
    <2>2. /\ tx' = tx /\ info'[i].delete_me = 2 /\ info'[i].tag = "NET_INFO_CLOSED"
          /\ \A x \in Infos : x # i => info'[x] = info[x]
      BY <1>1, <2>1, CloseNowSends
    <2>3. Sending(i)'
      BY <2>2 DEF Sending, Open, Stale
    <2> QED  BY <1>1, <2>2, <2>3, OneSends
  <1> QED  BY <1>4, <1>5, <1>6 DEF SendNonblocking

\* A message that is given to enqueue.
LEMMA EnqueueSends ==
    ASSUME IInv, SInv, NEW i \in Infos, Live(info[i]), enqueue(i, info[i])
    PROVE  SInv' /\ NewConnects
  <1> DEFINE r == info[i]
             e == enq[i] + 1
  <1>1. r \in Rec /\ info \in [Infos -> Rec] /\ i \in Infos /\ DOMAIN tx = Infos
    BY Constants, CoreTypes DEF IInv, SInv
  <1>2. /\ DOMAIN enq' = Infos /\ enq'[i] = e
        /\ \A x \in Infos : x # i => enq'[x] = enq[x]
    BY <1>1 DEF enqueue, SInv
  <1>3. Sending(i)
    BY DEF SInv
  <1>4. r.out \in Nat
    BY <1>1, RecTypes
  <1>5. CASE r.out = 0 /\ r.tag # "NET_TCP_CONNECTING"
    <2> DEFINE x == 1
               y == 0
               s == [r EXCEPT !.out = x, !.sent = y]
               cl == FALSE
    <2>1. SendNonblocking(i, s, e, cl)
      BY <1>5 DEF enqueue
    <2>2. x \in Nat /\ y \in 0..(OutChunks - 1)
      BY Constants
    <2>3. /\ s \in Rec /\ s.tag = r.tag /\ s.delete_me = r.delete_me
          /\ s.fds_index = r.fds_index /\ s.out = x /\ s.sent = y
      <3> HIDE DEF r, x, y
      <3> QED  BY ONLY <1>1, <2>2 DEF Rec
    <2>4. Open(s) => Sends(tx[i], s, e, i)
      <3> SUFFICES ASSUME Open(s) PROVE Sends(tx[i], s, e, i)
        OBVIOUS
      <3>1. Sends(tx[i], r, enq[i], i)
        BY <1>3, <2>3 DEF Sending, Open
      <3> DEFINE w == Len(tx[i]) \div OutChunks
      <3>2. enq[i] \in Nat /\ w + 0 = enq[i] /\ Len(tx[i]) % OutChunks = 0
            /\ tx[i] \in Seq({i} \X Int \X Int) /\ InOrder(i, tx[i])
        BY <1>5, <3>1 DEF Sends
      <3>3. w \in Nat
        BY <3>2, Constants
      <3> HIDE DEF w
      <3>4. w + 1 = e /\ e \in Nat
        BY <3>2, <3>3
      <3> HIDE DEF e, s
      <3> QED  BY <2>3, <3>2, <3>4 DEF Sends, w, x, y
    <2>5. ~Stale(s) /\ Succeeds(s, i)
      BY <1>3, <2>3 DEF Sending, Stale, Succeeds
    <2> HIDE DEF s, cl, e
    <2> QED  BY <1>2, <1>5, <2>1, <2>3, <2>4, <2>5, SendNonblockingSends
  <1>6. CASE ~(r.out = 0 /\ r.tag # "NET_TCP_CONNECTING")
    <2> DEFINE n == r.out + 1
               s == [r EXCEPT !.out = n]
    <2>1. info' = [info EXCEPT ![i] = s] /\ tx' = tx
      BY <1>6 DEF enqueue, Put
    <2>2. s.tag = r.tag /\ s.delete_me = r.delete_me /\ s.out = n /\ s.sent = r.sent
      <3> HIDE DEF r, n
      <3> QED  BY ONLY <1>1 DEF Rec
    <2>3. Open(s) => Sends(tx[i], s, e, i)
      <3> SUFFICES ASSUME Open(s) PROVE Sends(tx[i], s, e, i)
        OBVIOUS
      <3>1. Sends(tx[i], r, enq[i], i)
        BY <1>3, <2>2 DEF Sending, Open
      <3> DEFINE w == Len(tx[i]) \div OutChunks
                 o == r.out
      <3>2. enq[i] \in Nat /\ w + o = enq[i] /\ Len(tx[i]) % OutChunks = r.sent
            /\ tx[i] \in Seq({i} \X Int \X Int) /\ InOrder(i, tx[i])
        BY <3>1 DEF Sends
      <3>3. w \in Nat
        <4> DEFINE l == Len(tx[i])
        <4>1. l \in Nat
          BY <3>2
        <4> HIDE DEF l
        <4>2. l \div OutChunks \in Nat
          BY <4>1, Constants
        <4> QED  BY <4>2 DEF l
      <3>5. o \in Nat /\ n = o + 1
        BY <1>4
      <3> HIDE DEF w, o, n
      <3>6. e = enq[i] + 1
        OBVIOUS
      <3> HIDE DEF e
      <3>4. w + n = e /\ e \in Nat /\ n # 0
        BY ONLY <3>2, <3>3, <3>5, <3>6
      <3> HIDE DEF e, s
      <3> QED  BY <2>2, <3>2, <3>4 DEF Sends, w
    <2> HIDE DEF s, e
    <2>4. info'[i] = s /\ \A x \in Infos : x # i => info'[x] = info[x]
      BY <1>1, <2>1
    <2>5. Sending(i)'
      BY <1>2, <1>3, <2>1, <2>2, <2>3, <2>4 DEF Sending, Stale, Live
    <2> QED  BY <1>1, <1>2, <2>1, <2>2, <2>4, <2>5, OneSends
  <1> QED  BY <1>5, <1>6

\* A new Fds_info has nothing to send.
LEMMA NewSends ==
    ASSUME IInv, SInv, NEW i \in Infos, info[i].tag = "none", NEW tag, NEW pollout,
           tag \notin {"none", "freed", "NET_INFO_CLOSED"}, NewInfo(i, tag, pollout),
           tx' = tx, enq' = enq
    PROVE  SInv' /\ NewConnects
  <1> DEFINE New(wt) == Fds_info(tag, Size + 1, wt)
  <1>1. PICK wt : info' = [info EXCEPT ![i] = New(wt)]
    BY DEF NewInfo
  <1>2. info \in [Infos -> Rec] /\ DOMAIN tx = Infos /\ DOMAIN enq = Infos /\ Sending(i)
    BY CoreTypes DEF IInv, SInv
  <1>3. New(wt).tag = tag /\ New(wt).out = 0 /\ New(wt).sent = 0
    BY DEF Fds_info
  <1> HIDE DEF New
  <1>4. info'[i] = New(wt) /\ \A x \in Infos : x # i => info'[x] = info[x]
    BY <1>1, <1>2
  <1>5. tx[i] = << >> /\ enq[i] = 0
    BY <1>2 DEF Sending
  <1>6. Sends(<< >>, New(wt), 0, i)
    BY <1>3, NothingYet
  <1>7. Sending(i)'
    BY <1>3, <1>4, <1>5, <1>6 DEF Sending, Stale
  <1> QED  BY <1>2, <1>4, <1>7, OneSends

\* When poll() reports that something can be read, the socket does not wait for its
\* connection: poll() reports that it can be written first.
NotConnecting(ev, fi, inf) ==
    \A k \in 1..Len(ev) : ev[k] = "POLLIN" => inf[fi[k]].tag # "NET_TCP_CONNECTING"

PInv ==
    \A j \in 1..Len(calls) :
        calls[j].f = "recv" /\ calls[j].ph = "scan" =>
            NotConnecting(calls[j].ev, fds_info, info)

\* The pointer of a blocking send to its slot still leads to its own socket, or to none.
SlotKept ==
    SendFrame /\ info[Sender].tag # "freed" =>
        fds[Head(calls).k].fd \in {Sender, INVALID_SOCKET}

\* User code sends only by enqueue.
LEMMA UserSends ==
    ASSUME IInv, SInv, User
    PROVE  SInv' /\ NewConnects
  <1>0. info \in [Infos -> Rec] /\ DOMAIN tx = Infos /\ DOMAIN enq = Infos
    BY CoreTypes DEF IInv, SInv
  <1>1. ASSUME NEW i \in Clients, create_tcp_client(i) PROVE SInv' /\ NewConnects
    <2>1. PICK up \in BOOLEAN :
            NewInfo(i, IF up THEN "NET_TCP_CLIENT" ELSE "NET_TCP_CONNECTING", ~up)
      BY <1>1 DEF create_tcp_client
    <2> DEFINE tag == IF up THEN "NET_TCP_CLIENT" ELSE "NET_TCP_CONNECTING"
               p == ~up
    <2>2. NewInfo(i, tag, p) /\ tag \notin {"none", "freed", "NET_INFO_CLOSED"}
      BY <2>1
    <2> HIDE DEF tag, p
    <2>3. info[i].tag = "none" /\ tx' = tx /\ enq' = enq /\ i \in Infos
      BY <1>1, Constants DEF create_tcp_client
    <2> QED  BY <2>2, <2>3, NewSends
  <1>2. ASSUME NEW i \in Tcp, NEW block \in BOOLEAN, send_tcp(i, block)
        PROVE  SInv' /\ NewConnects
    <2>1. i \in Infos /\ Live(info[i])
      BY <1>2, InArray DEF send_tcp
    <2>2. CASE enqueue(i, info[i])
      BY <2>1, <2>2, EnqueueSends
    <2>3. CASE info' = info /\ tx' = tx /\ enq' = enq
      <3>1. NothingSent
        BY <2>3 DEF NothingSent, KeepsOut
      <3> QED  BY <3>1, NothingSentKept
    <2> QED  BY <1>2, <2>2, <2>3 DEF send_tcp
  <1>3. ASSUME NEW i \in Tcp, NEW now \in BOOLEAN, NEW keep \in BOOLEAN,
               CloseByUser(i, now, keep)
        PROVE  SInv' /\ NewConnects
    <2> DEFINE r == info[i]
               s == [r EXCEPT !.owner = keep]
    <2>1. i \in Range(fds_info) /\ enq' = enq /\ close_socket(i, s, now)
      BY <1>3 DEF CloseByUser
    <2>2. i \in Infos /\ Live(r) /\ r \in Rec
      BY <2>1, InArray
    <2>3. s \in Rec /\ s.tag = r.tag
      <3> HIDE DEF r
      <3> QED  BY ONLY <2>2, keep \in BOOLEAN DEF Rec
    <2> HIDE DEF s
    <2>4. NothingSent
      BY <1>0, <2>1, <2>2, <2>3, CloseSends DEF Live
    <2> QED  BY <2>4, NothingSentKept
  <1> QED  BY <1>1, <1>2, <1>3 DEF User

\* A blocking send writes to its own socket, as long as its pointer is right.
LEMMA BlockedSends ==
    ASSUME IInv, SInv, SlotKept, Blocked
    PROVE  SInv' /\ NewConnects
  <1>1. SendFrame
    BY DEF Blocked, SendPolls, SendSelects, SendWrites, SendDone, SendFreed
  <1>2. Sender \in Infos /\ info[Sender].tag # "none" /\ info \in [Infos -> Rec]
        /\ DOMAIN tx = Infos /\ DOMAIN enq = Infos
    BY <1>1, SenderFacts, CoreTypes DEF IInv, SInv
  <1> DEFINE i == Sender
             r == info[i]
  <1>3. ASSUME info' = info, tx' = tx, enq' = enq PROVE SInv' /\ NewConnects
    <2>1. NothingSent
      BY <1>3 DEF NothingSent, KeepsOut
    <2> QED  BY <2>1, NothingSentKept
  <1>4. CASE SendPolls \/ SendFreed
    BY <1>3, <1>4 DEF SendPolls, SendFreed, o2n_recv, os
  <1>5. CASE SendSelects
    <2>1. tx' = tx /\ enq' = enq /\ r.tag = "NET_TCP_CONNECTING"
      BY <1>5 DEF SendSelects, os
    <2>2. CASE info' = [info EXCEPT ![Sender].tag = "NET_TCP_CLIENT"]
      <3> DEFINE t == "NET_TCP_CLIENT"
                 s == [r EXCEPT !.tag = t]
      <3>1. info' = [info EXCEPT ![i] = s] /\ r \in Rec /\ i \in Infos
        BY <1>2, <2>2
      <3>2. t \notin {"none", "freed", "NET_TCP_CONNECTING", "NET_INFO_CLOSED"}
        OBVIOUS
      <3>3. s.out = r.out /\ s.sent = r.sent /\ s.tag = t /\ s.delete_me = r.delete_me
        <4> HIDE DEF r, t
        <4> QED  BY ONLY <3>1 DEF Rec
      <3>4. KeepsOut(s, info[i])
        BY <2>1, <3>2, <3>3 DEF KeepsOut, Open, Stale
      <3> HIDE DEF s, i
      <3>5. NothingSent
        BY <1>2, <2>1, <3>1, <3>4, PutSends
      <3> QED  BY <3>5, NothingSentKept
    <2> QED  BY <1>3, <1>5, <2>1, <2>2 DEF SendSelects
  <1>6. CASE SendWrites
    <2>1. Live(r) /\ r \in Rec /\ enq' = enq /\ r.tag # "NET_TCP_CONNECTING"
          /\ r.tag # "freed"
      BY <1>2, <1>6 DEF SendWrites, Live
    <2> DEFINE fd == fds[Head(calls).k].fd
               e == enq[i]
    <2>2. ASSUME NEW n \in 1..Unsent(r), Write(i, r, e, fd, n) PROVE SInv' /\ NewConnects
      <3>1. fd = i
        <4>1. fd \in {i, INVALID_SOCKET}
          BY <1>1, <2>1 DEF SlotKept
        <4>2. State(fd) \in {"up", "eof"}
          BY <2>2 DEF Write
        <4> QED  BY <4>1, <4>2 DEF State
      <3>2. n \in 0..Unsent(r)
        <4>1. Unsent(r) \in Int
          <5>1. r.out \in Nat /\ r.sent \in Int /\ OutChunks \in Nat
            BY <2>1, RecTypes, Constants
          <5> HIDE DEF r
          <5> QED  BY <5>1 DEF Unsent
        <4> QED  BY <2>2, <4>1
      <3> DEFINE s == Sent(r, n)
                 u == tx[i] \o Chunks(i, r, e, n)
      <3>3. info' = [info EXCEPT ![i] = s] /\ tx' = [tx EXCEPT ![i] = u]
        BY <2>2, <3>1 DEF Write
      <3>4. s.tag = r.tag /\ s.delete_me = r.delete_me
        BY <2>1, <3>2, SentRec
      <3>5. Sending(i)
        BY <1>2 DEF SInv
      <3>6. Open(r) => Sends(u, s, e, i)
        <4>1. ASSUME Open(r) PROVE Sends(u, s, e, i)
          <5>1. Sends(tx[i], r, e, i)
            BY <3>5, <4>1 DEF Sending
          <5> HIDE DEF i, r, e
          <5> QED  BY <1>2, <2>1, <3>2, <5>1, WriteSends DEF i
        <4> QED  BY <4>1
      <3> HIDE DEF s, u
      <3>7. info'[i] = s /\ tx'[i] = u /\ DOMAIN tx' = Infos
            /\ \A x \in Infos : x # i => info'[x] = info[x] /\ tx'[x] = tx[x]
        BY <1>2, <3>3
      <3>8. ASSUME NEW y \in Infos, y = i PROVE SInv' /\ NewConnects
        <4>1. Sending(y)'
          BY <2>1, <3>4, <3>5, <3>6, <3>7, <3>8 DEF Sending, Open, Stale, Live
        <4> QED  BY <1>2, <2>1, <3>4, <3>7, <3>8, <4>1, OneSends
      <3> QED  BY <1>2, <3>8
    <2>3. CASE close_socket(i, r, TRUE)
      <3>1. NothingSent
        BY <1>2, <2>1, <2>3, CloseSends
      <3> QED  BY <3>1, NothingSentKept
    <2> QED  BY <1>6, <2>2, <2>3 DEF SendWrites
  <1>7. CASE SendDone
    <2>1. Live(r) /\ enqueue(i, r)
      BY <1>2, <1>7 DEF SendDone, Live
    <2> HIDE DEF i
    <2> QED  BY <1>2, <2>1, EnqueueSends DEF i
  <1> QED  BY <1>4, <1>5, <1>6, <1>7 DEF Blocked

\* What was written to a deleted socket is forgotten with it.
LEMMA FreeOneSends ==
    ASSUME IInv, SInv, FreeOne
    PROVE  SInv' /\ NewConnects
  <1> DEFINE k == CHOOSE x \in Deleted : \A j \in Deleted : x <= j
             d == fds_info[k]
             l == fds_info[Size]
             m == info[l]
             n == [m EXCEPT !.fds_index = k]
             r == Fds_info("freed", 0, "WRITE_O2")
  <1>1. Delete(k) /\ Deleted # {} /\ enq' = enq /\ Current("recv")
    BY DEF FreeOne, Freeing
  <1>2. Core(fds, fds_info, info, net, stream)
    BY DEF IInv
  <1>3. info \in [Infos -> Rec] /\ DOMAIN tx = Infos /\ DOMAIN enq = Infos
        /\ Len(fds_info) \in Nat /\ Size = Len(fds_info)
    BY <1>2, CoreTypes DEF Size, SInv
  <1>4. k \in 1..Size
    <2>1. Head(calls).k \in Nat \ {0}
      BY <1>1, RecvFacts
    <2>2. Deleted \subseteq Nat /\ Deleted \subseteq 1..Size
      BY <1>3, <2>1 DEF Deleted
    <2>3. \E x \in Deleted : \A j \in Deleted : x <= j
      BY <1>1, <2>2, Least
    <2>4. k \in Deleted
      BY <2>3
    <2> HIDE DEF k
    <2> QED  BY <2>2, <2>4
  <1> HIDE DEF k
  <1>5. d \in Infos /\ l \in Infos
    <2>1. Size \in 1..Size
      BY <1>3, <1>4
    <2> QED  BY <1>2, <1>3, <1>4, <2>1, SlotInUse
  <1>6. /\ tx' = [tx EXCEPT ![d] = << >>]
        /\ info' = [[info EXCEPT ![l] = n] EXCEPT ![d] = r]
    BY <1>1, <1>3, <1>5 DEF Delete
  <1>7. r.tag = "freed"
    BY DEF Fds_info
  <1>8. KeepsOut(n, m) /\ n.tag = m.tag
    <2>1. m \in Rec
      BY <1>3, <1>5
    <2> HIDE DEF m
    <2>2. /\ n.out = m.out /\ n.sent = m.sent /\ n.tag = m.tag /\ n.delete_me = m.delete_me
      BY ONLY <2>1 DEF Rec
    <2> QED  BY <2>2 DEF KeepsOut, Open, Stale
  <1> HIDE DEF n, r
  <1>9. /\ info'[d] = r /\ tx'[d] = << >>
        /\ \A x \in Infos : x # d => /\ tx'[x] = tx[x]
                                     /\ ((info'[x] = n /\ x = l) \/ info'[x] = info[x])
    BY <1>3, <1>5, <1>6
  <1>10. ASSUME NEW x \in Infos, x # d PROVE KeepsOut(info'[x], info[x])
    BY <1>8, <1>9, <1>10 DEF KeepsOut
  <1>11. ASSUME NEW x \in Infos PROVE Sending(x)'
    <2>1. CASE x = d
      <3>1. info'[x].tag = "freed" /\ tx'[x] = << >>
        BY <1>7, <1>9, <2>1
      <3> QED  BY <3>1 DEF Sending, Open, Stale
    <2>2. CASE x # d
      <3>1. KeepsOut(info'[x], info[x]) /\ Sending(x) /\ tx'[x] = tx[x] /\ enq' = enq
        BY <1>1, <1>9, <1>10, <2>2 DEF SInv
      <3> QED  BY <3>1 DEF KeepsOut, Sending, Sends
    <2> QED  BY <2>1, <2>2
  <1>12. NewConnects
    <2> SUFFICES ASSUME NEW x \in Infos, info'[x].tag = "NET_TCP_CONNECTING"
                 PROVE  info[x].tag \in {"none", "NET_TCP_CONNECTING"}
      BY DEF NewConnects
    <2>1. x # d
      BY <1>7, <1>9
    <2> QED  BY <1>10, <2>1 DEF KeepsOut
  <1> QED  BY <1>1, <1>3, <1>6, <1>11, <1>12 DEF SInv

\* In the loop of o2n_recv, a connection that can be written goes on sending; reset()
\* drops messages only of sockets that are closed.
LEMMA ScanSends ==
    ASSUME IInv, SInv, PInv, Scan, ~ReadSome
    PROVE  SInv' /\ NewConnects
  <1>1. info \in [Infos -> Rec] /\ enq' = enq /\ DOMAIN enq = Infos
    BY CoreTypes DEF IInv, SInv, Scan, ScanHup, ScanOut, Accept, UdpReceive, ReadFails,
                     ReadClosed, ScanDone, os
  <1> DEFINE i == Fi
             r == info[i]
  <1>2. ASSUME NEW e, Event(e)
        PROVE  i \in Infos /\ Live(r) /\ r \in Rec /\ Succeeds(r, i) /\ Sending(i)
    BY <1>2, ScanFacts DEF SInv
  <1>3. CASE info' = info /\ tx' = tx
    <2>1. NothingSent
      BY <1>1, <1>3 DEF NothingSent, KeepsOut
    <2> QED  BY <2>1, NothingSentKept
  <1>4. ASSUME NEW c \in Rec, Live(c), i \in Infos, close_socket(i, c, TRUE)
        PROVE  SInv' /\ NewConnects
    <2>1. NothingSent
      BY <1>1, <1>4, CloseSends
    <2> QED  BY <2>1, NothingSentKept
  <1>5. ASSUME NEW c, i \in Infos, info' = [info EXCEPT ![i] = c], KeepsOut(c, info[i]),
               tx' = tx
        PROVE  SInv' /\ NewConnects
    <2> HIDE DEF i
    <2>1. NothingSent
      BY <1>1, <1>5, PutSends
    <2> QED  BY <2>1, NothingSentKept
  <1>6. CASE ScanHup
    BY <1>2, <1>4, <1>6 DEF ScanHup
  <1>7. CASE ScanOut
    <2> DEFINE u == IF r.tag = "NET_TCP_CONNECTING" THEN [r EXCEPT !.tag = "NET_TCP_CLIENT"]
                    ELSE r
               cl == TRUE
               e == enq[i]
    <2>1. /\ Event("POLLOUT")
          /\ \/ \E f : Put(i, u, f)
             \/ CloseNow(i, u)
             \/ SendNonblocking(i, u, e, cl)
      BY <1>7 DEF ScanOut
    <2>2. i \in Infos /\ Live(r) /\ r \in Rec /\ Succeeds(r, i) /\ Sending(i)
      BY <1>2, <2>1
    <2>3. /\ u \in Rec /\ KeepsOut(u, r) /\ Succeeds(u, i) /\ u.tag # "NET_TCP_CONNECTING"
          /\ ~Stale(u)
      <3>1. CASE r.tag = "NET_TCP_CONNECTING"
        <4> DEFINE t == "NET_TCP_CLIENT"
                   c == [r EXCEPT !.tag = t]
        <4>1. /\ t \in Tags /\ u = c
              /\ t \notin {"none", "freed", "NET_TCP_CONNECTING", "NET_INFO_CLOSED"}
          BY <3>1 DEF Tags
        <4> HIDE DEF r, t, u
        <4>2. /\ c.out = r.out /\ c.sent = r.sent /\ c.tag = t /\ c.delete_me = r.delete_me
              /\ c.fds_index = r.fds_index /\ c \in Rec
          BY ONLY <2>2, <4>1 DEF Rec
        <4> HIDE DEF c
        <4>3. KeepsOut(u, r) /\ ~Stale(u) /\ u.tag # "NET_TCP_CONNECTING"
          BY <3>1, <4>1, <4>2 DEF KeepsOut, Open, Stale
        <4>4. Succeeds(u, i)
          BY <3>1, <4>1, <4>2 DEF Succeeds, r, t
        <4> QED  BY <4>1, <4>2, <4>3, <4>4
      <3>2. CASE r.tag # "NET_TCP_CONNECTING"
        <4>1. u = r
          BY <3>2
        <4> QED  BY <2>2, <3>2, <4>1 DEF KeepsOut, Sending
      <3> QED  BY <3>1, <3>2
    <2>4. Open(u) => Sends(tx[i], u, e, i)
      BY <2>2, <2>3 DEF KeepsOut, Sending, Sends
    <2>5. CASE \E f : Put(i, u, f)
      <3>1. info' = [info EXCEPT ![i] = u] /\ tx' = tx /\ KeepsOut(u, info[i])
        BY <2>3, <2>5 DEF Put
      <3> HIDE DEF u, i
      <3> QED  BY <1>5, <2>2, <3>1
    <2>6. CASE CloseNow(i, u)
      <3> HIDE DEF u, i
      <3>1. NothingSent
        BY <1>1, <2>2, <2>3, <2>6, CloseNowSends
      <3> QED  BY <3>1, NothingSentKept
    <2>7. CASE SendNonblocking(i, u, e, cl)
      <3>1. DOMAIN enq' = Infos /\ enq'[i] = e /\ \A x \in Infos : x # i => enq'[x] = enq[x]
        BY <1>1
      <3>2. Live(info[i])
        BY <2>2
      <3> HIDE DEF u, i, e, cl
      <3> QED  BY <2>2, <2>3, <2>4, <2>7, <3>1, <3>2, SendNonblockingSends
    <2> QED  BY <2>1, <2>5, <2>6, <2>7
  <1>8. CASE Accept
    <2> DEFINE c == Head(stream[srv])
    <2>1. /\ Event("POLLIN") /\ info[Fi].tag = "NET_TCP_SERVER"
          /\ \/ NewInfo(c, "NET_TCP_CONNECTION", FALSE) /\ tx' = tx
             \/ close_socket(i, r, TRUE)
      BY <1>8 DEF Accept
    <2>2. CASE NewInfo(c, "NET_TCP_CONNECTION", FALSE) /\ tx' = tx
      <3> DEFINE tag == "NET_TCP_CONNECTION"
                 p == FALSE
      <3>1. c \in Accepts /\ info[c].tag = "none"
        BY <2>1, AcceptedIsNew
      <3>2. /\ NewInfo(c, tag, p) /\ tag \notin {"none", "freed", "NET_INFO_CLOSED"}
            /\ c \in Infos
        BY <2>2, <3>1, Constants
      <3> HIDE DEF c, tag, p
      <3> QED  BY <1>1, <2>2, <3>1, <3>2, NewSends
    <2>3. CASE close_socket(i, r, TRUE)
      BY <1>2, <1>4, <2>1, <2>3
    <2> QED  BY <2>1, <2>2, <2>3
  <1>9. CASE UdpReceive
    <2>1. Event("POLLIN") /\ ((info' = info /\ tx' = tx) \/ close_socket(i, r, TRUE))
      BY <1>9 DEF UdpReceive
    <2> QED  BY <1>2, <1>3, <1>4, <2>1
  <1>10. CASE ReadFails
    <2>1. Event("POLLIN") /\ close_socket(i, message_cleanup(r), TRUE)
      BY <1>10 DEF ReadFails
    <2>2. message_cleanup(r) \in Rec /\ Live(message_cleanup(r)) /\ i \in Infos
      BY <1>2, <2>1, CleanedRec DEF Live
    <2> QED  BY <1>4, <2>1, <2>2
  <1>11. CASE ReadClosed
    <2> DEFINE c == Reset(r)
               h == Head(calls)
    <2>1. Event("POLLIN") /\ info' = [info EXCEPT ![i] = c] /\ tx' = tx
          /\ r.tag \notin Connected \cup {"NET_TCP_SERVER", "NET_UDP_SERVER"}
      BY <1>11 DEF ReadClosed, Put
    <2>2. i \in Infos /\ Live(r) /\ r \in Rec /\ ~Stale(r)
      BY <1>2, <2>1 DEF Sending
    <2>3. r.tag # "NET_TCP_CONNECTING"
      <3>1. calls # << >> /\ h.f = "recv" /\ h.ph = "scan"
        BY <2>1 DEF Event, Scanning, Current
      <3>2. calls \in Seq(Frame)
        BY DEF IInv, Frames
      <3>3. 1 \in 1..Len(calls) /\ calls[1] = h
        BY <3>1, <3>2
      <3>4. NotConnecting(h.ev, fds_info, info)
        BY <3>1, <3>3 DEF PInv
      <3>5. h.k \in 1..Len(h.ev) /\ h.ev[h.k] = "POLLIN"
        BY <2>1, ScanFacts
      <3> QED  BY <3>4, <3>5 DEF NotConnecting, Fi
    <2>4. r.tag = "NET_INFO_CLOSED" /\ r.delete_me # 0
      <3>1. r.tag \in Tags
        BY <2>2, RecTypes
      <3>2. r.tag = "NET_INFO_CLOSED"
        BY <2>1, <2>2, <2>3, <3>1 DEF Tags, Connected, Live
      <3> QED  BY <2>2, <3>2 DEF Stale
    <2>5. c.tag = r.tag /\ c.delete_me = r.delete_me
      <3> DEFINE f == FALSE
                 z == 0
                 y == [r EXCEPT !.in_message = f, !.out = z]
      <3>1. c = y
        BY DEF Reset
      <3> HIDE DEF r, f, z
      <3>2. y.tag = r.tag /\ y.delete_me = r.delete_me
        BY ONLY <2>2 DEF Rec
      <3> QED  BY <3>1, <3>2
    <2> HIDE DEF c
    <2>6. KeepsOut(c, info[i])
      BY <2>4, <2>5 DEF KeepsOut, Open, Stale
    <2> QED  BY <1>5, <2>1, <2>2, <2>6
  <1>12. CASE ScanDone
    BY <1>3, <1>12 DEF ScanDone, os
  <1> QED  BY <1>6, <1>7, <1>8, <1>9, <1>10, <1>11, <1>12 DEF Scan

\* What ReadSome does to the Fds_info and to the calls.
LEMMA ReadSomeShape ==
    ASSUME ReadSome
    PROVE  /\ \E h, b, l :
                 LET new == Read(info[Fi], h, b, l)
                 IN  \/ CloseNow(Fi, Reset(message_cleanup(new)))
                     \/ Put(Fi, message_cleanup(new), fds)
                     \/ Put(Fi, new, fds)
           /\ \/ calls' = Next_k
              \/ calls' = <<[f |-> "handler", i |-> Fi]>> \o Next_k
  <1> DEFINE r == info[Fi]
             s == stream[Fi]
             Length(h) == IF h > 0 /\ r.in_length_got + h = LengthChunks
                          THEN s[h].length ELSE r.in_length
             New(h, b) == Read(r, h, b, Length(h))
             Whole(h, b) == New(h, b).in_message /\ New(h, b).in_msg_got = Length(h)
  <1>1. PICK h \in 0..(LengthChunks - r.in_length_got), b \in 0..MaxLength :
            /\ h + b > 0 /\ h + b <= Len(s)
            /\ r.in_length_got < LengthChunks => h > 0
            /\ r.in_length_got + h < LengthChunks => b = 0
            /\ r.in_length_got = LengthChunks => r.in_message
            /\ /\ Length(h) <= MaxLength
               /\ New(h, b).in_message => New(h, b).in_msg_got <= Length(h)
               /\ stream' = [stream EXCEPT ![Fi] = SubSeq(s, h + b + 1, Len(s))]
               /\ delivered' = [delivered EXCEPT ![Fi] = IF Whole(h, b) THEN @ + 1 ELSE @]
               /\ IF Whole(h, b) /\ ~(r.owner /\ r.delete_me = 0)
                  THEN /\ close_socket(Fi, message_cleanup(New(h, b)), TRUE)
                       /\ calls' = Next_k
                  ELSE /\ Put(Fi, IF Whole(h, b) THEN message_cleanup(New(h, b))
                                  ELSE New(h, b), fds)
                       /\ calls' = IF Whole(h, b)
                                   THEN <<[f |-> "handler", i |-> Fi]>> \o Next_k
                                   ELSE Next_k
    <2>1. ReadSome
      OBVIOUS
    <2> QED  BY ONLY <2>1, Zenon DEF ReadSome
  <1>2. \/ CloseNow(Fi, Reset(message_cleanup(New(h, b))))
        \/ Put(Fi, message_cleanup(New(h, b)), fds)
        \/ Put(Fi, New(h, b), fds)
    BY <1>1, Zenon DEF close_socket
  <1>3. calls' = Next_k \/ calls' = <<[f |-> "handler", i |-> Fi]>> \o Next_k
    BY <1>1, Zenon
  <1> QED  BY <1>2, <1>3

\* What is read leaves what is to be sent as it is.
LEMMA ReadSomeSends ==
    ASSUME IInv, SInv, ReadSome
    PROVE  SInv' /\ NewConnects
  <1> DEFINE r == info[Fi]
  <1>1. Event("POLLIN") /\ enq' = enq
    BY DEF ReadSome
  <1>2. PICK h, b, l :
            LET new == Read(r, h, b, l)
            IN  \/ CloseNow(Fi, Reset(message_cleanup(new)))
                \/ Put(Fi, message_cleanup(new), fds)
                \/ Put(Fi, new, fds)
    BY ReadSomeShape
  <1> DEFINE new == Read(r, h, b, l)
             cl == message_cleanup(new)
             off == CloseNow(Fi, Reset(cl))
  <1>3. off \/ Put(Fi, cl, fds) \/ Put(Fi, new, fds)
    BY <1>2
  <1>4. Fi \in Infos /\ r \in Rec /\ info \in [Infos -> Rec]
    BY <1>1, ScanFacts, CoreTypes DEF IInv
  <1> DEFINE g == r.in_length_got + h
             m == r.in_msg_got + b
             w == g = LengthChunks
  <1>5. new = [r EXCEPT !.in_length_got = g, !.in_msg_got = m, !.in_length = l,
                        !.in_message = w]
    BY DEF Read
  <1> HIDE DEF g, m, w, new
  <1>6. /\ new.out = r.out /\ new.sent = r.sent /\ new.tag = r.tag
        /\ new.delete_me = r.delete_me /\ DOMAIN new = DOMAIN r
    <2> HIDE DEF r
    <2> QED  BY ONLY <1>4, <1>5 DEF Rec
  <1> DEFINE z == 0
             f == FALSE
  <1>7. /\ cl = [new EXCEPT !.in_message = f, !.in_msg_got = z, !.in_length = z,
                            !.in_length_got = z]
        /\ Reset(cl) = [cl EXCEPT !.in_message = f, !.out = z]
    BY DEF message_cleanup, Reset
  <1> HIDE DEF z, f, cl
  <1>8. /\ cl.out = r.out /\ cl.sent = r.sent /\ cl.tag = r.tag
        /\ cl.delete_me = r.delete_me /\ DOMAIN cl = DOMAIN r
    <2> HIDE DEF r
    <2> QED  BY ONLY <1>4, <1>6, <1>7 DEF Rec
  <1>9. KeepsOut(new, info[Fi]) /\ KeepsOut(cl, info[Fi])
    BY <1>6, <1>8 DEF KeepsOut, Open, Stale
  <1>10. CASE Put(Fi, cl, fds) \/ Put(Fi, new, fds)
    <2>1. tx' = tx /\ (info' = [info EXCEPT ![Fi] = cl] \/ info' = [info EXCEPT ![Fi] = new])
      BY <1>10 DEF Put
    <2>2. NothingSent
      BY <1>1, <1>4, <1>9, <2>1, PutSends
    <2> QED  BY <2>2, NothingSentKept
  <1>11. CASE off
    <2> DEFINE d == 2
               t == "NET_INFO_CLOSED"
               y == Reset(cl)
               c == [y EXCEPT !.delete_me = d, !.tag = t]
    <2>1. info' = [info EXCEPT ![Fi] = c] /\ tx' = tx
      BY <1>11 DEF CloseNow
    <2>2. DOMAIN y = DOMAIN r
      BY <1>7, <1>8
    <2> HIDE DEF y, d, t, r
    <2>3. c.delete_me = d /\ c.tag = t
      BY ONLY <1>4, <2>2 DEF Rec
    <2> HIDE DEF c
    <2>4. KeepsOut(c, info[Fi])
      BY <2>3 DEF KeepsOut, Open, Stale, d, t
    <2>5. NothingSent
      BY <1>1, <1>4, <2>1, <2>4, PutSends
    <2> QED  BY <2>5, NothingSentKept
  <1> QED  BY <1>3, <1>10, <1>11

\* Every step keeps what is sent in order, as long as the pointers of blocking sends do.
LEMMA NextSends ==
    ASSUME IInv, SInv, PInv, SlotKept, [Next]_vars
    PROVE  SInv' /\ NewConnects
  <1>1. ASSUME info' = info, tx' = tx, enq' = enq PROVE SInv' /\ NewConnects
    <2>1. NothingSent
      BY <1>1 DEF NothingSent, KeepsOut
    <2> QED  BY <2>1, NothingSentKept
  <1>2. CASE Peers
    BY <1>1, <1>2 DEF Peers, PeerAnswers, PeerConnects, PeerSends, PeerLeaves, Datagram,
                      process
  <1>3. CASE User
    BY <1>3, UserSends
  <1>4. CASE Blocked
    BY <1>4, BlockedSends
  <1>5. CASE Scan
    BY <1>5, ScanSends, ReadSomeSends
  <1>6. CASE FreeOne
    BY <1>6, FreeOneSends
  <1>7. CASE o2_poll \/ FreeDone \/ UNCHANGED vars
    BY <1>1, <1>7 DEF o2_poll, o2n_recv, FreeDone, os, vars
  <1>8. CASE Returns
    <2> DEFINE h == Head(calls)
               i == h.i
               r == info[i]
    <2>1. /\ Current("handler") /\ enq' = enq
          /\ \/ info' = info /\ tx' = tx
             \/ r.tag \in Talking /\ close_socket(i, r, TRUE)
      BY <1>8 DEF Returns, HandlerReturns, Talking
    <2>2. CASE info' = info /\ tx' = tx
      BY <1>1, <2>1, <2>2
    <2>3. CASE r.tag \in Talking /\ close_socket(i, r, TRUE)
      <3>1. calls \in Seq(Frame) /\ calls # << >> /\ h.f = "handler"
        BY <2>1 DEF IInv, Frames, Current
      <3>2. h \in Frame
        BY <3>1
      <3>3. h \in HandlerFrame
        BY <3>1, <3>2 DEF Frame, FreeFrame, ScanFrame, SendFrames, HandlerFrame
      <3>4. i \in Infos /\ info \in [Infos -> Rec]
        BY <3>3, CoreTypes DEF HandlerFrame, IInv
      <3>5. Live(r) /\ r \in Rec
        BY <2>3, <3>4 DEF Live, Talking, Connected
      <3> HIDE DEF i
      <3>6. NothingSent
        BY <2>1, <2>3, <3>4, <3>5, CloseSends
      <3> QED  BY <3>6, NothingSentKept
    <2> QED  BY <2>1, <2>2, <2>3
  <1> QED  BY <1>2, <1>3, <1>4, <1>5, <1>6, <1>7, <1>8 DEF Next, Process

\* c looks at the slots of a call that did so before, or of a poll() just made.
OfCall(c) == \E l \in 1..Len(calls) :
                calls[l].f = "recv" /\ calls[l].ph = "scan" /\ calls[l].ev = c.ev
OfPoll(c) == /\ fds_info' = fds_info /\ info' = info
             /\ NotConnecting(c.ev, fds_info, info)
Scanned(c) == c.f = "recv" /\ c.ph = "scan" => OfCall(c) \/ OfPoll(c)
AllScanned(cs) == cs \in Seq(Frame) /\ \A j \in 1..Len(cs) : Scanned(cs[j])

\* A call is made.
LEMMA ScannedPushed ==
    ASSUME NEW cs, AllScanned(cs), NEW c \in Frame, Scanned(c)
    PROVE  AllScanned(<<c>> \o cs)
  <1> DEFINE c2 == <<c>> \o cs
  <1>1. cs \in Seq(Frame) /\ \A j \in 1..Len(cs) : Scanned(cs[j])
    BY DEF AllScanned
  <1>2. /\ c2 \in Seq(Frame) /\ c2[1] = c
        /\ \A i \in 1..Len(c2) : i = 1 \/ (i - 1 \in 1..Len(cs) /\ c2[i] = cs[i - 1])
    BY <1>1
  <1> HIDE DEF c2
  <1>3. ASSUME NEW j \in 1..Len(c2) PROVE Scanned(c2[j])
    <2>1. CASE j = 1
      BY <1>2, <2>1
    <2>2. CASE j # 1
      BY <1>1, <1>2, <2>2
    <2> QED  BY <2>1, <2>2
  <1> QED  BY <1>2, <1>3 DEF AllScanned, c2

\* poll() reports a socket that waits for its connection as writable first.
LEMMA PollScanned ==
    ASSUME IInv, NEW cs, Frames(cs, fds_info, info, stream), AllScanned(cs), Outside(cs),
           Poll(cs), fds_info' = fds_info, info' = info
    PROVE  AllScanned(calls')
  <1>1. PICK full \in SUBSET {i \in Range(fds_info) :
                                 /\ fds[info[i].fds_index].pollout
                                 /\ info[i].tag # "NET_TCP_CONNECTING"},
             hup \in SUBSET {i \in Range(fds_info) : net[i] = "eof"} :
          LET ev == [k \in 1..Size |-> Revents(fds_info[k], fds[k], full, hup)]
          IN calls' = <<[f |-> "recv", ph |-> "scan", k |-> Reported(ev, 1),
                         ev |-> ev]>> \o cs
    BY DEF Poll
  <1> DEFINE ev == [k \in 1..Size |-> Revents(fds_info[k], fds[k], full, hup)]
             k1 == Reported(ev, 1)
             c == [f |-> "recv", ph |-> "scan", k |-> k1, ev |-> ev]
  <1>2. calls' = <<c>> \o cs
    BY <1>1
  <1>3. Core(fds, fds_info, info, net, stream)
    BY DEF IInv
  <1>4. Len(fds_info) \in Nat /\ Size = Len(fds_info)
    BY <1>3, CoreTypes DEF Size
  <1>5. \A k \in 1..Size : ev[k] = Revents(fds_info[k], fds[k], full, hup) /\ ev[k] \in Events
    BY ReventsFacts
  <1>6. ev \in Seq(Events) /\ Len(ev) = Size
    <2>1. ev \in [1..Size -> Events]
      BY <1>5
    <2> QED  BY <1>4, <2>1
  <1> HIDE DEF ev
  <1>7. ASSUME NEW k \in 1..Size, ev[k] = "POLLIN"
        PROVE  info[fds_info[k]].tag # "NET_TCP_CONNECTING"
    <2> SUFFICES ASSUME info[fds_info[k]].tag = "NET_TCP_CONNECTING" PROVE FALSE
      OBVIOUS
    <2> DEFINE i == fds_info[k]
               slot == fds[k]
    <2>1. i \in Infos /\ info[i].fds_index = k
      BY <1>3, <1>4, SlotInUse
    <2>2. slot.pollout
      BY <1>3, <2>1 DEF Core, Wanted, Waits
    <2>3. i \notin full
      BY <1>1
    <2>4. Revents(i, slot, full, hup) = "POLLIN"
      BY <1>5, <1>7
    <2> HIDE DEF i, slot
    <2> QED  BY <2>2, <2>3, <2>4 DEF Revents
  <1>8. k1 \in Nat \ {0}
    BY <1>6, ReportedFacts
  <1> HIDE DEF k1
  <1>9. c \in Frame /\ c.ev = ev
    BY <1>6, <1>8 DEF Frame, ScanFrame
  <1> HIDE DEF c
  <1>10. Scanned(c)
    BY <1>6, <1>7, <1>9 DEF Scanned, OfPoll, NotConnecting
  <1>11. AllScanned(<<c>> \o cs)
    BY <1>9, <1>10, ScannedPushed
  <1> QED  BY <1>2, <1>11

\* o2n_recv begins.
LEMMA RecvScanned ==
    ASSUME IInv, NEW cs, Frames(cs, fds_info, info, stream), AllScanned(cs), Outside(cs),
           o2n_recv(cs)
    PROVE  AllScanned(calls')
  <1>1. CASE delete_flag
    <2> DEFINE c == [f |-> "recv", ph |-> "pre", k |-> 1]
    <2>1. calls' = <<c>> \o cs
      BY <1>1 DEF o2n_recv
    <2>2. c \in Frame /\ c.ph = "pre"
      BY DEF Frame, FreeFrame
    <2> HIDE DEF c
    <2>3. Scanned(c)
      BY <2>2 DEF Scanned
    <2> QED  BY <2>1, <2>2, <2>3, ScannedPushed
  <1>2. CASE ~delete_flag
    BY <1>2, PollScanned DEF o2n_recv
  <1> QED  BY <1>1, <1>2

\* The loop goes on with what poll() reported.
LEMMA NextScanned ==
    ASSUME IInv, NEW e, Event(e), AllScanned(calls), AllScanned(Tail(calls))
    PROVE  AllScanned(Next_k)
  <1> DEFINE h == Head(calls)
             ev == h.ev
             k == h.k + 1
             n == Reported(ev, k)
             c == [h EXCEPT !.k = n]
  <1>1. Current("recv") /\ h.ph = "scan"
    BY DEF Event, Scanning
  <1>2. h \in ScanFrame
    BY <1>1, RecvFacts DEF FreeFrame
  <1>3. ev \in Seq(Events) /\ h.k \in 1..Len(ev)
    BY <1>2, ScanFacts DEF ScanFrame
  <1>4. k \in Nat \ {0} /\ k <= Len(ev) + 1
    BY <1>3
  <1>5. Scanned(h)
    <2>1. calls # << >> /\ calls \in Seq(Frame)
      BY <1>1 DEF Current, IInv, Frames
    <2>2. 1 \in 1..Len(calls) /\ calls[1] = h
      BY <2>1
    <2> QED  BY <2>2 DEF AllScanned
  <1>6. Next_k = <<c>> \o Tail(calls)
    BY DEF Next_k
  <1> HIDE DEF ev, k
  <1>7. n \in Nat \ {0}
    BY <1>3, <1>4, ReportedFacts
  <1> HIDE DEF h, n
  <1>8. c \in ScanFrame /\ c.ev = h.ev /\ c.f = h.f /\ c.ph = h.ph
    BY ONLY <1>2, <1>7 DEF ScanFrame
  <1>9. Scanned(c)
    BY <1>1, <1>5, <1>8 DEF Scanned, OfCall, OfPoll
  <1> HIDE DEF c
  <1>10. AllScanned(<<c>> \o Tail(calls))
    BY <1>8, <1>9, ScannedPushed DEF Frame
  <1> QED  BY <1>6, <1>10

\* Whoever looks at slots after a step did so before, or polls.
LEMMA NextCalls ==
    ASSUME IInv, [Next]_vars
    PROVE  AllScanned(calls')
  <1>1. calls \in Seq(Frame) /\ Frames(calls, fds_info, info, stream)
    BY DEF IInv, Frames
  <1>2. AllScanned(calls)
    BY <1>1 DEF AllScanned, Scanned, OfCall
  <1>3. ASSUME calls # << >> PROVE AllScanned(Tail(calls))
    <2>1. /\ Tail(calls) \in Seq(Frame)
          /\ \A j \in 1..Len(Tail(calls)) :
                j + 1 \in 1..Len(calls) /\ Tail(calls)[j] = calls[j + 1]
      BY <1>1, <1>3
    <2> QED  BY <1>2, <2>1 DEF AllScanned
  <1>4. CASE calls' = calls
    BY <1>2, <1>4
  <1>5. CASE calls' = Tail(calls) /\ calls # << >>
    BY <1>3, <1>5
  <1>6. ASSUME NEW e, Event(e), NEW i \in Infos,
               calls' = Next_k \/ calls' = <<[f |-> "handler", i |-> i]>> \o Next_k
        PROVE  AllScanned(calls')
    <2> DEFINE c == [f |-> "handler", i |-> i]
    <2>1. AllScanned(Next_k)
      BY <1>2, <1>3, <1>6, NextScanned DEF Event, Scanning, Current
    <2>2. c \in Frame /\ c.f = "handler"
      BY DEF Frame, HandlerFrame
    <2>3. calls' = Next_k \/ calls' = <<c>> \o Next_k
      BY <1>6
    <2> HIDE DEF c
    <2>4. Scanned(c)
      BY <2>2 DEF Scanned
    <2> QED  BY <2>1, <2>2, <2>3, <2>4, ScannedPushed
  <1>7. CASE Peers
    BY <1>4, <1>7 DEF Peers, PeerAnswers, PeerConnects, PeerSends, PeerLeaves, Datagram,
                      process
  <1>8. CASE User
    <2>1. ASSUME NEW i \in Tcp, NEW block \in BOOLEAN, send_tcp(i, block)
          PROVE  AllScanned(calls')
      <3> DEFINE k == info[i].fds_index
                 z == 0
                 c == [f |-> "send", i |-> i, k |-> k, wait |-> z]
      <3>1. calls' = calls \/ calls' = <<c>> \o calls
        BY <2>1 DEF send_tcp
      <3>2. k \in Slots
        <4>1. i \in Infos /\ Live(info[i]) /\ Core(fds, fds_info, info, net, stream)
          BY <2>1, InArray DEF send_tcp, IInv
        <4> QED  BY <4>1, Slotted
      <3>3. z \in Nat
        OBVIOUS
      <3> HIDE DEF k, z
      <3>4. c \in Frame /\ c.f = "send"
        BY <3>2, <3>3 DEF Frame, SendFrames
      <3> HIDE DEF c
      <3>5. Scanned(c)
        BY <3>4 DEF Scanned
      <3> QED  BY <1>2, <3>1, <3>4, <3>5, ScannedPushed
    <2> QED  BY <1>4, <1>8, <2>1 DEF User, create_tcp_client, CloseByUser
  <1>9. CASE o2_poll
    <2>1. calls = << >> /\ o2n_recv(calls)
      BY <1>9 DEF o2_poll
    <2>2. Outside(calls)
      BY <2>1 DEF Outside
    <2> QED  BY <1>1, <1>2, <2>1, <2>2, RecvScanned
  <1>10. CASE Blocked
    <2>1. CASE SendPolls
      <3> DEFINE h == Head(calls)
                 w == h.wait + 1
                 c == [h EXCEPT !.wait = w]
                 t == Tail(calls)
                 cs == <<c>> \o t
      <3>1. SendFrame /\ ~In_o2n_recv(calls) /\ o2n_recv(<<c>> \o t)
        BY <2>1 DEF SendPolls
      <3>2. /\ h \in SendFrames /\ Frames(t, fds_info, info, stream) /\ calls = <<h>> \o t
            /\ info[h.i].tag # "none" /\ AllScanned(t)
        BY <1>3, <3>1, SenderFacts DEF Sender
      <3>3. Outside(calls) /\ t \in Seq(Frame)
        BY <1>1, <3>1, <3>2 DEF Outside, In_o2n_recv, AllScanned
      <3>4. w \in Nat
        BY <3>2 DEF SendFrames
      <3> HIDE DEF h, w, t
      <3>5. c \in SendFrames /\ c.i = h.i
        BY ONLY <3>2, <3>4 DEF SendFrames
      <3> HIDE DEF c
      <3>6. c \in Frame /\ c.f = "send" /\ h \in Frame
        BY <3>2, <3>5 DEF Frame, SendFrames
      <3>7. Frames(<<c>> \o t, fds_info, info, stream)
        BY <3>2, <3>5, <3>6, FramesPushed
      <3>8. AllScanned(<<c>> \o t)
        BY <3>2, <3>6, ScannedPushed DEF Scanned
      <3>9. Outside(t)
        <4>1. \A j \in 1..Len(t) : j + 1 \in 1..Len(calls) /\ calls[j + 1] = t[j]
          BY <3>2, <3>3, <3>6
        <4> QED  BY <3>3, <4>1 DEF Outside
      <3>10. \A j \in 1..Len(cs) : cs[j] = c \/ (j - 1 \in 1..Len(t) /\ cs[j] = t[j - 1])
        BY <3>3, <3>6
      <3>11. Outside(cs) /\ Frames(cs, fds_info, info, stream) /\ o2n_recv(cs)
             /\ AllScanned(cs)
        BY <3>1, <3>6, <3>7, <3>8, <3>9, <3>10 DEF Outside
      <3> HIDE DEF cs
      <3> QED  BY <3>11, RecvScanned
    <2> QED  BY <1>4, <1>5, <1>10, <2>1, Zenon
             DEF Blocked, SendSelects, SendWrites, SendDone, SendFreed, SendFrame, Current
  <1>11. CASE Scan
    <2>1. ASSUME NEW e, Event(e) PROVE Fi \in Infos /\ calls # << >>
      BY <2>1, ScanFacts DEF Event, Scanning, Current
    <2>2. CASE ScanDone
      <3> DEFINE c == [f |-> "recv", ph |-> "post", k |-> 1]
                 t == Tail(calls)
      <3>1. calls # << >> /\ (calls' = t \/ calls' = <<c>> \o t)
        BY <2>2 DEF ScanDone, Scanning, Current
      <3>2. c \in Frame /\ c.ph = "post" /\ AllScanned(t)
        BY <1>3, <3>1 DEF Frame, FreeFrame
      <3> HIDE DEF c, t
      <3> QED  BY <3>1, <3>2, ScannedPushed DEF Scanned
    <2>3. CASE ReadSome
      <3>1. Event("POLLIN")
            /\ (calls' = Next_k \/ calls' = <<[f |-> "handler", i |-> Fi]>> \o Next_k)
        BY <2>3, ReadSomeShape DEF ReadSome
      <3> QED  BY <1>6, <2>1, <3>1
    <2>4. CASE ScanHup \/ ScanOut \/ Accept \/ UdpReceive \/ ReadFails \/ ReadClosed
      <3>1. \E e : Event(e) /\ (\/ calls' = Next_k
                                \/ calls' = <<[f |-> "handler", i |-> Fi]>> \o Next_k)
        BY <2>4, Zenon DEF ScanHup, ScanOut, Accept, UdpReceive, ReadFails, ReadClosed
      <3> QED  BY <1>6, <2>1, <3>1
    <2> QED  BY <1>11, <2>2, <2>3, <2>4 DEF Scan
  <1>12. CASE FreeOne
    <2> DEFINE k == CHOOSE k \in Deleted : \A j \in Deleted : k <= j
               h == Head(calls)
               c == [h EXCEPT !.k = k]
               t == Tail(calls)
    <2>1. /\ calls' = <<c>> \o t /\ Current("recv") /\ h.ph \in {"pre", "post"}
          /\ Deleted # {}
      BY <1>12 DEF FreeOne, Freeing
    <2>2. h \in FreeFrame /\ AllScanned(t) /\ h.k \in Nat \ {0}
      BY <1>3, <2>1, RecvFacts DEF ScanFrame
    <2>3. k \in Nat \ {0}
      <3>1. Len(fds_info) \in Nat
        BY CoreTypes DEF IInv
      <3>2. Deleted \subseteq Nat \ {0}
        BY <2>2, <3>1 DEF Deleted, Size
      <3>3. \E x \in Deleted : \A j \in Deleted : x <= j
        BY <2>1, <3>2, Least
      <3>4. k \in Deleted
        BY <3>3
      <3> HIDE DEF k
      <3> QED  BY <3>2, <3>4
    <2> HIDE DEF h, k, t
    <2>4. c \in FreeFrame /\ c.ph = h.ph
      BY ONLY <2>2, <2>3 DEF FreeFrame
    <2> HIDE DEF c
    <2>5. c \in Frame /\ Scanned(c)
      BY <2>1, <2>4 DEF Frame, Scanned, h
    <2> QED  BY <2>1, <2>2, <2>5, ScannedPushed
  <1>13. CASE FreeDone
    <2>1. Current("recv") /\ (Poll(Tail(calls)) \/ calls' = Tail(calls))
          /\ fds_info' = fds_info /\ info' = info
      BY <1>13 DEF FreeDone, Freeing
    <2>2. /\ calls # << >> /\ Frames(Tail(calls), fds_info, info, stream)
          /\ Outside(Tail(calls)) /\ AllScanned(Tail(calls))
      BY <1>3, <2>1, RecvFacts
    <2> QED  BY <2>1, <2>2, PollScanned
  <1>14. CASE Returns \/ UNCHANGED vars
    BY <1>4, <1>5, <1>14 DEF Returns, HandlerReturns, Current, vars
  <1> QED  BY <1>7, <1>8, <1>9, <1>10, <1>11, <1>12, <1>13, <1>14 DEF Next, Process

\* No step makes the loop of o2n_recv read a socket that waits for its connection.
LEMMA NextPolled ==
    ASSUME IInv, IInv', PInv, NewConnects, [Next]_vars
    PROVE  PInv'
  <1> SUFFICES ASSUME NEW j \in 1..Len(calls'), calls'[j].f = "recv", calls'[j].ph = "scan",
                      NEW k \in 1..Len(calls'[j].ev), calls'[j].ev[k] = "POLLIN"
               PROVE  info'[fds_info'[k]].tag # "NET_TCP_CONNECTING"
    BY DEF PInv, NotConnecting
  <1> DEFINE c == calls'[j]
  <1>1. OfCall(c) \/ OfPoll(c)
    BY NextCalls DEF AllScanned, Scanned
  <1>2. CASE OfPoll(c)
    BY <1>2 DEF OfPoll, NotConnecting
  <1>3. CASE OfCall(c)
    <2>1. PICK l \in 1..Len(calls) :
             calls[l].f = "recv" /\ calls[l].ph = "scan" /\ calls[l].ev = c.ev
      BY <1>3 DEF OfCall
    <2>2. /\ Core(fds, fds_info, info, net, stream) /\ ScanOK(calls[l], fds_info, stream)
          /\ calls \in Seq(Frame)
      BY <2>1 DEF IInv, Frames
    <2>3. calls[l] \in ScanFrame
      BY <2>1, <2>2 DEF Frame, FreeFrame, ScanFrame, SendFrames, HandlerFrame
    <2>4. /\ fds_info \in Seq(Infos) /\ fds_info' \in Seq(Infos)
          /\ Len(fds_info) \in Nat /\ c.ev \in Seq(Events) /\ Len(c.ev) <= Len(fds_info)
      BY <2>1, <2>2, <2>3, CoreTypes DEF IInv, ScanOK, ScanFrame, Core, Types
    <2>5. k \in 1..Len(fds_info)
      BY <2>4
    <2>6. fds_info'[k] = fds_info[k]
      <3>1. Scans(calls)
        BY <2>1, <2>2 DEF Scans
      <3>2. IsPrefix(fds_info, fds_info')
        BY <3>1, SlotsStay
      <3> QED  BY <2>4, <2>5, <3>2 DEF IsPrefix
    <2> DEFINE x == fds_info[k]
    <2>7. x \in Infos /\ info[x].tag # "none"
      BY <2>2, <2>5, SlotInUse DEF Live
    <2>8. info[x].tag # "NET_TCP_CONNECTING"
      BY <2>1 DEF PInv, NotConnecting
    <2>9. info'[x].tag # "NET_TCP_CONNECTING"
      BY <2>7, <2>8 DEF NewConnects
    <2> QED  BY <2>6, <2>9
  <1> QED  BY <1>1, <1>2, <1>3

\* As long as the pointer that a blocking send has taken to its slot of o2n_fds does not
\* come to lead to another socket, both streams of every connection are whole: the peer
\* gets the messages given to enqueue for this socket, in order and without a gap, through
\* partial writes, sends that block and poll, sockets that move between slots and closes
\* in the middle of the loop; what is read is put together as ReadSome reads it.  The
\* hypothesis is about that one pointer (pfd of Fds_info::send): nothing in the code keeps
\* it right when a poll inside the send deletes a socket and moves another.
THEOREM StreamsWhole == Spec /\ []SlotKept => []StreamsIntact
  <1>1. Init => SInv /\ PInv
    <2> SUFFICES ASSUME Init PROVE SInv /\ PInv
      OBVIOUS
    <2>1. calls = << >> /\ DOMAIN tx = Infos /\ DOMAIN enq = Infos
      BY DEF Init
    <2>2. PInv
      BY <2>1 DEF PInv
    <2>3. ASSUME NEW i \in Infos PROVE Sending(i)
      <3>1. tx[i] = << >> /\ enq[i] = 0
        BY DEF Init
      <3>2. /\ info[i].tag \in {"NET_UDP_SERVER", "NET_TCP_SERVER", "none"}
            /\ info[i].out = 0 /\ info[i].sent = 0
        BY DEF Init, Fds_info
      <3>3. Sends(<< >>, info[i], 0, i)
        BY <3>2, NothingYet
      <3> QED  BY <3>1, <3>2, <3>3 DEF Sending, Stale
    <2> QED  BY <2>1, <2>2, <2>3 DEF SInv
  <1>2. IInv /\ IInv' /\ SInv /\ PInv /\ SlotKept /\ [Next]_vars => SInv' /\ PInv'
    BY NextSends, NextPolled
  <1>3. SInv => SentInOrder
    <2> SUFFICES ASSUME SInv, NEW i \in Tcp, info[i].delete_me = 0, NEW j \in DOMAIN tx[i]
                 PROVE  tx[i][j] = <<i, 1 + (j - 1) \div OutChunks, (j - 1) % OutChunks>>
      BY DEF SentInOrder
    <2>1. Sending(i)
      BY Constants DEF SInv
    <2>2. CASE info[i].tag = "freed"
      BY <2>1, <2>2 DEF Sending
    <2>3. CASE info[i].tag # "freed"
      <3> DEFINE t == tx[i]
      <3>1. t \in Seq({i} \X Int \X Int) /\ InOrder(i, t)
        BY <2>1, <2>3 DEF Sending, Open, Sends
      <3>2. j \in DOMAIN t
        OBVIOUS
      <3> HIDE DEF t
      <3>3. j \in 1..Len(t)
        BY <3>1, <3>2
      <3>4. t[j] = <<i, 1 + ((j - 1) \div OutChunks), (j - 1) % OutChunks>>
        BY <3>1, <3>3 DEF InOrder
      <3> QED  BY <3>4 DEF t
    <2> QED  BY <2>2, <2>3
  <1>4. Spec => []Reassembly
    BY StreamsReassembled
  <1> QED  BY <1>1, <1>2, <1>3, <1>4, Invariance, PTL DEF Spec, StreamsIntact
=============================================================================
