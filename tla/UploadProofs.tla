---------------------------- MODULE UploadProofs ----------------------------
(***************************************************************************)
(* Theorems about the upload.  First where the bootloader goes after a     *)
(* reset, for every board and host (ResetInv).  Then, for the parts with   *)
(* pages of 64 bytes and for every image, order of pages and number of     *)
(* sessions, what one byte can do that is lost or has changed.  If it is   *)
(* lost, a page that is acknowledged is in the flash, none is torn, and    *)
(* nothing else is written.  If it is lost, or has changed and is neither  *)
(* a command nor an argument, a page that is verified is in the flash.     *)
(* UploadInv says for each place in the loop what is still on the line: in *)
(* step with the host, or, after the lost byte, how far out of it and what *)
(* that leads to; and of a page that is read, that each byte still to come *)
(* is the flash's, and each that has come was as expected.                 *)
(***************************************************************************)
EXTENDS Upload, SequenceTheorems, TLAPS

----------------------------------------------------------------------------
(* The messages of a session *)

(* MAPPED_PROGMEM_PAGE_SIZE is 64 on the parts with up to 16 KB of flash,  *)
(* and 32 KB of it are mapped (iotn1616.h; 128 on those with 32 KB, where  *)
(* a lost byte can tear a page: see the README).                           *)
RealPages == PageSize = 64 /\ Pages \subseteq 0..511
Octets == 0..255

LEMMA SeqOf ==
    ASSUME NEW S, NEW n \in Nat, NEW f \in [1..n -> S]
    PROVE  f \in Seq(S) /\ Len(f) = n
  OBVIOUS

After(l, s, k) == Len(l) = Len(s) - k /\ \A i \in 1..Len(l) : l[i] = s[i + k]

LEMMA AfterTail ==
    ASSUME NEW S, NEW l \in Seq(S), NEW s \in Seq(S), NEW k \in Nat, After(l, s, k),
           l # <<>>
    PROVE  /\ Head(l) = s[k + 1] /\ After(Tail(l), s, k + 1)
           /\ Len(Tail(l)) = Len(l) - 1 /\ Len(l) > 0
<1>1. Len(l) \in Nat \ {0}
  OBVIOUS
<1>2. /\ Head(l) = l[1] /\ Tail(l) \in Seq(S) /\ Len(Tail(l)) = Len(l) - 1
      /\ \A i \in 1..Len(l)-1 : Tail(l)[i] = l[i + 1]
  BY <1>1
<1>3. QED
  BY <1>1, <1>2 DEF After

Msgs == [does : {"load", "prog", "read", "other"}, page : Nat,
         bytes : Seq(Octets), reply : Seq(Octets)]

Acked(x) ==
    x.reply[1] = STK_INSYNC /\ x.reply[2] = STK_OK /\ Len(x.reply) = 2
IsLoad(x, p) ==
    /\ x.does = "load" /\ x.page = p /\ Len(x.bytes) = 4
    /\ x.bytes[1] = STK_LOAD_ADDRESS /\ x.bytes[2] \in {0, 64, 128, 192}
    /\ x.bytes[2] + 256 * x.bytes[3] = 64 * p
    /\ x.bytes[4] = CRC_EOP
    /\ Acked(x)
IsProg(x, p) ==
    /\ x.does = "prog" /\ x.page = p /\ Len(x.bytes) = 69
    /\ x.bytes[1] = STK_PROG_PAGE /\ x.bytes[2] = 0
    /\ x.bytes[3] = 64 /\ x.bytes[4] = Flash
    /\ \A i \in 1..64 : x.bytes[i + 4] = Image[p][i - 1]
    /\ x.bytes[69] = CRC_EOP
    /\ Acked(x)
IsRead(x, p) ==
    /\ x.does = "read" /\ x.page = p /\ Len(x.bytes) = 5
    /\ x.bytes[1] = STK_READ_PAGE /\ x.bytes[2] = 0
    /\ x.bytes[3] = 64 /\ x.bytes[4] = Flash /\ x.bytes[5] = CRC_EOP
    /\ Len(x.reply) = 66
    /\ \A i \in 1..64 : x.reply[i + 1] = Image[p][i - 1]
IsOther(x) ==
    /\ x.does = "other"
    /\ \/ x.bytes[1] \in {STK_GET_SYNC, STK_LEAVE_PROGMODE}
          /\ x.bytes[2] = CRC_EOP /\ Len(x.bytes) = 2 /\ Len(x.reply) = 2
       \/ x.bytes[1] = STK_READ_SIGN
          /\ x.bytes[2] = CRC_EOP /\ Len(x.bytes) = 2 /\ Len(x.reply) = 5
       \/ x.bytes[1] = STK_GET_PARAMETER /\ x.bytes[2] = STK_SW_MAJOR
          /\ x.bytes[3] = CRC_EOP /\ Len(x.bytes) = 3 /\ Len(x.reply) = 3
       \/ x.bytes[1] = STK_UNIVERSAL /\ x.bytes[2] = STK_GET_SYNC /\ x.bytes[3] = 0
          /\ x.bytes[6] = CRC_EOP /\ Len(x.bytes) = 6 /\ Len(x.reply) = 3
IsMessage(x) ==
    /\ x \in Msgs
    /\ \/ IsOther(x)
       \/ \E p \in Pages : IsLoad(x, p) \/ IsProg(x, p) \/ IsRead(x, p)

Built(x, does, p, h, d) ==
    /\ x \in Msgs /\ x.does = does /\ x.page = p
    /\ Len(x.bytes) = Len(h) + 1 /\ x.bytes[Len(h) + 1] = CRC_EOP
    /\ \A i \in 1..Len(h) : x.bytes[i] = h[i]
    /\ Len(x.reply) = Len(d) + 2
    /\ x.reply[1] = STK_INSYNC /\ x.reply[Len(d) + 2] = STK_OK
    /\ \A i \in 1..Len(d) : x.reply[i + 1] = d[i]

LEMMA MessageIs ==
    ASSUME NEW does \in {"load", "prog", "read", "other"}, NEW p \in Nat,
           NEW h \in Seq(Octets), NEW d \in Seq(Octets)
    PROVE  Built(Message(does, p, h, d), does, p, h, d)
<1> DEFINE e == <<CRC_EOP>>
           i == <<STK_INSYNC>>
           o == <<STK_OK>>
           b == h \o e
           f == i \o d
           r == f \o o
           x == Message(does, p, h, d)
<1>1. CRC_EOP \in Octets /\ STK_INSYNC \in Octets /\ STK_OK \in Octets
  BY DEF CRC_EOP, STK_INSYNC, STK_OK, Octets
<1>2. e \in Seq(Octets) /\ i \in Seq(Octets) /\ o \in Seq(Octets)
  BY <1>1
<1>3. /\ Len(e) = 1 /\ e[1] = CRC_EOP
      /\ Len(i) = 1 /\ i[1] = STK_INSYNC
      /\ Len(o) = 1 /\ o[1] = STK_OK
      /\ Len(h) \in Nat /\ Len(d) \in Nat
  BY <1>1
<1>4. x = [does |-> does, page |-> p, bytes |-> b, reply |-> r]
  BY DEF Message
<1> HIDE DEF e, i, o, x
<1>5. /\ b \in Seq(Octets) /\ Len(b) = Len(h) + Len(e)
      /\ \A k \in 1..Len(h) : b[k] = h[k]
      /\ \A k \in Len(h) + 1..Len(h) + Len(e) : b[k] = e[k - Len(h)]
  BY <1>2
<1>6. /\ f \in Seq(Octets) /\ Len(f) = Len(i) + Len(d)
      /\ \A k \in 1..Len(i) : f[k] = i[k]
      /\ \A k \in Len(i) + 1..Len(i) + Len(d) : f[k] = d[k - Len(i)]
  BY <1>2
<1> HIDE DEF b, f
<1>7. /\ r \in Seq(Octets) /\ Len(r) = Len(f) + Len(o)
      /\ \A k \in 1..Len(f) : r[k] = f[k]
      /\ \A k \in Len(f) + 1..Len(f) + Len(o) : r[k] = o[k - Len(f)]
  <2>1. f \in Seq(Octets)
    BY <1>6
  <2>2. QED
    BY <1>2, <2>1
<1> HIDE DEF r
<1>8. Len(b) = Len(h) + 1 /\ b[Len(h) + 1] = CRC_EOP
  <2>1. Len(h) + 1 \in Len(h) + 1..Len(h) + Len(e) /\ (Len(h) + 1) - Len(h) = 1
    BY <1>3
  <2>2. b[Len(h) + 1] = e[(Len(h) + 1) - Len(h)]
    BY <1>5, <2>1
  <2>3. QED
    BY <1>3, <1>5, <2>1, <2>2
<1>9. Len(r) = Len(d) + 2 /\ r[1] = STK_INSYNC /\ r[Len(d) + 2] = STK_OK
  <2>1. /\ Len(f) = Len(d) + 1 /\ 1 \in 1..Len(i) /\ 1 \in 1..Len(f)
        /\ Len(d) + 2 \in Len(f) + 1..Len(f) + Len(o) /\ (Len(d) + 2) - Len(f) = 1
    BY <1>3, <1>6
  <2>2. r[Len(d) + 2] = o[(Len(d) + 2) - Len(f)] /\ r[1] = f[1] /\ f[1] = i[1]
    BY <1>6, <1>7, <2>1
  <2>3. Len(r) = Len(d) + 2
    BY <1>3, <1>7, <2>1
  <2>4. QED
    BY <1>3, <2>1, <2>2, <2>3
<1>10. x \in Msgs /\ x.does = does /\ x.page = p /\ x.bytes = b /\ x.reply = r
  BY <1>4, <1>5, <1>7 DEF Msgs
<1>11. ASSUME NEW k \in 1..Len(d) PROVE r[k + 1] = d[k]
  <2>1. /\ k + 1 \in 1..Len(f) /\ (k + 1) - Len(i) = k
        /\ k + 1 \in Len(i) + 1..Len(i) + Len(d)
    BY <1>3, <1>6
  <2>2. r[k + 1] = f[k + 1] /\ f[k + 1] = d[(k + 1) - Len(i)]
    BY <1>6, <1>7, <2>1
  <2>3. QED
    BY <2>1, <2>2
<1>12. QED
  BY <1>5, <1>8, <1>9, <1>10, <1>11 DEF x, Built

LEMMA Empty == <<>> \in Seq(Octets) /\ Len(<<>>) = 0
  OBVIOUS

LEMMA PageIs ==
    ASSUME RealPages, NEW p \in Pages PROVE p \in Nat /\ p \in 0..511 /\ PageSize = 64
  BY DEF RealPages

LEMMA LoadIs ==
    ASSUME RealPages, NEW p \in Pages PROVE Load(p) \in Msgs /\ IsLoad(Load(p), p)
<1>1. p \in Nat /\ p \in 0..511 /\ PageSize = 64
  BY PageIs
<1> DEFINE lo == (p * 64) % 256
           hi == (p * 64) \div 256
           a == <<STK_LOAD_ADDRESS>>
           b == <<lo, hi>>
           h == a \o b
           n == <<>>
           x == Load(p)
<1>2. lo \in {0, 64, 128, 192} /\ hi \in 0..255 /\ lo + 256 * hi = 64 * p
  BY <1>1
<1>3. x = Message("load", p, h, n)
  BY <1>1 DEF Load, AddressOf
<1> HIDE DEF lo, hi
<1>4. lo \in Octets /\ hi \in Octets /\ STK_LOAD_ADDRESS \in Octets
  BY <1>2 DEF STK_LOAD_ADDRESS, Octets
<1>5. a \in Seq(Octets) /\ b \in Seq(Octets) /\ n \in Seq(Octets)
  BY <1>4
<1>6. Len(a) = 1 /\ a[1] = STK_LOAD_ADDRESS /\ Len(b) = 2 /\ b[1] = lo /\ b[2] = hi /\ Len(n) = 0
  BY <1>4
<1> HIDE DEF a, b, n
<1>7. /\ h \in Seq(Octets) /\ Len(h) = Len(a) + Len(b)
      /\ \A k \in 1..Len(a) : h[k] = a[k]
      /\ \A k \in Len(a) + 1..Len(a) + Len(b) : h[k] = b[k - Len(a)]
  BY <1>5
<1> HIDE DEF h
<1>8. Len(h) = 3 /\ h[1] = STK_LOAD_ADDRESS /\ h[2] = lo /\ h[3] = hi
  BY <1>6, <1>7
<1>9. h \in Seq(Octets)
  BY <1>7
<1> HIDE DEF x
<1>10. /\ x \in Msgs /\ x.does = "load" /\ x.page = p
       /\ Len(x.bytes) = Len(h) + 1 /\ x.bytes[Len(h) + 1] = CRC_EOP
       /\ \A i \in 1..Len(h) : x.bytes[i] = h[i]
       /\ Len(x.reply) = Len(n) + 2
       /\ x.reply[1] = STK_INSYNC /\ x.reply[Len(n) + 2] = STK_OK
  <2>1. Built(Message("load", p, h, n), "load", p, h, n)
    BY <1>1, <1>5, <1>9, MessageIs
  <2>2. QED
    BY <1>3, <2>1 DEF Built
<1>11. /\ Len(x.bytes) = 4 /\ x.bytes[4] = CRC_EOP
       /\ x.bytes[1] = h[1] /\ x.bytes[2] = h[2] /\ x.bytes[3] = h[3]
       /\ Len(x.reply) = 2 /\ x.reply[2] = STK_OK
  BY <1>6, <1>8, <1>10
<1>12. x \in Msgs /\ IsLoad(x, p)
  BY <1>2, <1>8, <1>10, <1>11 DEF IsLoad, Acked
<1>13. QED
  BY <1>12 DEF x

LEMMA DataIs ==
    ASSUME RealPages, NEW p \in Pages
    PROVE  Data(p) \in Seq(Octets) /\ Len(Data(p)) = 64
           /\ \A i \in 1..64 : Data(p)[i] = Image[p][i - 1]
<1>1. Image[p] \in [0..63 -> Octets] /\ PageSize = 64
  <2>1. PageSize - 1 = 63 /\ PageSize = 64
    BY PageIs
  <2>2. QED
    BY <2>1, ImageAssumption DEF Octets
<1>2. Data(p) = [i \in 1..64 |-> Image[p][i - 1]]
  BY <1>1 DEF Data
<1>3. \A i \in 1..64 : i - 1 \in 0..63
  OBVIOUS
<1>4. Data(p) \in [1..64 -> Octets]
  <2>1. \A i \in 1..64 : Image[p][i - 1] \in Octets
    BY <1>1, <1>3
  <2>2. QED
    BY <1>2, <2>1
<1>5. Data(p) \in Seq(Octets) /\ Len(Data(p)) = 64
  <2> DEFINE n == 64
  <2>1. n \in Nat /\ Data(p) \in [1..n -> Octets]
    BY <1>4
  <2> HIDE DEF n
  <2>2. Data(p) \in Seq(Octets) /\ Len(Data(p)) = n
    BY <2>1, SeqOf
  <2>3. QED
    BY <2>2 DEF n
<1>6. \A i \in 1..64 : Data(p)[i] = Image[p][i - 1]
  BY <1>2
<1>7. QED
  BY <1>5, <1>6

LEMMA ProgIs ==
    ASSUME RealPages, NEW p \in Pages PROVE Prog(p) \in Msgs /\ IsProg(Prog(p), p)
<1>1. p \in Nat /\ p \in 0..511 /\ PageSize = 64
  BY PageIs
<1> DEFINE d == Data(p)
           a == <<STK_PROG_PAGE, 0, 64, Flash>>
           h == a \o d
           n == <<>>
           x == Prog(p)
<1>2. Len(d) = 64 /\ \A i \in 1..64 : d[i] = Image[p][i - 1]
  BY DataIs
<1>3. x = Message("prog", p, h, n)
  BY <1>1 DEF Prog
<1>4. {STK_PROG_PAGE, 0, 64, Flash} \subseteq Octets
  BY DEF STK_PROG_PAGE, Flash, Octets
<1>5. a \in Seq(Octets) /\ n \in Seq(Octets) /\ d \in Seq(Octets)
  BY <1>4, DataIs
<1>6. Len(a) = 4 /\ a[1] = STK_PROG_PAGE /\ a[2] = 0 /\ a[3] = 64 /\ a[4] = Flash /\ Len(n) = 0
  BY <1>4
<1> HIDE DEF a, d, n, x
<1>7. /\ h \in Seq(Octets) /\ Len(h) = Len(a) + Len(d)
      /\ \A k \in 1..Len(a) : h[k] = a[k]
      /\ \A k \in Len(a) + 1..Len(a) + Len(d) : h[k] = d[k - Len(a)]
  BY <1>5
<1> HIDE DEF h
<1>8. /\ Len(h) = 68
      /\ h[1] = STK_PROG_PAGE /\ h[2] = 0 /\ h[3] = 64 /\ h[4] = Flash
      /\ \A k \in 5..68 : h[k] = d[k - 4]
  BY <1>2, <1>6, <1>7
<1>9. h \in Seq(Octets)
  BY <1>7
<1>10. /\ x \in Msgs /\ x.does = "prog" /\ x.page = p
       /\ Len(x.bytes) = Len(h) + 1 /\ x.bytes[Len(h) + 1] = CRC_EOP
       /\ \A i \in 1..Len(h) : x.bytes[i] = h[i]
       /\ Len(x.reply) = Len(n) + 2
       /\ x.reply[1] = STK_INSYNC /\ x.reply[Len(n) + 2] = STK_OK
  <2>1. Built(Message("prog", p, h, n), "prog", p, h, n)
    BY <1>1, <1>5, <1>9, MessageIs
  <2>2. QED
    BY <1>3, <2>1 DEF Built
<1>11. /\ Len(x.bytes) = 69 /\ x.bytes[69] = CRC_EOP
       /\ \A i \in 1..68 : x.bytes[i] = h[i]
       /\ Len(x.reply) = 2 /\ x.reply[2] = STK_OK
  BY <1>6, <1>8, <1>10
<1>12. ASSUME NEW i \in 1..64 PROVE x.bytes[i + 4] = Image[p][i - 1]
  <2>1. i + 4 \in 1..68 /\ i + 4 \in 5..68 /\ (i + 4) - 4 = i
    OBVIOUS
  <2>2. x.bytes[i + 4] = h[i + 4] /\ h[i + 4] = d[(i + 4) - 4]
    BY <2>1, <1>8, <1>11
  <2>3. QED
    BY <2>1, <2>2, <1>2
<1>13. /\ x.bytes[1] = STK_PROG_PAGE /\ x.bytes[2] = 0
       /\ x.bytes[3] = 64 /\ x.bytes[4] = Flash
  BY <1>8, <1>11
<1>15. \A i \in 1..64 : x.bytes[i + 4] = Image[p][i - 1]
  BY <1>12
<1>16. x \in Msgs /\ IsProg(x, p)
  BY <1>10, <1>11, <1>13, <1>15 DEF IsProg, Acked
<1>17. QED
  BY <1>16 DEF x

LEMMA ReadIs ==
    ASSUME RealPages, NEW p \in Pages PROVE Read(p) \in Msgs /\ IsRead(Read(p), p)
<1>1. p \in Nat /\ p \in 0..511 /\ PageSize = 64
  BY PageIs
<1> DEFINE d == Data(p)
           h == <<STK_READ_PAGE, 0, 64, Flash>>
           x == Read(p)
<1>2. Len(d) = 64 /\ \A i \in 1..64 : d[i] = Image[p][i - 1]
  BY DataIs
<1>3. x = Message("read", p, h, d)
  BY <1>1 DEF Read
<1>4. {STK_READ_PAGE, 0, 64, Flash} \subseteq Octets
  BY DEF STK_READ_PAGE, Flash, Octets
<1>5. h \in Seq(Octets) /\ d \in Seq(Octets)
  BY <1>4, DataIs
<1>6. Len(h) = 4 /\ h[1] = STK_READ_PAGE /\ h[2] = 0 /\ h[3] = 64 /\ h[4] = Flash
  BY <1>4
<1> HIDE DEF h, d, x
<1>7. /\ x \in Msgs /\ x.does = "read" /\ x.page = p
      /\ Len(x.bytes) = Len(h) + 1 /\ x.bytes[Len(h) + 1] = CRC_EOP
      /\ \A i \in 1..Len(h) : x.bytes[i] = h[i]
      /\ Len(x.reply) = Len(d) + 2
      /\ \A i \in 1..Len(d) : x.reply[i + 1] = d[i]
  <2>1. Built(Message("read", p, h, d), "read", p, h, d)
    BY <1>1, <1>5, MessageIs
  <2>2. QED
    BY <1>3, <2>1 DEF Built
<1>8. \A i \in 1..64 : x.reply[i + 1] = Image[p][i - 1]
  BY <1>2, <1>7
<1>9. x \in Msgs /\ IsRead(x, p)
  BY <1>2, <1>6, <1>7, <1>8 DEF IsRead
<1>10. QED
  BY <1>9 DEF x

LEMMA OthersAre ==
    \A x \in {Simple(STK_GET_SYNC), Version, Signed, Universal, Simple(STK_LEAVE_PROGMODE)} :
        x \in Msgs /\ IsOther(x)
<1> DEFINE n == <<>>
<1>0. n \in Seq(Octets)
  OBVIOUS
<1>10. Len(n) = 0
  OBVIOUS
<1>1. ASSUME NEW c \in {STK_GET_SYNC, STK_LEAVE_PROGMODE}
      PROVE  Simple(c) \in Msgs /\ IsOther(Simple(c))
  <2> DEFINE h == <<c>>
             x == Simple(c)
  <2>1. c \in Octets
    BY DEF STK_GET_SYNC, STK_LEAVE_PROGMODE, Octets
  <2>2. h \in Seq(Octets)
    BY <2>1
  <2>3. Len(h) = 1 /\ h[1] = c
    OBVIOUS
  <2>4. x = Message("other", 0, h, n)
    BY DEF Simple
  <2> HIDE DEF h, x, n
  <2>5. /\ x \in Msgs /\ x.does = "other"
        /\ Len(x.bytes) = Len(h) + 1 /\ x.bytes[Len(h) + 1] = CRC_EOP
        /\ \A i \in 1..Len(h) : x.bytes[i] = h[i]
        /\ Len(x.reply) = Len(n) + 2
    <3>1. Built(Message("other", 0, h, n), "other", 0, h, n)
      BY <1>0, <2>2, MessageIs
    <3>2. QED
      BY <2>4, <3>1 DEF Built
  <2>6. x \in Msgs /\ IsOther(x)
    BY <1>10, <2>3, <2>5 DEF IsOther
  <2>7. QED
    BY <2>6 DEF x
<1>2. Version \in Msgs /\ IsOther(Version)
  <2> DEFINE h == <<STK_GET_PARAMETER, STK_SW_MAJOR>>
             d == <<OPTIBOOT_MAJVER>>
             x == Version
  <2>1. {STK_GET_PARAMETER, STK_SW_MAJOR, OPTIBOOT_MAJVER} \subseteq Octets
    BY DEF STK_GET_PARAMETER, STK_SW_MAJOR, OPTIBOOT_MAJVER, Octets
  <2>2. h \in Seq(Octets) /\ d \in Seq(Octets)
    BY <2>1
  <2>3. Len(h) = 2 /\ h[1] = STK_GET_PARAMETER /\ h[2] = STK_SW_MAJOR /\ Len(d) = 1
    OBVIOUS
  <2>4. x = Message("other", 0, h, d)
    BY DEF Version
  <2> HIDE DEF h, d, x
  <2>5. /\ x \in Msgs /\ x.does = "other"
        /\ Len(x.bytes) = Len(h) + 1 /\ x.bytes[Len(h) + 1] = CRC_EOP
        /\ \A i \in 1..Len(h) : x.bytes[i] = h[i]
        /\ Len(x.reply) = Len(d) + 2
    <3>1. Built(Message("other", 0, h, d), "other", 0, h, d)
      BY <2>2, MessageIs
    <3>2. QED
      BY <2>4, <3>1 DEF Built
  <2>6. x \in Msgs /\ IsOther(x)
    BY <2>3, <2>5 DEF IsOther
  <2>7. QED
    BY <2>6 DEF x
<1>3. Signed \in Msgs /\ IsOther(Signed)
  <2> DEFINE h == <<STK_READ_SIGN>>
             d == Signature
             x == Signed
  <2>1. {STK_READ_SIGN, 30, 147, 33} \subseteq Octets
    BY DEF STK_READ_SIGN, Octets
  <2>2. h \in Seq(Octets) /\ d \in Seq(Octets)
    BY <2>1 DEF Signature
  <2>3. Len(h) = 1 /\ h[1] = STK_READ_SIGN /\ Len(d) = 3
    BY DEF Signature
  <2>4. x = Message("other", 0, h, d)
    BY DEF Signed
  <2> HIDE DEF h, d, x
  <2>5. /\ x \in Msgs /\ x.does = "other"
        /\ Len(x.bytes) = Len(h) + 1 /\ x.bytes[Len(h) + 1] = CRC_EOP
        /\ \A i \in 1..Len(h) : x.bytes[i] = h[i]
        /\ Len(x.reply) = Len(d) + 2
    <3>1. Built(Message("other", 0, h, d), "other", 0, h, d)
      BY <2>2, MessageIs
    <3>2. QED
      BY <2>4, <3>1 DEF Built
  <2>6. x \in Msgs /\ IsOther(x)
    BY <2>3, <2>5 DEF IsOther
  <2>7. QED
    BY <2>6 DEF x
<1>4. Universal \in Msgs /\ IsOther(Universal)
  <2> DEFINE h == <<STK_UNIVERSAL, 48, 0, 0, 0>>
             d == <<0>>
             x == Universal
  <2>1. {STK_UNIVERSAL, 48, 0} \subseteq Octets
    BY DEF STK_UNIVERSAL, Octets
  <2>2. h \in Seq(Octets) /\ d \in Seq(Octets)
    BY <2>1
  <2>3. /\ Len(h) = 5 /\ h[1] = STK_UNIVERSAL /\ h[2] = STK_GET_SYNC /\ h[3] = 0
        /\ Len(d) = 1
    BY DEF STK_GET_SYNC
  <2>4. x = Message("other", 0, h, d)
    BY DEF Universal
  <2> HIDE DEF h, d, x
  <2>5. /\ x \in Msgs /\ x.does = "other"
        /\ Len(x.bytes) = Len(h) + 1 /\ x.bytes[Len(h) + 1] = CRC_EOP
        /\ \A i \in 1..Len(h) : x.bytes[i] = h[i]
        /\ Len(x.reply) = Len(d) + 2
    <3>1. Built(Message("other", 0, h, d), "other", 0, h, d)
      BY <2>2, MessageIs
    <3>2. QED
      BY <2>4, <3>1 DEF Built
  <2>6. x \in Msgs /\ IsOther(x)
    BY <2>3, <2>5 DEF IsOther
  <2>7. QED
    BY <2>6 DEF x
<1>5. QED
  BY <1>1, <1>2, <1>3, <1>4

LEMMA SessionIs ==
    ASSUME RealPages
    PROVE  /\ Session \in Seq(Msgs) /\ Len(Session) \in Nat \ {0}
           /\ Session[1] = Simple(STK_GET_SYNC)
           /\ \A m \in 1..Len(Session) : IsMessage(Session[m])
           /\ \A m \in 1..Len(Session)-1 :
                 Session[m + 1].does \in {"prog", "read"} =>
                     Session[m].does = "load" /\ Session[m].page = Session[m + 1].page
           /\ \A m, k \in 1..Len(Session) :
                 Session[m].does = "prog" /\ Session[k].does = "read" => m < k
           /\ \A k \in 1..Len(Session) :
                 Session[k].does = "read" =>
                     \E m \in 1..k-1 :
                         Session[m].does = "prog" /\ Session[m].page = Session[k].page
<1> DEFINE n == Len(Order)
           a == <<Simple(STK_GET_SYNC), Version, Signed, Universal>>
           b == Paged(Prog)
           c == Paged(Read)
           z == <<Simple(STK_LEAVE_PROGMODE)>>
           Good(x) == x \in Msgs /\ IsMessage(x)
<1>1. n \in Nat /\ \A i \in 1..2 * n : Order[(i + 1) \div 2] \in Pages
  <2>1. n \in Nat /\ \A k \in 1..n : Order[k] \in Pages
    BY OrderAssumption
  <2>2. \A i \in 1..2 * n : (i + 1) \div 2 \in 1..n
    BY <2>1
  <2>3. QED
    BY <2>1, <2>2
<1>2. a \in Seq(Msgs) /\ Len(a) = 4 /\ a[1] = Simple(STK_GET_SYNC)
      /\ \A i \in 1..4 : Good(a[i]) /\ a[i].does = "other"
  BY OthersAre DEF IsMessage, IsOther
<1>3. z \in Seq(Msgs) /\ Len(z) = 1 /\ Good(z[1]) /\ z[1].does = "other"
  BY OthersAre DEF IsMessage, IsOther
<1>4. b \in Seq(Msgs) /\ Len(b) = 2 * n
      /\ \A i \in 1..2 * n :
            /\ Good(b[i])
            /\ b[i].page = Order[(i + 1) \div 2]
            /\ b[i].does = IF i % 2 = 1 THEN "load" ELSE "prog"
  <2>1. b = [i \in 1..2 * n |->
               IF i % 2 = 1 THEN Load(Order[(i + 1) \div 2]) ELSE Prog(Order[(i + 1) \div 2])]
    BY DEF Paged
  <2>2. \A i \in 1..2 * n :
            /\ Good(b[i])
            /\ b[i].page = Order[(i + 1) \div 2]
            /\ b[i].does = IF i % 2 = 1 THEN "load" ELSE "prog"
    <3> TAKE i \in 1..2 * n
    <3> DEFINE p == Order[(i + 1) \div 2]
    <3>1. p \in Pages
      BY <1>1
    <3>2. CASE i % 2 = 1
      <4>1. b[i] = Load(p)
        BY <3>2, <2>1
      <4>2. QED
        BY <4>1, <3>1, <3>2, LoadIs DEF IsMessage, IsLoad
    <3>3. CASE i % 2 # 1
      <4>1. b[i] = Prog(p)
        BY <3>3, <2>1
      <4>2. QED
        BY <4>1, <3>1, <3>3, ProgIs DEF IsMessage, IsProg
    <3>4. QED
      BY <3>2, <3>3
  <2>3. QED
    BY <2>1, <2>2, <1>1
<1>5. c \in Seq(Msgs) /\ Len(c) = 2 * n
      /\ \A i \in 1..2 * n :
            /\ Good(c[i])
            /\ c[i].page = Order[(i + 1) \div 2]
            /\ c[i].does = IF i % 2 = 1 THEN "load" ELSE "read"
  <2>1. c = [i \in 1..2 * n |->
               IF i % 2 = 1 THEN Load(Order[(i + 1) \div 2]) ELSE Read(Order[(i + 1) \div 2])]
    BY DEF Paged
  <2>2. \A i \in 1..2 * n :
            /\ Good(c[i])
            /\ c[i].page = Order[(i + 1) \div 2]
            /\ c[i].does = IF i % 2 = 1 THEN "load" ELSE "read"
    <3> TAKE i \in 1..2 * n
    <3> DEFINE p == Order[(i + 1) \div 2]
    <3>1. p \in Pages
      BY <1>1
    <3>2. CASE i % 2 = 1
      <4>1. c[i] = Load(p)
        BY <3>2, <2>1
      <4>2. QED
        BY <4>1, <3>1, <3>2, LoadIs DEF IsMessage, IsLoad
    <3>3. CASE i % 2 # 1
      <4>1. c[i] = Read(p)
        BY <3>3, <2>1
      <4>2. QED
        BY <4>1, <3>1, <3>3, ReadIs DEF IsMessage, IsRead
    <3>4. QED
      BY <3>2, <3>3
  <2>3. QED
    BY <2>1, <2>2, <1>1
<1> HIDE DEF a, b, c, z
<1>6. Session = a \o b \o c \o z
  BY DEF Session, a, b, c, z
<1>7. /\ Session \in Seq(Msgs) /\ Len(Session) = 4 * n + 5
      /\ \A m \in 1..4 : Session[m] = a[m]
      /\ \A m \in 5..2 * n + 4 : Session[m] = b[m - 4]
      /\ \A m \in 2 * n + 5..4 * n + 4 : Session[m] = c[m - 2 * n - 4]
      /\ Session[4 * n + 5] = z[1]
  <2> DEFINE ab == a \o b
             abc == ab \o c
  <2>0. a \in Seq(Msgs) /\ b \in Seq(Msgs) /\ c \in Seq(Msgs) /\ z \in Seq(Msgs)
    BY <1>2, <1>3, <1>4, <1>5
  <2>1. /\ ab \in Seq(Msgs) /\ Len(ab) = Len(a) + Len(b)
        /\ \A i \in 1..Len(a) : ab[i] = a[i]
        /\ \A i \in Len(a) + 1..Len(a) + Len(b) : ab[i] = b[i - Len(a)]
    BY <2>0
  <2> HIDE DEF ab
  <2>2. /\ abc \in Seq(Msgs) /\ Len(abc) = Len(ab) + Len(c)
        /\ \A i \in 1..Len(ab) : abc[i] = ab[i]
        /\ \A i \in Len(ab) + 1..Len(ab) + Len(c) : abc[i] = c[i - Len(ab)]
    <3>1. ab \in Seq(Msgs)
      BY <2>1
    <3>2. QED
      BY <2>0, <3>1
  <2> HIDE DEF abc
  <2>3. /\ Session \in Seq(Msgs) /\ Len(Session) = Len(abc) + Len(z)
        /\ \A i \in 1..Len(abc) : Session[i] = abc[i]
        /\ \A i \in Len(abc) + 1..Len(abc) + Len(z) : Session[i] = z[i - Len(abc)]
    <3> DEFINE s == abc \o z
    <3>1. abc \in Seq(Msgs)
      BY <2>2
    <3>2. /\ s \in Seq(Msgs) /\ Len(s) = Len(abc) + Len(z)
          /\ \A i \in 1..Len(abc) : s[i] = abc[i]
          /\ \A i \in Len(abc) + 1..Len(abc) + Len(z) : s[i] = z[i - Len(abc)]
      BY <2>0, <3>1
    <3>3. Session = s
      BY <1>6 DEF abc, ab
    <3>4. QED
      BY <3>2, <3>3
  <2> DEFINE l == (4 + 2 * n) + 2 * n
  <2>4. /\ Len(a) = 4 /\ Len(ab) = 4 + 2 * n /\ Len(abc) = l /\ Len(Session) = l + 1
    BY <2>1, <2>2, <2>3, <1>2, <1>3, <1>4, <1>5
  <2>12. /\ \A i \in 1..l : Session[i] = abc[i]
         /\ \A i \in l + 1..l + 1 : Session[i] = z[i - l]
         /\ \A i \in 1..4 + 2 * n : abc[i] = ab[i]
         /\ \A i \in (4 + 2 * n) + 1..l : abc[i] = c[i - (4 + 2 * n)]
         /\ \A i \in 1..4 : ab[i] = a[i]
         /\ \A i \in 4 + 1..4 + 2 * n : ab[i] = b[i - 4]
    BY <2>1, <2>2, <2>3, <2>4, <1>2, <1>3, <1>4, <1>5
  <2>5. l = 4 * n + 4 /\ l \in Nat
    BY <1>1
  <2> HIDE DEF l
  <2>6. Session[4 * n + 5] = z[1]
    <3>1. 4 * n + 5 \in l + 1..l + 1 /\ (4 * n + 5) - l = 1
      BY <2>5, <1>1
    <3>2. QED
      BY <3>1, <2>12
  <2>7. \A m \in 1..4 : Session[m] = a[m]
    <3>1. \A m \in 1..4 : m \in 1..l /\ m \in 1..4 + 2 * n
      BY <2>5, <1>1
    <3>2. QED
      BY <3>1, <2>12
  <2>8. \A m \in 5..2 * n + 4 : Session[m] = b[m - 4]
    <3>1. \A m \in 5..2 * n + 4 : m \in 1..l /\ m \in 1..4 + 2 * n /\ m \in 4 + 1..4 + 2 * n
      BY <2>5, <1>1
    <3>2. QED
      BY <3>1, <2>12
  <2>9. \A m \in 2 * n + 5..4 * n + 4 : Session[m] = c[m - 2 * n - 4]
    <3>1. \A m \in 2 * n + 5..4 * n + 4 :
            m \in 1..l /\ m \in (4 + 2 * n) + 1..l
            /\ m - (4 + 2 * n) = m - 2 * n - 4
      BY <2>5, <1>1
    <3>2. QED
      BY <3>1, <2>12
  <2>10. l + 1 = 4 * n + 5
    BY <2>5, <1>1
  <2>11. QED
    BY <2>3, <2>4, <2>6, <2>7, <2>8, <2>9, <2>10
<1> HIDE DEF n, Good
<1>8. \A m \in 1..Len(Session) : Good(Session[m])
  <2> TAKE m \in 1..Len(Session)
  <2>1. m \in 1..4 \/ m \in 5..2 * n + 4 \/ m \in 2 * n + 5..4 * n + 4 \/ m = 4 * n + 5
    <3>1. n \in Nat /\ m \in 1..4 * n + 5
      BY <1>1, <1>7
    <3>2. QED
      BY <3>1
  <2>2. m \in 5..2 * n + 4 => m - 4 \in 1..2 * n
    BY <1>1 DEF n
  <2>3. m \in 2 * n + 5..4 * n + 4 => m - 2 * n - 4 \in 1..2 * n
    BY <1>1 DEF n
  <2>4. QED
    BY <2>1, <2>2, <2>3, <1>2, <1>3, <1>4, <1>5, <1>7
<1>9. ASSUME NEW m \in 1..Len(Session)-1, Session[m + 1].does \in {"prog", "read"}
      PROVE  Session[m].does = "load" /\ Session[m].page = Session[m + 1].page
  <2>0. n \in Nat /\ m \in Nat
    BY <1>1
  <2>1. m + 1 \in 5..2 * n + 4 \/ m + 1 \in 2 * n + 5..4 * n + 4
    <3> DEFINE k == m + 1
    <3>1. k \in 1..4 * n + 5 /\ Session[k].does \in {"prog", "read"}
      BY <1>7, <1>9
    <3> HIDE DEF k
    <3>2. k \in 1..4 \/ k \in 5..2 * n + 4 \/ k \in 2 * n + 5..4 * n + 4 \/ k = 4 * n + 5
      BY <2>0, <3>1
    <3>3. QED
      BY <3>1, <3>2, <1>2, <1>3, <1>7 DEF k
  <2>2. ASSUME NEW i \in 1..2 * n, i % 2 # 1
        PROVE  i - 1 \in 1..2 * n /\ (i - 1) % 2 = 1 /\ ((i - 1) + 1) \div 2 = (i + 1) \div 2
    BY <2>0, <2>2
  <2>3. CASE m + 1 \in 5..2 * n + 4
    <3> DEFINE i == m - 3
    <3>1. i \in 1..2 * n /\ (m + 1) - 4 = i
      BY <2>0, <2>3
    <3>2. Session[m + 1] = b[i]
      BY <3>1, <2>3, <1>7
    <3>3. i % 2 # 1
      BY <3>1, <3>2, <1>4, <1>9
    <3>4. i - 1 \in 1..2 * n /\ (i - 1) % 2 = 1 /\ ((i - 1) + 1) \div 2 = (i + 1) \div 2
      BY <3>1, <3>3, <2>2
    <3>5. m \in 5..2 * n + 4 /\ m - 4 = i - 1
      BY <2>0, <2>3, <3>4
    <3>6. Session[m] = b[i - 1]
      BY <3>5, <1>7
    <3>7. QED
      BY <3>1, <3>2, <3>4, <3>6, <1>4
  <2>4. CASE m + 1 \in 2 * n + 5..4 * n + 4
    <3> DEFINE i == m - 2 * n - 3
    <3>1. i \in 1..2 * n /\ (m + 1) - 2 * n - 4 = i
      BY <2>0, <2>4
    <3>2. Session[m + 1] = c[i]
      BY <3>1, <2>4, <1>7
    <3>3. i % 2 # 1
      BY <3>1, <3>2, <1>5, <1>9
    <3>4. i - 1 \in 1..2 * n /\ (i - 1) % 2 = 1 /\ ((i - 1) + 1) \div 2 = (i + 1) \div 2
      BY <3>1, <3>3, <2>2
    <3>5. m \in 2 * n + 5..4 * n + 4 /\ m - 2 * n - 4 = i - 1
      BY <2>0, <2>4, <3>4
    <3>6. Session[m] = c[i - 1]
      BY <3>5, <1>7
    <3>7. QED
      BY <3>1, <3>2, <3>4, <3>6, <1>5
  <2>5. QED
    BY <2>1, <2>3, <2>4
<1>10. ASSUME NEW m \in 1..Len(Session)
       PROVE  /\ Session[m].does = "prog" => m \in 5..2 * n + 4
              /\ Session[m].does = "read" => m \in 2 * n + 5..4 * n + 4
  <2>0. n \in Nat
    BY <1>1
  <2>1. m \in 1..4 \/ m \in 5..2 * n + 4 \/ m \in 2 * n + 5..4 * n + 4 \/ m = 4 * n + 5
    <3>1. m \in 1..4 * n + 5
      BY <1>7
    <3>2. QED
      BY <2>0, <3>1
  <2>2. m \in 5..2 * n + 4 => m - 4 \in 1..2 * n
    BY <2>0
  <2>3. m \in 2 * n + 5..4 * n + 4 => m - 2 * n - 4 \in 1..2 * n
    BY <2>0
  <2>4. QED
    BY <2>1, <2>2, <2>3, <1>2, <1>3, <1>4, <1>5, <1>7
<1>11. ASSUME NEW m \in 1..Len(Session), NEW k \in 1..Len(Session),
              Session[m].does = "prog", Session[k].does = "read"
       PROVE  m < k
  <2>1. n \in Nat /\ m \in 5..2 * n + 4 /\ k \in 2 * n + 5..4 * n + 4
    BY <1>1, <1>10, <1>11
  <2>2. QED
    BY <2>1
<1>12. ASSUME NEW k \in 1..Len(Session), Session[k].does = "read"
       PROVE  \E m \in 1..k-1 : Session[m].does = "prog" /\ Session[m].page = Session[k].page
  <2>1. n \in Nat /\ k \in 2 * n + 5..4 * n + 4
    BY <1>1, <1>10, <1>12
  <2> DEFINE i == k - 2 * n - 4
  <2>2. i \in 1..2 * n /\ Session[k] = c[i]
    <3>1. i \in 1..2 * n
      BY <2>1
    <3>2. QED
      BY <2>1, <3>1, <1>7
  <2>3. i + 4 \in 1..k-1 /\ i + 4 \in 5..2 * n + 4 /\ (i + 4) - 4 = i
    BY <2>1, <2>2
  <2> HIDE DEF i
  <2>4. Session[i + 4] = b[i]
    BY <2>3, <1>7
  <2>5. i % 2 # 1
    BY <2>2, <1>5, <1>12
  <2>6. Session[i + 4].does = "prog" /\ Session[i + 4].page = Session[k].page
    BY <2>2, <2>4, <2>5, <1>4, <1>5
  <2>7. QED
    BY <2>3, <2>6
<1>13. QED
  <2>1. 4 * n + 5 \in Nat \ {0} /\ Session[1] = a[1]
    BY <1>1, <1>7 DEF n
  <2>2. QED
    BY <2>1, <1>2, <1>7, <1>8, <1>9, <1>11, <1>12 DEF Good

----------------------------------------------------------------------------
(* What the reset flags say *)

(* The application runs with the flags cleared, the bootloader's loop with *)
(* those of a reset; the watchdog's is seen at once; and a part that was   *)
(* reset and has not yet left for the application is as a reset leaves it. *)
ResetInv ==
    /\ cause \in Causes
    /\ pc = "app" => rstfr = {}
    /\ pc \notin {"app", "start"} => rstfr # {}
    /\ "WDT" \in rstfr => pc = "start" /\ cause = "WDT"
    /\ rstfr # {} => cause \in rstfr /\ ~configured

LEMMA ResetInit == Init => ResetInv
  BY DEF Init, BootInit, ResetInv, Causes

LEMMA ResetKept == ResetInv /\ [Next]_vars => ResetInv'
<1> SUFFICES ASSUME ResetInv, [Next]_vars PROVE ResetInv'
  OBVIOUS
<1> USE DEF ResetInv
<1>1. ASSUME NEW why \in Causes, Restart(why), pc # "start" \/ rstfr = {}
      PROVE  ResetInv'
  BY <1>1 DEF Restart, Causes
<1>2. ASSUME UNCHANGED <<pc, resets>> PROVE ResetInv'
  BY <1>2 DEF resets
<1>3. ASSUME UNCHANGED resets, pc \notin {"app", "start"}, pc' \notin {"app", "start"}
      PROVE  ResetInv'
  BY <1>3 DEF resets
<1>4. CASE Bootloader
  <2>1. CASE SoftwareReset
    <3>1. Restart("SW") /\ rstfr = {}
      BY <2>1 DEF SoftwareReset, ResetItself
    <3>2. QED
      BY <3>1, <1>1 DEF Causes
  <2>2. CASE StartApp
    BY <2>2 DEF StartApp, FlagsCleared
  <2>3. CASE StartLoop
    BY <2>3 DEF StartLoop, ToApp, resets
  <2>4. CASE GetCommand
    BY <2>4, <1>3 DEF GetCommand
  <2>5. CASE GetArgument
    BY <2>5, <1>3 DEF GetArgument
  <2>6. CASE GetData
    BY <2>6, <1>3 DEF GetData
  <2>7. CASE VerifySpace
    BY <2>7, <1>3 DEF VerifySpace
  <2>8. CASE WritePage
    BY <2>8, <1>3 DEF WritePage, resets
  <2>9. CASE Watchdog
    <3>1. Restart("WDT") /\ pc # "start"
      BY <2>9 DEF Watchdog, Bites, Waiting
    <3>2. QED
      BY <3>1, <1>1 DEF Causes
  <2>10. CASE Unread
    BY <2>10, <1>2 DEF Unread, command
  <2>11. QED
    BY <1>4, <2>1, <2>2, <2>3, <2>4, <2>5, <2>6, <2>7, <2>8, <2>9, <2>10
       DEF Bootloader, Runs, Start, Loop
<1>5. CASE Begin
  <2>1. CASE Restart("EXT")
    BY <1>1, <1>5, <2>1 DEF Begin, Quiet, Causes
  <2>2. CASE UNCHANGED boot
    BY <1>2, <2>2 DEF boot, command
  <2>3. QED
    BY <1>5, <2>1, <2>2 DEF Begin
<1>6. CASE Send \/ Receive \/ GiveUp \/ Stale \/ Lose \/ Garble
  BY <1>2, <1>6 DEF Send, Receive, GiveUp, Stale, Lose, Garble, boot, command
<1>7. CASE Outside
  <2>1. CASE Enter
    BY <2>1 DEF Enter, resets
  <2>2. CASE pc # "start" /\ \E why \in {"POR", "BOD", "EXT", "UPDI"} : Restart(why)
    BY <1>1, <2>2 DEF Causes
  <2>3. QED
    BY <1>7, <2>1, <2>2 DEF Outside
<1>8. CASE UNCHANGED vars
  BY <1>2, <1>8 DEF vars, boot, command
<1>9. QED
  BY <1>4, <1>5, <1>6, <1>7, <1>8 DEF Next, Host

LEMMA ResetInvHolds == Spec => []ResetInv
  BY ResetInit, ResetKept, PTL DEF Spec

(* Where the bootloader goes after a reset: to the application after the   *)
(* watchdog's, and after no other but a brown-out's.                       *)
Decides ==
    pc = "start" /\ pc' # "start" =>
        /\ cause = "WDT" => pc' = "app"
        /\ pc' = "app" => cause \in {"WDT", "BOD"}

LEMMA StepDecides == ResetInv /\ [Next]_vars => Decides
<1> SUFFICES ASSUME ResetInv, [Next]_vars, pc = "start", pc' # "start"
             PROVE  /\ cause = "WDT" => pc' = "app"
                    /\ pc' = "app" => cause \in {"WDT", "BOD"}
  BY DEF Decides
<1>1. StartApp \/ StartLoop
  <2>1. ~UNCHANGED vars /\ ~Lose /\ ~Garble /\ ~Host
    BY DEF vars, boot, command, Lose, Garble, Host, Begin, Quiet, Send, Receive, GiveUp,
           Stale, Restart
  <2>2. ~Outside
    BY DEF Outside, Enter, Restart
  <2>3. ~SoftwareReset /\ ~Loop /\ ~Watchdog /\ ~Unread
    BY DEF SoftwareReset, ResetItself, Restart, Loop, GetCommand, GetArgument, GetData,
           VerifySpace, WritePage, Watchdog, Bites, Waiting, Unread
  <2>4. QED
    BY <2>1, <2>2, <2>3 DEF Next, Bootloader, Runs, Start
<1>2. CASE StartApp
  <2>1. cause \in Causes /\ cause \in rstfr /\ pc' = "app"
    BY <1>2 DEF StartApp, ResetInv
  <2>2. "WDT" \in rstfr => cause = "WDT"
    BY DEF ResetInv
  <2>3. rstfr \cap ENTRYCOND_REQUIRE = {} => cause \in {"WDT", "BOD"}
    BY <2>1 DEF ENTRYCOND_REQUIRE, Causes
  <2>4. QED
    BY <1>2, <2>1, <2>2, <2>3 DEF StartApp, ToApp
<1>3. CASE StartLoop
  BY <1>3 DEF StartLoop, ToApp, ResetInv
<1>4. QED
  BY <1>1, <1>2, <1>3

(* ResetDecides, for every image, line and number of resets: the cause is  *)
(* among the flags the entry condition looks at, and none but the          *)
(* bootloader's own start leads out of it.                                 *)
THEOREM ResetsDecide == Spec => ResetDecides
<1>1. ResetInv => (pc \in Waiting \cup {"write", "spin"} => ~configured)
  BY DEF ResetInv, Waiting
<1>2. ResetInv /\ [Next]_vars =>
        [pc = "start" /\ pc' # "start" =>
              /\ cause = "WDT" => pc' = "app"
              /\ pc' = "app" => cause \in {"WDT", "BOD"}]_vars
  BY StepDecides DEF Decides
<1>3. QED
  BY <1>1, <1>2, ResetInvHolds, PTL DEF Spec, ResetDecides

----------------------------------------------------------------------------
(* Bootloader and host, while one byte is lost or changes and nothing else *)
(* happens                                                                 *)

Calm == losses + garbles <= 1 /\ outside = 0 /\ ~misled

Words == 0..DataSpace-1
PageData == [0..63 -> Octets]
CommandType ==
    /\ pc \in Waiting \cup {"app", "start", "write", "spin"}
    /\ ch \in Octets /\ args \in Seq(Octets) /\ Len(args) <= Arguments(ch)
    /\ pc = "args" => Len(args) < Arguments(ch)
    /\ address \in Words /\ length \in Octets
MemoryType == buffer \in PageData /\ flash \in [Pages -> PageData]
LineType == line \in Seq(Octets) /\ replies \in Seq(Octets)
HostType ==
    /\ host \in {"idle", "send", "wait"} /\ message \in 1..Len(Session)
    /\ expected \in Seq(Octets) /\ written \subseteq Pages /\ verified \subseteq Pages
    /\ host = "wait" => expected # <<>>
    /\ losses \in Nat /\ garbles \in Nat /\ outside \in Nat
    /\ misled => garbles > 0
TypeInv == CommandType /\ MemoryType /\ LineType /\ HostType

Does(what) == Current.does = what
Home == 64 * Current.page
Placed == Does("prog") \/ Does("read")   \* a message about a page, at its address
Clean == buffer = EmptyBuffer

(* A reset is the host's or the watchdog's. *)
CalmResets ==
    /\ pc = "start" => rstfr # {}
    /\ "WDT" \notin rstfr => rstfr \subseteq {"EXT"}

(* No more is answered than is waited for. *)
Owed ==
    /\ host = "send" => replies = <<>>
    /\ host = "wait" => Len(replies) <= Len(expected)
    /\ host = "wait" /\ Does("prog") =>
          /\ Len(expected) <= 2 /\ expected[Len(expected)] = STK_OK
          /\ Len(expected) = 2 => expected[1] = STK_INSYNC

(* An STK_OK in answer to the data of a page means that it is written, if  *)
(* they have not changed on the way.                                       *)
FlashInv ==
    /\ ~stray
    /\ garbles = 0 =>
        /\ \A p \in Pages : flash[p] \in {Old[p], Image[p]}
        /\ \A p \in written : flash[p] = Image[p]
        /\ host = "wait" /\ Does("prog") /\ (\E i \in 1..Len(replies) : replies[i] = STK_OK)
             => flash[Current.page] = Image[Current.page]

Asked == host = "wait" /\ replies = <<>> /\ expected = Current.reply

(* The session so far: what is to be written comes before what is read.    *)
Progress ==
    /\ \A m \in 1..message-1 : Session[m].does = "prog" => Session[m].page \in written
    /\ verified \subseteq written
    /\ verified # {} => \E m \in 1..message : Session[m].does = "read"

(* While the host is told what is in a page, each byte that is still to    *)
(* come is the flash's, and those that have come were as expected.         *)
Told == Len(Current.reply) - Len(expected)
Truthful(i) ==
    \/ flash[Current.page][i] = Image[Current.page][i]
    \/ i + 2 > Told /\ replies[i + 2 - Told] = flash[Current.page][i]
Telling ==
    /\ Told \in Nat /\ After(expected, Current.reply, Told)
    /\ Asked \/ (Len(replies) = Len(expected) /\ \A i \in 0..63 : Truthful(i))
ReadBack ==
    garbles = 1 =>
        /\ \A p \in verified : flash[p] = Image[p]
        /\ host = "wait" /\ Does("read") =>
              flash[Current.page] = Image[Current.page] \/ Telling

(* Nobody listens, and the watchdog or its reset is to come or has come. *)
Off == pc \in {"app", "spin"} \/ (pc = "start" /\ "WDT" \in rstfr)

(* Reset by the host, and about to listen. *)
Fresh ==
    /\ pc = "start" /\ rstfr = {"EXT"} /\ Clean
    /\ message = 1 /\ replies = <<>>
    /\ \/ host = "send" /\ line = <<>>
       \/ Asked /\ line = Current.bytes
       \/ Asked /\ After(line, Current.bytes, 1) /\ losses = 1

(* Between two messages.  A page's address is set before its data come. *)
Rested ==
    /\ pc = "command" /\ line = <<>> /\ Clean
    /\ host = "send" /\ Placed => address = Home
    /\ host = "wait" /\ Does("load") => address = Home

(* In step: what is on the line is the rest of the message, ... *)
Begun ==
    /\ pc = "command" /\ Asked /\ Clean /\ line = Current.bytes
    /\ Placed => address = Home
Arg ==
    /\ pc = "args" /\ Asked /\ Clean /\ ch = Current.bytes[1]
    /\ \A i \in 1..Len(args) : args[i] = Current.bytes[i + 1]
    /\ After(line, Current.bytes, Len(args) + 1)
    /\ ch \in {STK_PROG_PAGE, STK_READ_PAGE} /\ Len(args) = 2 => length = 64
    /\ Placed => address = Home
    /\ Does("load") /\ Len(args) = 1 => address % 256 = args[1]
Filled ==
    \A i \in 0..63 :
        buffer[i] = IF i < 64 - length THEN Image[Current.page][i] ELSE Erased
(* ... of a page's data as many as the count says (once one has changed it *)
(* does not matter what they are), ...                                     *)
Filling ==
    /\ Asked /\ Does("prog") /\ ch = STK_PROG_PAGE /\ length <= 64
    /\ address = (Home + MAPPED_PROGMEM_START + (64 - length)) % DataSpace
    /\ Len(line) = length + 1
    /\ garbles = 0 => Filled /\ After(line, Current.bytes, 68 - length)
    /\ pc = IF length = 0 THEN "verify" ELSE "data"
(* ... the terminator, ... *)
End ==
    /\ pc = "verify" /\ Asked /\ Clean /\ ~Does("prog") /\ ch = Current.bytes[1]
    /\ Len(line) = 1 /\ line[1] = CRC_EOP
    /\ Does("load") \/ Does("read") => address = Home
    /\ Does("read") => length = 64 /\ args[3] = Flash
(* ... or all is read. *)
Writing ==
    /\ pc = "write" /\ Does("prog") /\ host \in {"wait", "idle"} /\ line = <<>>
    /\ address = (Home + MAPPED_PROGMEM_START + 64) % DataSpace
    /\ host = "wait" => Len(replies) < Len(expected)
    /\ garbles = 0 =>
        /\ host = "wait" /\ buffer = Image[Current.page]
        /\ Len(replies) = 1 => replies[1] = STK_INSYNC

(* Out of step: the command is lost, ... *)
NoCommand ==
    /\ pc = "command" /\ Asked /\ Clean /\ After(line, Current.bytes, 1)
    /\ losses = 0 => message = 1
(* ... so that an argument is taken for it, with the terminator in its     *)
(* place, which only the messages without effect have; ...                 *)
Slip ==
    /\ pc = "verify" /\ Asked /\ Clean /\ losses = 1
    /\ Arguments(ch) = 0 /\ ch # STK_READ_SIGN
    /\ \/ Does("other") /\ Len(line) = 1
       \/ Does("load") /\ Len(line) = 2 /\ line[2] = CRC_EOP
(* ... an argument is lost, so that the terminator is taken for it, ... *)
ShortArgs ==
    /\ pc = "args" /\ Asked /\ losses = 1 /\ ch # STK_PROG_PAGE
    /\ Len(line) + Len(args) = Arguments(ch)
(* ... or for the last of the data; ... *)
ShortProg ==
    /\ pc = "args" /\ Asked /\ losses = 1 /\ ch = STK_PROG_PAGE
    /\ Len(line) + Len(args) = 67
    /\ Len(args) < 2 => line[2 - Len(args)] = Flash
    /\ Len(args) = 2 => length \in {64, 70}
Hungry ==
    /\ pc = "data" /\ losses = 1 /\ replies = <<>>
    /\ length > 0 /\ Len(line) <= length /\ (length - Len(line)) % 2 = 0
    /\ host = "send" => message = 1 /\ line = <<>>
(* ... then what comes is no terminator, or nothing comes. *)
Hung ==
    /\ pc = "verify" /\ (line = <<>> \/ line[1] # CRC_EOP)
    /\ losses + garbles = 0 =>
                     /\ ch = CRC_EOP /\ Clean /\ message = 1 /\ replies = <<>>
                     /\ line = <<>> \/ (Asked /\ line = Current.bytes)
(* The terminator of a message whose last argument was taken for it. *)
Spare ==
    /\ pc = "command" /\ losses = 1 /\ line # <<>> /\ line[1] = CRC_EOP
    /\ \/ Len(line) = 1
       \/ Asked /\ Tail(line) = Current.bytes

Modes ==
    \/ Off \/ Fresh \/ Rested
    \/ Begun \/ Arg \/ Filling \/ End \/ Writing
    \/ NoCommand \/ Slip \/ ShortArgs \/ ShortProg \/ Hungry \/ Hung \/ Spare

UploadInv == Progress /\ (Calm => CalmResets /\ Owed /\ FlashInv /\ ReadBack /\ Modes)

LEMMA ModIs ==
    ASSUME NEW n \in Nat \ {0}, NEW a \in Int
    PROVE  /\ a % n \in 0..n-1
           /\ a \in 0..n-1 => a % n = a
           /\ n <= a /\ a < n + n => a % n = a - n
           /\ -n <= a /\ a < 0 => a % n = a + n
<1>1. a % n \in 0..n-1
  OBVIOUS
<1>2. a \in 0..n-1 => a % n = a
  OBVIOUS
<1>3. n <= a /\ a < n + n => a % n = a - n
  OBVIOUS
<1>4. -n <= a /\ a < 0 => a % n = a + n
  OBVIOUS
<1>5. QED
  BY <1>1, <1>2, <1>3, <1>4

LEMMA SpaceIs == /\ MAPPED_PROGMEM_START = 64 * 512 /\ DataSpace = 64 * 1024
                 /\ MAPPED_EEPROM_START = 64 * 80
  BY DEF DataSpace, MAPPED_PROGMEM_START, MAPPED_EEPROM_START
LEMMA WordsAre ==
    /\ DataSpace \in Nat \ {0} /\ DataSpace = 256 * 256
    /\ \A a : a \in Words <=> a \in Nat /\ a < DataSpace
<1>1. DataSpace \in Nat \ {0} /\ DataSpace = 256 * 256
  BY SpaceIs
<1>2. DataSpace \in Nat
  BY <1>1
<1>3. \A a : a \in Words <=> a \in Nat /\ a < DataSpace
  BY <1>2 DEF Words
<1>4. QED
  BY <1>1, <1>3

LEMMA SpaceMod ==
    \A a \in Int :
        /\ a % DataSpace \in 0..DataSpace-1 /\ a % DataSpace \in Int
        /\ a \in 0..DataSpace-1 => a % DataSpace = a
        /\ DataSpace <= a /\ a < DataSpace + DataSpace => a % DataSpace = a - DataSpace
        /\ -DataSpace <= a /\ a < 0 => a % DataSpace = a + DataSpace
<1>1. DataSpace \in Nat \ {0}
  BY SpaceIs
<1> TAKE a \in Int
<1>2. /\ a % DataSpace \in 0..DataSpace-1
      /\ a \in 0..DataSpace-1 => a % DataSpace = a
      /\ DataSpace <= a /\ a < DataSpace + DataSpace => a % DataSpace = a - DataSpace
      /\ -DataSpace <= a /\ a < 0 => a % DataSpace = a + DataSpace
  BY <1>1, ModIs
<1>3. a % DataSpace \in Int
  BY <1>1, <1>2
<1>4. QED
  BY <1>2, <1>3
LEMMA MappedIs ==
    ASSUME NEW d, address \in Words PROVE Mapped(d) \in Words /\ Mapped(d) \in Int
<1>1. DataSpace \in Nat \ {0}
  BY SpaceIs
<1> DEFINE b == IF d = Flash THEN MAPPED_PROGMEM_START ELSE MAPPED_EEPROM_START
           c == address + b
<1>2. b \in Nat
  BY SpaceIs
<1>3. Mapped(d) = c % DataSpace
  BY DEF Mapped
<1> HIDE DEF b
<1>4. c \in Int
  BY <1>1, <1>2 DEF Words
<1> HIDE DEF c
<1>5. c % DataSpace \in Words /\ c % DataSpace \in Int
  BY <1>4, SpaceMod DEF Words
<1>6. QED
  BY <1>3, <1>5

LEMMA ArgumentsIs ==
    \A c \in Octets :
        /\ Arguments(c) \in 0..20
        /\ Arguments(c) = 0 <=>
              c \notin {STK_GET_PARAMETER, STK_SET_DEVICE, STK_SET_DEVICE_EXT,
                        STK_LOAD_ADDRESS, STK_UNIVERSAL, STK_PROG_PAGE, STK_READ_PAGE}
  BY DEF Arguments, Octets, STK_GET_PARAMETER, STK_SET_DEVICE, STK_SET_DEVICE_EXT,
         STK_LOAD_ADDRESS, STK_UNIVERSAL, STK_PROG_PAGE, STK_READ_PAGE

LEMMA LongEnough ==
    ASSUME NEW s \in Seq(Octets), Len(s) \in {2, 3, 5, 66} PROVE s # <<>> /\ Len(s) >= 2
<1> DEFINE l == Len(s)
<1>1. l \in {2, 3, 5, 66} /\ (s = <<>> => l = 0)
  BY Empty
<1> HIDE DEF l
<1>2. l >= 2 /\ l # 0
  BY <1>1
<1>3. QED
  BY <1>1, <1>2 DEF l

LEMMA CurrentIs ==
    ASSUME RealPages, HostType
    PROVE  /\ Current \in Msgs /\ IsMessage(Current)
           /\ Current.bytes \in Seq(Octets) /\ Current.reply \in Seq(Octets)
           /\ Current.reply # <<>>
           /\ Current.does # "other" => Current.page \in Pages
<1>1. Current \in Msgs /\ IsMessage(Current)
  BY SessionIs DEF HostType, Current, IsMessage
<1>2. Current.bytes \in Seq(Octets) /\ Current.reply \in Seq(Octets)
  BY <1>1 DEF Msgs
<1>3. Len(Current.reply) \in {2, 3, 5, 66} /\ (Current.does # "other" => Current.page \in Pages)
  BY <1>1 DEF IsMessage, IsOther, IsLoad, IsProg, IsRead, Acked
<1>4. Current.reply # <<>>
  BY <1>2, <1>3, LongEnough
<1>5. QED
  BY <1>1, <1>2, <1>3, <1>4

LEMMA EmptyIs == RealPages => EmptyBuffer \in PageData
  BY DEF RealPages, EmptyBuffer, PageData, Erased, Octets

LEMMA TwoBytes ==
    ASSUME NEW a \in Words, NEW b \in Octets
    PROVE  /\ (256 * (a \div 256)) + b \in Words /\ 256 * b + (a % 256) \in Words
           /\ ((256 * (a \div 256)) + b) % 256 = b
<1>1. a \in Nat /\ a < 256 * 256
  <2>1. a \in Nat /\ a < DataSpace
    BY WordsAre
  <2>2. QED
    BY <2>1, WordsAre
<1>2. b \in Nat /\ b < 256
  BY DEF Octets
<1> DEFINE q == a \div 256
           r == a % 256
<1>3. q \in Nat /\ q < 256 /\ r \in Nat /\ r < 256
  BY <1>1
<1> HIDE DEF q, r
<1>4. /\ 256 * q + b \in Nat /\ 256 * q + b < 256 * 256
      /\ 256 * b + r \in Nat /\ 256 * b + r < 256 * 256
      /\ (256 * q + b) % 256 = b
  BY <1>2, <1>3
<1>5. ASSUME NEW n \in Nat, n < 256 * 256 PROVE n \in Words
  <2>1. n \in Nat /\ n < DataSpace
    BY <1>5, WordsAre
  <2>2. QED
    BY <2>1, WordsAre
<1>6. QED
  BY <1>4, <1>5 DEF q, r

(* What the reading of an argument does. *)
LEMMA ArgumentStep ==
    ASSUME GetArgument
    PROVE  /\ pc = "args" /\ line # <<>> /\ line' = Tail(line)
           /\ args' = Append(args, Head(line))
           /\ pc' = IF Len(args') # Arguments(ch) THEN "args"
                     ELSE IF ch = STK_PROG_PAGE THEN "data" ELSE "verify"
           /\ length' = IF ch \in {STK_PROG_PAGE, STK_READ_PAGE} /\ Len(args') = 2
                        THEN Head(line) ELSE length
           /\ ch = STK_LOAD_ADDRESS /\ Len(args') # Arguments(ch) =>
                 address' = (256 * (address \div 256)) + Head(line)
           /\ ch = STK_LOAD_ADDRESS /\ Len(args') = Arguments(ch) =>
                 address' = 256 * Head(line) + (address % 256)
           /\ ch = STK_PROG_PAGE /\ Len(args') = Arguments(ch) => address' = Mapped(Head(line))
           /\ ch # STK_LOAD_ADDRESS /\ ~(ch = STK_PROG_PAGE /\ Len(args') = Arguments(ch)) =>
                 address' = address
           /\ UNCHANGED <<ch, buffer, flash, stray, rstfr, cause, configured, replies>>
<1>1. /\ pc = "args" /\ line # <<>> /\ line' = Tail(line)
      /\ args' = Append(args, Head(line))
      /\ UNCHANGED <<ch, buffer, flash, stray, rstfr, cause, configured, replies>>
  BY DEF GetArgument, Getch, Byte, memory, resets
<1>2. pc' = IF Len(args') # Arguments(ch) THEN "args"
            ELSE IF ch = STK_PROG_PAGE THEN "data" ELSE "verify"
  BY DEF GetArgument
<1>3. length' = IF ch \in {STK_PROG_PAGE, STK_READ_PAGE} /\ Len(args') = 2
                THEN Head(line) ELSE length
  BY DEF GetArgument, Byte, LengthOf
<1> DEFINE low == (256 * (address \div 256)) + Head(line)
           high == 256 * Head(line) + (address % 256)
<1>4. address' = CASE ch = STK_LOAD_ADDRESS /\ Len(args') # Arguments(ch) -> low
                   [] ch = STK_LOAD_ADDRESS /\ Len(args') = Arguments(ch) -> high
                   [] ch = STK_PROG_PAGE /\ Len(args') = Arguments(ch) -> Mapped(Head(line))
                   [] OTHER -> address
  BY DEF GetArgument, Byte
<1>5. STK_LOAD_ADDRESS # STK_PROG_PAGE
  BY DEF STK_LOAD_ADDRESS, STK_PROG_PAGE
<1> HIDE DEF low, high
<1>6. /\ ch = STK_LOAD_ADDRESS /\ Len(args') # Arguments(ch) => address' = low
      /\ ch = STK_LOAD_ADDRESS /\ Len(args') = Arguments(ch) => address' = high
      /\ ch = STK_PROG_PAGE /\ Len(args') = Arguments(ch) => address' = Mapped(Head(line))
      /\ ch # STK_LOAD_ADDRESS /\ ~(ch = STK_PROG_PAGE /\ Len(args') = Arguments(ch)) =>
            address' = address
  BY <1>4, <1>5
<1>7. QED
  BY <1>1, <1>2, <1>3, <1>6 DEF low, high

LEMMA TypeInit == RealPages /\ Init => TypeInv
<1> SUFFICES ASSUME RealPages, Init PROVE TypeInv
  OBVIOUS
<1>1. PageSize - 1 = 63 /\ Len(Session) \in Nat \ {0}
  BY SessionIs DEF RealPages
<1>2. Arguments(0) = 0 /\ 0 \in Octets /\ 0 \in Words
  <2>1. 0 \in Octets
    BY DEF Octets
  <2>2. QED
    BY <2>1, ArgumentsIs, SpaceIs
       DEF Words, STK_GET_PARAMETER, STK_SET_DEVICE, STK_SET_DEVICE_EXT,
           STK_LOAD_ADDRESS, STK_UNIVERSAL, STK_PROG_PAGE, STK_READ_PAGE
<1>3. CommandType
  BY <1>2, Empty DEF Init, BootInit, CommandType
<1>4. MemoryType
  <2>1. flash \in [Pages -> [0..63 -> Octets]]
    BY <1>1, PageAssumption DEF Init, BootInit, Octets
  <2>2. QED
    BY <2>1, EmptyIs DEF Init, BootInit, MemoryType, PageData
<1>5. LineType /\ HostType
  BY <1>1, Empty DEF Init, BootInit, LineType, HostType
<1>6. QED
  BY <1>3, <1>4, <1>5 DEF TypeInv

LEMMA MemoryIs ==
    ASSUME RealPages, CommandType, MemoryType
    PROVE  /\ Memory \in Seq(Octets)
           /\ Len(Memory) = IF length = 0 THEN 256 ELSE length
<1> DEFINE n == IF length = 0 THEN 256 ELSE length
<1>1. n \in Nat
  BY DEF CommandType, Octets
<1>2. \A a \in Int : Contents(a) \in Octets
  <2> TAKE a \in Int
  <2>1. a % 64 \in 0..63 /\ PageSize = 64 /\ 255 \in Octets
    BY DEF RealPages, Octets
  <2>2. \A p \in Pages : flash[p][a % 64] \in Octets
    BY <2>1 DEF MemoryType, PageData
  <2>3. QED
    BY <2>1, <2>2 DEF Contents, Erased
<1>3. \A i \in 1..n : (Mapped(args[3]) + i - 1) % DataSpace \in Int
  <2> DEFINE b == Mapped(args[3])
  <2>1. b \in Int
    BY MappedIs DEF CommandType
  <2> HIDE DEF b
  <2>2. \A i \in 1..n : b + i - 1 \in Int
    BY <1>1, <2>1
  <2>3. \A a \in Int : a % DataSpace \in Int
    BY SpaceMod
  <2>4. QED
    BY <2>2, <2>3 DEF b
<1>4. Memory \in [1..n -> Octets]
  BY <1>2, <1>3 DEF Memory
<1>5. Memory \in Seq(Octets) /\ Len(Memory) = n
  <2> HIDE DEF n
  <2>1. QED
    BY <1>1, <1>4, SeqOf
<1>6. QED
  BY <1>5

LEMMA AnswerIs ==
    ASSUME RealPages, CommandType, MemoryType
    PROVE  /\ Answer \in Seq(Octets)
           /\ ch \in {STK_GET_PARAMETER, STK_UNIVERSAL} => Len(Answer) = 1
           /\ ch = STK_READ_PAGE => Len(Answer) = Len(Memory)
           /\ ch = STK_READ_SIGN => Len(Answer) = 3
           /\ Arguments(ch) = 0 /\ ch # STK_READ_SIGN => Len(Answer) = 0
           /\ ch = STK_LOAD_ADDRESS => Len(Answer) = 0
           /\ Len(Answer) \in Nat
<1> DEFINE a == <<Parameter(args[1])>>
           b == <<0>>
           c == Signature
           d == <<>>
<1>1. /\ a \in Seq(Octets) /\ b \in Seq(Octets) /\ c \in Seq(Octets) /\ d \in Seq(Octets)
      /\ Memory \in Seq(Octets)
      /\ Len(a) = 1 /\ Len(b) = 1 /\ Len(c) = 3 /\ Len(d) = 0
  BY MemoryIs DEF Parameter, OPTIBOOT_MAJVER, OPTIBOOT_MINVER, Signature, Octets
<1>2. Answer = CASE ch = STK_GET_PARAMETER -> a
                 [] ch = STK_UNIVERSAL -> b
                 [] ch = STK_READ_PAGE -> Memory
                 [] ch = STK_READ_SIGN -> c
                 [] OTHER -> d
  BY DEF Answer
<1> HIDE DEF a, b, c, d
<1>3. /\ STK_GET_PARAMETER # STK_UNIVERSAL /\ STK_GET_PARAMETER # STK_READ_PAGE
      /\ STK_GET_PARAMETER # STK_READ_SIGN /\ STK_UNIVERSAL # STK_READ_PAGE
      /\ STK_UNIVERSAL # STK_READ_SIGN /\ STK_READ_PAGE # STK_READ_SIGN
  BY DEF STK_GET_PARAMETER, STK_UNIVERSAL, STK_READ_PAGE, STK_READ_SIGN
<1>4. /\ ch = STK_GET_PARAMETER => Answer = a
      /\ ch = STK_UNIVERSAL => Answer = b
      /\ ch = STK_READ_PAGE => Answer = Memory
      /\ ch = STK_READ_SIGN => Answer = c
      /\ ch \notin {STK_GET_PARAMETER, STK_UNIVERSAL, STK_READ_PAGE, STK_READ_SIGN} => Answer = d
  BY <1>2, <1>3
<1>5. Arguments(ch) = 0 => ch \notin {STK_GET_PARAMETER, STK_UNIVERSAL, STK_READ_PAGE}
  BY ArgumentsIs DEF CommandType
<1>6. Len(Memory) \in Nat
  BY <1>1
<1>7. Answer \in Seq(Octets)
  BY <1>1, <1>4
<1>8. ch \in {STK_GET_PARAMETER, STK_UNIVERSAL} => Len(Answer) = 1
  BY <1>1, <1>4
<1>9. ch = STK_READ_SIGN => Len(Answer) = 3
  BY <1>1, <1>4
<1>10. Arguments(ch) = 0 /\ ch # STK_READ_SIGN => Len(Answer) = 0
  BY <1>1, <1>4, <1>5
<1>11. ch = STK_LOAD_ADDRESS => Len(Answer) = 0
  <2>1. STK_LOAD_ADDRESS \notin {STK_GET_PARAMETER, STK_UNIVERSAL, STK_READ_PAGE, STK_READ_SIGN}
    BY DEF STK_LOAD_ADDRESS, STK_GET_PARAMETER, STK_UNIVERSAL, STK_READ_PAGE, STK_READ_SIGN
  <2>2. QED
    BY <2>1, <1>1, <1>4
<1>12. QED
  BY <1>4, <1>7, <1>8, <1>9, <1>10, <1>11

(* What the bootloader answers when it sees the terminator. *)
Acknowledged == Append(replies, STK_INSYNC)
LEMMA VerifyStep ==
    ASSUME RealPages, CommandType, MemoryType, LineType, VerifySpace
    PROVE  /\ pc = "verify" /\ line # <<>> /\ line' = Tail(line)
           /\ pc' = IF Head(line) # CRC_EOP THEN "spin"
                     ELSE IF ch = STK_PROG_PAGE THEN "write" ELSE "command"
           /\ Head(line) # CRC_EOP => replies' = replies
           /\ Head(line) = CRC_EOP /\ ch = STK_PROG_PAGE =>
                 replies' = Append(replies, STK_INSYNC)
           /\ Head(line) = CRC_EOP /\ ch # STK_PROG_PAGE =>
                 /\ replies' = Append(replies, STK_INSYNC) \o Answer \o <<STK_OK>>
                 /\ Len(replies') = Len(replies) + 2 + Len(Answer)
           /\ ch # STK_READ_PAGE \/ Head(line) # CRC_EOP => address' = address
           /\ replies' \in Seq(Octets) /\ address' \in Words /\ length' \in Octets
           /\ UNCHANGED <<ch, args, buffer, flash, stray, rstfr, cause, configured>>
<1>1. /\ pc = "verify" /\ line # <<>> /\ line' = Tail(line)
      /\ UNCHANGED <<ch, args, buffer, flash, stray, rstfr, cause, configured>>
  BY DEF VerifySpace, Getch, memory, resets
<1> DEFINE seen == Head(line) = CRC_EOP
           ok == <<STK_OK>>
           all == Acknowledged \o Answer \o ok
           next == (Mapped(args[3]) + Len(Memory)) % DataSpace
<1>2. pc' = IF Head(line) # CRC_EOP THEN "spin"
            ELSE IF ch = STK_PROG_PAGE THEN "write" ELSE "command"
  BY DEF VerifySpace, Byte, Terminates
<1>3. replies' = IF ~seen THEN replies ELSE IF ch = STK_PROG_PAGE THEN Acknowledged ELSE all
  BY DEF VerifySpace, Byte, Terminates, Acknowledged
<1>4. /\ address' = IF seen /\ ch # STK_PROG_PAGE /\ ch = STK_READ_PAGE THEN next ELSE address
      /\ length' = IF seen /\ ch # STK_PROG_PAGE /\ ch = STK_READ_PAGE THEN 0 ELSE length
  BY DEF VerifySpace, Byte, Terminates
<1>5. ok \in Seq(Octets) /\ Acknowledged \in Seq(Octets) /\ Answer \in Seq(Octets)
      /\ Len(ok) = 1 /\ Len(Acknowledged) = Len(replies) + 1 /\ Len(Answer) \in Nat
      /\ Len(replies) \in Nat
  BY AnswerIs DEF LineType, Acknowledged, STK_OK, STK_INSYNC, Octets
<1> HIDE DEF seen, ok
<1>6. all \in Seq(Octets) /\ Len(all) = Len(Acknowledged) + Len(Answer) + Len(ok)
  <2>1. ok \in Seq(Octets) /\ Acknowledged \in Seq(Octets) /\ Answer \in Seq(Octets)
    BY <1>5
  <2>2. QED
    BY <2>1
<1>7. next \in Words
  <2> DEFINE b == Mapped(args[3])
             l == Len(Memory)
  <2>1. b \in Int /\ l \in Int
    BY MappedIs, MemoryIs DEF CommandType
  <2> HIDE DEF b, l
  <2>2. b + l \in Int
    BY <2>1
  <2>3. (b + l) % DataSpace \in Words
    BY <2>2, SpaceMod DEF Words
  <2>4. QED
    BY <2>3 DEF b, l
<1> HIDE DEF all, next
<1>8. replies' \in Seq(Octets) /\ address' \in Words /\ length' \in Octets
  BY <1>3, <1>4, <1>5, <1>6, <1>7 DEF CommandType, LineType, Octets
<1>9. seen /\ ch # STK_PROG_PAGE => Len(replies') = Len(replies) + 2 + Len(Answer)
  BY <1>3, <1>5, <1>6
<1>10. QED
  BY <1>1, <1>2, <1>3, <1>4, <1>8, <1>9 DEF seen, Acknowledged, all, ok

LEMMA TypeKept == RealPages /\ TypeInv /\ [Next]_vars => TypeInv'
<1> SUFFICES ASSUME RealPages, TypeInv, [Next]_vars PROVE TypeInv'
  OBVIOUS
<1>1. CommandType /\ MemoryType /\ LineType /\ HostType
  BY DEF TypeInv
<1>2. /\ line # <<>> => Head(line) \in Octets /\ Tail(line) \in Seq(Octets)
      /\ replies # <<>> => Tail(replies) \in Seq(Octets)
  BY <1>1 DEF LineType
<1>3. ASSUME UNCHANGED <<pc, ch, args, address, length>> PROVE CommandType'
  BY <1>1, <1>3 DEF CommandType
<1>4. ASSUME UNCHANGED <<buffer, flash>> PROVE MemoryType'
  BY <1>1, <1>4 DEF MemoryType
<1>5. ASSUME UNCHANGED <<host, message, expected, written, verified, losses, garbles,
                         outside, misled>>
      PROVE  HostType'
  BY <1>1, <1>5 DEF HostType
<1>6. ASSUME NEW why, Restart(why) PROVE CommandType' /\ MemoryType' /\ LineType'
  <2>1. CommandType'
    BY <1>1, <1>6 DEF CommandType, Restart
  <2>2. MemoryType'
    BY <1>1, <1>6, EmptyIs DEF MemoryType, Restart, memory
  <2>3. LineType'
    BY <1>1, <1>6, Empty DEF LineType, Restart
  <2>4. QED
    BY <2>1, <2>2, <2>3
<1>7. ASSUME UNCHANGED <<line, replies>> PROVE LineType'
  BY <1>1, <1>7 DEF LineType
<1>8. CASE Bootloader
  <2>1. HostType'
    BY <1>5, <1>8 DEF Bootloader, hostVars, counts
  <2>2. CASE SoftwareReset
    BY <2>1, <2>2, <1>6 DEF SoftwareReset, ResetItself, TypeInv
  <2>3. CASE StartApp
    <3>1. CommandType'
      BY <2>3, <1>1 DEF StartApp, CommandType
    <3>2. QED
      BY <2>1, <2>3, <3>1, <1>4, <1>7 DEF StartApp, memory, TypeInv
  <2>4. CASE StartLoop
    <3>1. CommandType'
      BY <2>4, <1>1 DEF StartLoop, CommandType, Waiting
    <3>2. LineType'
      BY <2>4, <1>1 DEF StartLoop, LineType
    <3>3. QED
      BY <2>1, <2>4, <3>1, <3>2, <1>4 DEF StartLoop, memory, TypeInv
  <2>5. CASE GetCommand
    <3>1. CommandType'
      <4>1. ch' \in Octets /\ args' = <<>> /\ pc' = (IF Arguments(ch') = 0 THEN "verify" ELSE "args")
        BY <2>5, <1>2 DEF GetCommand, Getch, Byte
      <4>2. Arguments(ch') \in 0..20
        BY <4>1, ArgumentsIs
      <4>3. UNCHANGED <<address, length>>
        BY <2>5 DEF GetCommand
      <4>4. Len(args') <= Arguments(ch') /\ (pc' = "args" => Len(args') < Arguments(ch'))
        BY <4>1, <4>2, Empty
      <4>5. QED
        BY <4>1, <4>3, <4>4, <1>1, Empty DEF CommandType, Waiting
    <3>2. LineType'
      BY <2>5, <1>1, <1>2 DEF GetCommand, Getch, LineType
    <3>3. QED
      BY <2>1, <2>5, <3>1, <3>2, <1>4 DEF GetCommand, memory, TypeInv
  <2>6. CASE GetArgument
    <3>0. /\ pc = "args" /\ line # <<>> /\ line' = Tail(line)
          /\ args' = Append(args, Head(line))
          /\ UNCHANGED <<ch, buffer, flash, replies>>
      BY <2>6, ArgumentStep
    <3>1. Head(line) \in Octets /\ Tail(line) \in Seq(Octets)
      BY <3>0, <1>2
    <3>2. args' \in Seq(Octets) /\ Len(args') = Len(args) + 1
      BY <3>0, <3>1, <1>1 DEF CommandType
    <3>3. Arguments(ch) \in Nat /\ Len(args) \in Nat /\ Len(args) < Arguments(ch)
      <4>1. Arguments(ch) \in 0..20
        BY <1>1, ArgumentsIs DEF CommandType
      <4>2. QED
        BY <3>0, <4>1, <1>1 DEF CommandType
    <3>4. Len(args') <= Arguments(ch) /\ (pc' = "args" => Len(args') < Arguments(ch))
      <4>1. pc' = "args" => Len(args') # Arguments(ch)
        BY <2>6, ArgumentStep
      <4>2. QED
        BY <4>1, <3>2, <3>3
    <3>5. length' \in Octets
      BY <2>6, <3>1, <1>1, ArgumentStep DEF CommandType
    <3>6. address' \in Words
      <4>1. Mapped(Head(line)) \in Words
        BY <1>1, MappedIs DEF CommandType
      <4> DEFINE low == (256 * (address \div 256)) + Head(line)
                 high == 256 * Head(line) + (address % 256)
      <4>5. low \in Words /\ high \in Words
        <5>1. address \in Words
          BY <1>1 DEF CommandType
        <5>2. QED
          BY <3>1, <5>1, TwoBytes
      <4> HIDE DEF low, high
      <4>4. address' = low \/ address' = high \/ address' = Mapped(Head(line))
            \/ address' = address
        BY <2>6, ArgumentStep DEF low, high
      <4>6. QED
        BY <4>1, <4>4, <4>5, <1>1 DEF CommandType
    <3>7. pc' \in Waiting
      BY <2>6, ArgumentStep DEF Waiting
    <3>8. CommandType'
      BY <3>0, <3>2, <3>4, <3>5, <3>6, <3>7, <1>1 DEF CommandType
    <3>9. QED
      BY <2>1, <3>0, <3>1, <3>8, <1>1, <1>4 DEF LineType, TypeInv
  <2>7. CASE GetData
    <3>1. Head(line) \in Octets /\ Tail(line) \in Seq(Octets)
      BY <2>7, <1>2 DEF GetData, Getch
    <3>2. address' \in Words
      <4>1. address + 1 \in Int
        <5>1. address \in Nat
          BY <1>1, WordsAre DEF CommandType
        <5>2. QED
          BY <5>1
      <4>2. (address + 1) % DataSpace \in Words
        BY <4>1, SpaceMod DEF Words
      <4>3. QED
        BY <4>2, <2>7 DEF GetData
    <3>3. length' \in Octets
      BY <2>7, <1>1 DEF GetData, CommandType, Octets
    <3>4. MemoryType'
      <4>1. address % 64 \in 0..63 /\ PageSize = 64
        <5>1. address \in Nat
          BY <1>1, WordsAre DEF CommandType
        <5>2. QED
          BY <5>1 DEF RealPages
      <4>2. buffer' = [buffer EXCEPT ![address % 64] = Head(line)]
        BY <4>1, <2>7 DEF GetData, Byte
      <4>3. buffer' \in PageData
        BY <4>1, <4>2, <3>1, <1>1 DEF MemoryType, PageData
      <4>4. QED
        BY <4>3, <2>7, <1>1 DEF GetData, MemoryType, memory
    <3>5. CommandType'
      <4>1. UNCHANGED <<ch, args>> /\ pc' \in {"verify", "data"}
        BY <2>7 DEF GetData
      <4>2. QED
        BY <4>1, <3>2, <3>3, <1>1 DEF CommandType, Waiting
    <3>6. LineType'
      BY <2>7, <3>1, <1>1 DEF GetData, Getch, LineType
    <3>7. QED
      BY <2>1, <3>4, <3>5, <3>6 DEF TypeInv
  <2>8. CASE VerifySpace
    <3>1. LineType'
      BY <2>8, <1>1, <1>2, VerifyStep DEF LineType
    <3>2. CommandType'
      <4>1. /\ pc' \in {"spin", "write", "command"} /\ UNCHANGED <<ch, args>>
            /\ address' \in Words /\ length' \in Octets
        BY <2>8, <1>1, VerifyStep
      <4>2. QED
        BY <4>1, <1>1 DEF CommandType, Waiting
    <3>3. MemoryType'
      BY <2>8, <1>1, <1>4, VerifyStep
    <3>4. QED
      BY <2>1, <3>1, <3>2, <3>3 DEF TypeInv
  <2>9. CASE WritePage
    <3>1. LineType'
      <4>1. STK_OK \in Octets
        BY DEF STK_OK, Octets
      <4>2. QED
        BY <2>9, <4>1, <1>1 DEF WritePage, LineType
    <3>2. MemoryType'
      BY <2>9, <1>1, EmptyIs DEF WritePage, MemoryType
    <3>3. CommandType'
      BY <2>9, <1>1 DEF WritePage, CommandType, Waiting
    <3>4. QED
      BY <2>1, <3>1, <3>2, <3>3 DEF TypeInv
  <2>10. CASE Watchdog
    BY <2>1, <2>10, <1>6 DEF Watchdog, TypeInv
  <2>11. CASE Unread
    BY <2>1, <2>11, <1>1, <1>2, <1>3, <1>4 DEF Unread, Getch, command, memory, LineType, TypeInv
  <2>12. QED
    BY <1>8, <2>2, <2>3, <2>4, <2>5, <2>6, <2>7, <2>8, <2>9, <2>10, <2>11
       DEF Bootloader, Runs, Start, Loop
<1>9. CASE Begin
  <2>1. HostType'
    BY <1>1, <1>9, SessionIs DEF Begin, HostType, counts
  <2>2. CASE Restart("EXT")
    BY <1>6, <2>1, <2>2 DEF TypeInv
  <2>3. CASE UNCHANGED boot
    BY <1>3, <1>4, <1>7, <2>1, <2>3 DEF boot, command, memory, TypeInv
  <2>4. QED
    BY <1>9, <2>2, <2>3 DEF Begin
<1>10. CASE Send
  <2>1. line \o Current.bytes \in Seq(Octets) /\ Current.reply \in Seq(Octets)
        /\ Current.reply # <<>>
    BY <1>1, CurrentIs DEF LineType
  <2>2. LineType'
    BY <1>1, <1>10, <2>1 DEF Send, LineType
  <2>3. HostType'
    BY <1>1, <1>10, <2>1 DEF Send, HostType, counts
  <2>4. QED
    BY <1>3, <1>4, <1>10, <2>2, <2>3 DEF Send, command, memory, TypeInv
<1>11. CASE Receive
  <2>1. replies' \in Seq(Octets) /\ expected' \in Seq(Octets)
    BY <1>1, <1>2, <1>11 DEF Receive, HostType
  <2>2. written' \subseteq Pages /\ verified' \subseteq Pages
    <3>1. Done("prog") \subseteq Pages /\ Done("read") \subseteq Pages
      BY <1>1, CurrentIs DEF Done
    <3>2. QED
      BY <3>1, <1>1, <1>11 DEF Receive, HostType
  <2>3. message' \in 1..Len(Session) /\ host' \in {"idle", "send", "wait"}
    BY <1>1, <1>11, SessionIs DEF Receive, HostType
  <2>4. HostType'
    BY <1>1, <1>11, <2>1, <2>2, <2>3 DEF Receive, HostType, counts
  <2>5. LineType'
    BY <1>1, <1>11, <2>1 DEF Receive, LineType
  <2>6. QED
    BY <1>3, <1>4, <1>11, <2>4, <2>5 DEF Receive, command, memory, TypeInv
<1>12. CASE GiveUp
  <2>1. HostType'
    BY <1>1, <1>12, Empty DEF GiveUp, HostType, counts
  <2>2. QED
    BY <1>3, <1>4, <1>7, <1>12, <2>1 DEF GiveUp, boot, command, memory, TypeInv
<1>13. CASE Stale
  <2>1. LineType'
    BY <1>1, <1>2, <1>13 DEF Stale, LineType
  <2>2. QED
    BY <1>3, <1>4, <1>5, <1>13, <2>1 DEF Stale, hostVars, counts, command, memory, TypeInv
<1>14. CASE Lose
  <2>1. LineType'
    BY <1>1, <1>2, <1>14 DEF Lose, LineType
  <2>2. HostType'
    BY <1>1, <1>14 DEF Lose, HostType, hostVars
  <2>3. QED
    BY <1>3, <1>4, <1>14, <2>1, <2>2 DEF Lose, command, memory, TypeInv
<1>15. CASE Garble
  <2>1. LineType'
    <3>1. PICK byte \in Garbles :
            \/ line # <<>> /\ line' = <<byte>> \o Tail(line) /\ UNCHANGED replies
            \/ replies # <<>> /\ replies' = <<byte>> \o Tail(replies) /\ UNCHANGED line
      BY <1>15 DEF Garble
    <3> DEFINE b == <<byte>>
    <3>2. b \in Seq(Octets)
      BY FaultAssumption DEF Octets
    <3> HIDE DEF b
    <3>3. line # <<>> => b \o Tail(line) \in Seq(Octets)
      BY <1>2, <3>2
    <3>4. replies # <<>> => b \o Tail(replies) \in Seq(Octets)
      BY <1>2, <3>2
    <3>5. QED
      BY <3>1, <3>3, <3>4, <1>1 DEF b, LineType
  <2>2. HostType'
    BY <1>1, <1>15 DEF Garble, HostType, hostVars
  <2>3. QED
    BY <1>3, <1>4, <1>15, <2>1, <2>2 DEF Garble, command, memory, TypeInv
<1>16. CASE Outside
  <2>1. HostType'
    BY <1>1, <1>16 DEF Outside, HostType, hostVars
  <2>2. CASE Enter
    <3>1. CommandType'
      BY <1>1, <2>2 DEF Enter, CommandType
    <3>2. QED
      BY <1>4, <1>7, <2>1, <2>2, <3>1 DEF Enter, memory, TypeInv
  <2>3. CASE \E why \in {"POR", "BOD", "EXT", "UPDI"} : Restart(why)
    BY <1>6, <2>1, <2>3 DEF TypeInv
  <2>4. QED
    BY <1>16, <2>2, <2>3 DEF Outside
<1>17. CASE UNCHANGED vars
  BY <1>3, <1>4, <1>5, <1>7, <1>17 DEF vars, boot, hostVars, counts, command, memory, TypeInv
<1>18. QED
  BY <1>8, <1>9, <1>10, <1>11, <1>12, <1>13, <1>14, <1>15, <1>16, <1>17 DEF Next, Host

----------------------------------------------------------------------------
(* What a message tells of the bytes to come *)

LEMMA AfterNone ==
    ASSUME NEW s \in Seq(Octets) PROVE After(s, s, 0)
  BY DEF After

LEMMA AfterLen ==
    ASSUME NEW l \in Seq(Octets), NEW s \in Seq(Octets), NEW k \in Nat, After(l, s, k)
    PROVE  /\ Len(l) = Len(s) - k
           /\ k < Len(s) => l # <<>> /\ l[1] = s[k + 1]
           /\ k + 1 < Len(s) => l[2] = s[k + 2]
           /\ Len(s) = k => l = <<>>
<1>1. Len(l) = Len(s) - k /\ \A i \in 1..Len(l) : l[i] = s[i + k]
  BY DEF After
<1>2. Len(l) \in Nat /\ Len(s) \in Nat
  OBVIOUS
<1>3. ASSUME k < Len(s) PROVE l # <<>> /\ l[1] = s[k + 1]
  <2>1. 1 \in 1..Len(l) /\ 1 + k = k + 1 /\ Len(l) # 0
    BY <1>1, <1>2, <1>3
  <2>2. QED
    BY <1>1, <2>1, Empty
<1>4. ASSUME k + 1 < Len(s) PROVE l[2] = s[k + 2]
  <2>1. 2 \in 1..Len(l) /\ 2 + k = k + 2
    BY <1>1, <1>2, <1>4
  <2>2. QED
    BY <1>1, <2>1
<1>5. ASSUME Len(s) = k PROVE l = <<>>
  <2>1. Len(l) = 0
    BY <1>1, <1>2, <1>5
  <2>2. QED
    BY <2>1
<1>6. QED
  BY <1>1, <1>3, <1>4, <1>5

LEMMA Commands ==
    /\ {STK_GET_PARAMETER, STK_LOAD_ADDRESS, STK_UNIVERSAL, STK_PROG_PAGE, STK_READ_PAGE,
        STK_READ_SIGN, STK_LEAVE_PROGMODE, STK_GET_SYNC, CRC_EOP, STK_SW_MAJOR,
        0, 64, 128, 192} \subseteq Octets
    /\ Arguments(STK_GET_PARAMETER) = 1 /\ Arguments(STK_LOAD_ADDRESS) = 2
    /\ Arguments(STK_UNIVERSAL) = 4 /\ Arguments(STK_PROG_PAGE) = 3
    /\ Arguments(STK_READ_PAGE) = 3
    /\ \A c \in {STK_READ_SIGN, STK_LEAVE_PROGMODE, STK_GET_SYNC, CRC_EOP, STK_SW_MAJOR,
                 0, 64, 128, 192} : Arguments(c) = 0
<1> USE DEF STK_GET_PARAMETER, STK_LOAD_ADDRESS, STK_UNIVERSAL, STK_PROG_PAGE, STK_READ_PAGE,
            STK_READ_SIGN, STK_LEAVE_PROGMODE, STK_GET_SYNC, CRC_EOP, STK_SW_MAJOR,
            STK_SET_DEVICE, STK_SET_DEVICE_EXT
<1>1. {65, 85, 86, 100, 116, 117, 81, 48, 32, 129, 0, 64, 128, 192} \subseteq Octets
  BY DEF Octets
<1>2. /\ Arguments(65) = 1 /\ Arguments(85) = 2 /\ Arguments(86) = 4 /\ Arguments(100) = 3
      /\ Arguments(116) = 3
  BY DEF Arguments
<1>3. \A c \in {117, 81, 48, 32, 129, 0, 64, 128, 192} : Arguments(c) = 0
  BY DEF Arguments
<1>4. QED
  BY <1>1, <1>2, <1>3

(* The kinds of message, as the steps look at them. *)
LEMMA LoadShape ==
    ASSUME NEW x, NEW p \in Pages, IsLoad(x, p)
    PROVE  /\ x.does = "load" /\ x.page = p /\ Len(x.bytes) = 4 /\ Len(x.reply) = 2
           /\ x.bytes[1] = STK_LOAD_ADDRESS
           /\ Arguments(x.bytes[1]) = 2 /\ Arguments(x.bytes[2]) = 0
           /\ x.bytes[2] # STK_READ_SIGN /\ x.bytes[4] = CRC_EOP
           /\ x.bytes[2] + 256 * x.bytes[3] = 64 * p
  BY Commands DEF IsLoad, Acked, STK_READ_SIGN

LEMMA ProgShape ==
    ASSUME NEW x, NEW p \in Pages, IsProg(x, p)
    PROVE  /\ x.does = "prog" /\ x.page = p /\ Len(x.bytes) = 69 /\ Len(x.reply) = 2
           /\ x.bytes[1] = STK_PROG_PAGE /\ x.bytes[2] = 0 /\ x.bytes[3] = 64
           /\ x.bytes[4] = Flash /\ x.bytes[69] = CRC_EOP
           /\ \A i \in 1..64 : x.bytes[i + 4] = Image[p][i - 1]
           /\ x.reply[1] = STK_INSYNC /\ x.reply[2] = STK_OK
           /\ Arguments(x.bytes[1]) = 3 /\ Arguments(x.bytes[2]) = 0
  BY Commands DEF IsProg, Acked

LEMMA ReadShape ==
    ASSUME NEW x, NEW p \in Pages, IsRead(x, p)
    PROVE  /\ x.does = "read" /\ x.page = p /\ Len(x.bytes) = 5 /\ Len(x.reply) = 66
           /\ x.bytes[1] = STK_READ_PAGE /\ x.bytes[2] = 0 /\ x.bytes[3] = 64
           /\ x.bytes[4] = Flash /\ x.bytes[5] = CRC_EOP
           /\ Arguments(x.bytes[1]) = 3 /\ Arguments(x.bytes[2]) = 0
           /\ \A i \in 1..64 : x.reply[i + 1] = Image[p][i - 1]
  BY Commands DEF IsRead

LEMMA OtherShape ==
    ASSUME NEW x, IsOther(x)
    PROVE  /\ x.does = "other"
           /\ x.bytes[1] \in {STK_GET_SYNC, STK_LEAVE_PROGMODE, STK_READ_SIGN,
                              STK_GET_PARAMETER, STK_UNIVERSAL}
           /\ x.bytes[1] \in {STK_GET_SYNC, STK_LEAVE_PROGMODE, STK_READ_SIGN} =>
                 /\ Len(x.bytes) = 2 /\ x.bytes[2] = CRC_EOP
                 /\ Arguments(x.bytes[1]) = 0
           /\ x.bytes[1] = STK_GET_PARAMETER =>
                 /\ Len(x.bytes) = 3 /\ x.bytes[2] = STK_SW_MAJOR /\ x.bytes[3] = CRC_EOP
                 /\ Arguments(x.bytes[1]) = 1
           /\ x.bytes[1] = STK_UNIVERSAL =>
                 /\ Len(x.bytes) = 6 /\ x.bytes[2] = STK_GET_SYNC /\ x.bytes[3] = 0
                 /\ x.bytes[6] = CRC_EOP /\ Arguments(x.bytes[1]) = 4
           /\ x.bytes[1] \in {STK_GET_SYNC, STK_LEAVE_PROGMODE} => Len(x.reply) = 2
           /\ x.bytes[1] = STK_READ_SIGN => Len(x.reply) = 5
           /\ x.bytes[1] \in {STK_GET_PARAMETER, STK_UNIVERSAL} => Len(x.reply) = 3
<1>1. /\ STK_GET_PARAMETER # STK_UNIVERSAL
      /\ STK_GET_PARAMETER \notin {STK_GET_SYNC, STK_LEAVE_PROGMODE, STK_READ_SIGN}
      /\ STK_UNIVERSAL \notin {STK_GET_SYNC, STK_LEAVE_PROGMODE, STK_READ_SIGN}
      /\ STK_READ_SIGN \notin {STK_GET_SYNC, STK_LEAVE_PROGMODE}
  BY DEF STK_GET_PARAMETER, STK_UNIVERSAL, STK_GET_SYNC, STK_LEAVE_PROGMODE, STK_READ_SIGN
<1>2. QED
  BY <1>1, Commands DEF IsOther

(* What all have in common: the terminator is where the arguments or the   *)
(* data end, and nowhere at the beginning.                                 *)
LEMMA Shape ==
    ASSUME NEW x, IsMessage(x)
    PROVE  /\ x.bytes \in Seq(Octets) /\ x.reply \in Seq(Octets)
           /\ x.bytes[1] \in Octets /\ x.bytes[1] # CRC_EOP /\ Len(x.bytes) >= 2
           /\ x.does = "prog" <=> x.bytes[1] = STK_PROG_PAGE
           /\ x.does = "load" <=> x.bytes[1] = STK_LOAD_ADDRESS
           /\ x.does = "read" <=> x.bytes[1] = STK_READ_PAGE
           /\ x.does # "prog" =>
                 /\ Len(x.bytes) = Arguments(x.bytes[1]) + 2
                 /\ x.bytes[Arguments(x.bytes[1]) + 2] = CRC_EOP
           /\ Arguments(x.bytes[1]) \in 0..4
           /\ Arguments(x.bytes[1]) = 0 <=>
                 x.bytes[1] \in {STK_GET_SYNC, STK_LEAVE_PROGMODE, STK_READ_SIGN}
           /\ x.does = "load" => x.bytes[2] + 256 * x.bytes[3] = 64 * x.page
           /\ x.does \in {"prog", "read"} =>
                 x.bytes[2] = 0 /\ x.bytes[3] = 64 /\ x.bytes[4] = Flash
           /\ x.does = "prog" =>
                 /\ Len(x.bytes) = 69 /\ x.bytes[69] = CRC_EOP
                 /\ \A i \in 1..64 : x.bytes[i + 4] = Image[x.page][i - 1]
<1>1. /\ STK_PROG_PAGE # STK_LOAD_ADDRESS /\ STK_PROG_PAGE # STK_READ_PAGE
      /\ STK_LOAD_ADDRESS # STK_READ_PAGE
      /\ \A c \in {STK_PROG_PAGE, STK_LOAD_ADDRESS, STK_READ_PAGE} :
            c \notin {STK_GET_SYNC, STK_LEAVE_PROGMODE, STK_READ_SIGN,
                      STK_GET_PARAMETER, STK_UNIVERSAL, CRC_EOP}
      /\ \A c \in {STK_GET_SYNC, STK_LEAVE_PROGMODE, STK_READ_SIGN,
                   STK_GET_PARAMETER, STK_UNIVERSAL} : c # CRC_EOP
      /\ STK_GET_PARAMETER \notin {STK_GET_SYNC, STK_LEAVE_PROGMODE, STK_READ_SIGN}
      /\ STK_UNIVERSAL \notin {STK_GET_SYNC, STK_LEAVE_PROGMODE, STK_READ_SIGN}
  BY DEF STK_GET_PARAMETER, STK_UNIVERSAL, STK_GET_SYNC, STK_LEAVE_PROGMODE, STK_READ_SIGN,
         STK_PROG_PAGE, STK_LOAD_ADDRESS, STK_READ_PAGE, CRC_EOP
<1>2. x.bytes \in Seq(Octets) /\ x.reply \in Seq(Octets)
  BY DEF IsMessage, Msgs
<1> DEFINE b == x.bytes
           c == b[1]
           n == Arguments(c)
           l == Len(b)
           d == x.does
           p == x.page
           Goal ==
              /\ c \in Octets /\ c # CRC_EOP /\ l >= 2
              /\ d = "prog" <=> c = STK_PROG_PAGE
              /\ d = "load" <=> c = STK_LOAD_ADDRESS
              /\ d = "read" <=> c = STK_READ_PAGE
              /\ d # "prog" => l = n + 2 /\ b[n + 2] = CRC_EOP
              /\ n \in 0..4
              /\ n = 0 <=> c \in {STK_GET_SYNC, STK_LEAVE_PROGMODE, STK_READ_SIGN}
              /\ d = "load" => b[2] + 256 * b[3] = 64 * p
              /\ d \in {"prog", "read"} => b[2] = 0 /\ b[3] = 64 /\ b[4] = Flash
              /\ d = "prog" =>
                    /\ l = 69 /\ b[69] = CRC_EOP
                    /\ \A i \in 1..64 : b[i + 4] = Image[p][i - 1]
<1> HIDE DEF b, c, n, l, d, p
<1>3. CASE IsOther(x)
  <2>1. /\ d = "other"
        /\ \/ c \in {STK_GET_SYNC, STK_LEAVE_PROGMODE, STK_READ_SIGN}
              /\ l = 2 /\ b[2] = CRC_EOP /\ n = 0
           \/ c = STK_GET_PARAMETER /\ l = 3 /\ b[3] = CRC_EOP /\ n = 1
           \/ c = STK_UNIVERSAL /\ l = 6 /\ b[6] = CRC_EOP /\ n = 4
    BY <1>3, OtherShape DEF b, c, n, l, d
  <2>2. {STK_GET_SYNC, STK_LEAVE_PROGMODE, STK_READ_SIGN, STK_GET_PARAMETER, STK_UNIVERSAL}
           \subseteq Octets
    BY Commands
  <2>3. Goal
    BY <1>1, <2>1, <2>2
  <2>4. QED
    BY <1>2, <2>3 DEF b, c, n, l, d, p
<1>4. CASE \E q \in Pages : IsLoad(x, q)
  <2>1. /\ d = "load" /\ c = STK_LOAD_ADDRESS /\ l = 4 /\ b[4] = CRC_EOP /\ n = 2
        /\ b[2] + 256 * b[3] = 64 * p
    BY <1>4, LoadShape DEF b, c, n, l, d, p
  <2>2. STK_LOAD_ADDRESS \in Octets
    BY Commands
  <2>3. Goal
    BY <1>1, <2>1, <2>2
  <2>4. QED
    BY <1>2, <2>3 DEF b, c, n, l, d, p
<1>5. CASE \E q \in Pages : IsProg(x, q)
  <2>1. /\ d = "prog" /\ c = STK_PROG_PAGE /\ l = 69 /\ b[69] = CRC_EOP /\ n = 3
        /\ b[2] = 0 /\ b[3] = 64 /\ b[4] = Flash
        /\ \A i \in 1..64 : b[i + 4] = Image[p][i - 1]
    BY <1>5, ProgShape DEF b, c, n, l, d, p
  <2>2. STK_PROG_PAGE \in Octets
    BY Commands
  <2>3. Goal
    BY <1>1, <2>1, <2>2
  <2>4. QED
    BY <1>2, <2>3 DEF b, c, n, l, d, p
<1>6. CASE \E q \in Pages : IsRead(x, q)
  <2>1. /\ d = "read" /\ c = STK_READ_PAGE /\ l = 5 /\ b[5] = CRC_EOP /\ n = 3
        /\ b[2] = 0 /\ b[3] = 64 /\ b[4] = Flash
    BY <1>6, ReadShape DEF b, c, n, l, d, p
  <2>2. STK_READ_PAGE \in Octets
    BY Commands
  <2>3. Goal
    BY <1>1, <2>1, <2>2
  <2>4. QED
    BY <1>2, <2>3 DEF b, c, n, l, d, p
<1>7. QED
  BY <1>3, <1>4, <1>5, <1>6 DEF IsMessage

(* A command without arguments is followed by the terminator. *)
LEMMA ShortShape ==
    ASSUME NEW x, IsMessage(x), Arguments(x.bytes[1]) = 0
    PROVE  /\ x.does = "other" /\ Len(x.bytes) = 2 /\ x.bytes[2] = CRC_EOP
           /\ x.bytes[1] \in {STK_GET_SYNC, STK_LEAVE_PROGMODE, STK_READ_SIGN}
<1>1. x.bytes[1] \in {STK_GET_SYNC, STK_LEAVE_PROGMODE, STK_READ_SIGN}
  BY Shape
<1>2. CASE IsOther(x)
  BY <1>1, <1>2, OtherShape
<1>3. CASE \E p \in Pages : IsLoad(x, p) \/ IsProg(x, p) \/ IsRead(x, p)
  <2>1. Arguments(x.bytes[1]) \in {2, 3}
    BY <1>3, LoadShape, ProgShape, ReadShape
  <2>2. QED
    BY <2>1
<1>4. QED
  BY <1>2, <1>3 DEF IsMessage

LEMMA AfterAt ==
    ASSUME NEW l \in Seq(Octets), NEW s \in Seq(Octets), NEW k \in Nat, After(l, s, k),
           NEW i \in Nat \ {0}, i + k <= Len(s)
    PROVE  l[i] = s[i + k] /\ i <= Len(l)
<1>1. Len(l) = Len(s) - k /\ \A j \in 1..Len(l) : l[j] = s[j + k]
  BY DEF After
<1>2. Len(l) \in Nat /\ Len(s) \in Nat
  OBVIOUS
<1>3. i \in 1..Len(l)
  BY <1>1, <1>2
<1>4. QED
  BY <1>1, <1>2, <1>3

LEMMA NoneLeft ==
    ASSUME NEW s \in Seq(Octets), Len(s) = 0 PROVE s = <<>>
  OBVIOUS

LEMMA OneLeft ==
    ASSUME NEW s \in Seq(Octets), Len(s) = 1
    PROVE  s # <<>> /\ Head(s) = s[1] /\ Tail(s) = <<>>
<1>1. s # <<>>
  BY Empty
<1>2. Tail(s) \in Seq(Octets) /\ Len(Tail(s)) = 0
  BY <1>1
<1>3. Head(s) = s[1]
  BY <1>1
<1>4. Tail(s) = <<>>
  BY <1>2, NoneLeft
<1>5. QED
  BY <1>1, <1>3, <1>4

----------------------------------------------------------------------------
(* The bootloader's steps keep the invariant *)

LEMMA Same ==
    ASSUME UNCHANGED message
    PROVE  Current' = Current
  BY DEF Current

(* A step that neither answers nor writes, and that the host has no part in. *)
LEMMA Still ==
    ASSUME Owed, FlashInv,
           UNCHANGED <<host, message, expected, written, replies, flash, stray, garbles>>
    PROVE  Owed' /\ FlashInv'
<1>1. Current' = Current
  BY Same
<1>2. QED
  BY <1>1 DEF Owed, FlashInv, Does

LEMMA First ==
    ASSUME RealPages, HostType, message = 1
    PROVE  /\ Current.does = "other" /\ Len(Current.bytes) = 2 /\ Current.bytes[2] = CRC_EOP
           /\ Current.bytes[1] = STK_GET_SYNC
<1>1. Current = Simple(STK_GET_SYNC)
  BY SessionIs DEF Current
<1>2. IsOther(Current)
  BY <1>1, OthersAre
<1>3. Current.bytes[1] = STK_GET_SYNC
  <2> DEFINE e == <<STK_GET_SYNC>>
             n == <<>>
  <2>1. STK_GET_SYNC \in Octets
    BY Commands
  <2>2. e \in Seq(Octets) /\ n \in Seq(Octets)
    BY <2>1
  <2>3. Len(e) = 1 /\ e[1] = STK_GET_SYNC
    OBVIOUS
  <2>4. Current = Message("other", 0, e, n)
    BY <1>1 DEF Simple
  <2> HIDE DEF e, n
  <2>5. Built(Message("other", 0, e, n), "other", 0, e, n)
    BY <2>2, MessageIs
  <2>6. QED
    BY <2>3, <2>4, <2>5 DEF Built
<1>4. QED
  BY <1>2, <1>3, OtherShape

(* Once a byte is lost or has changed, the wait for a terminator may end here. *)
LEMMA Halted ==
    ASSUME losses \in Nat, garbles \in Nat, losses = 1 \/ garbles = 1,
           UNCHANGED <<losses, garbles>>,
           pc' = "verify", line' = <<>> \/ line'[1] # CRC_EOP
    PROVE  Hung'
<1>1. losses' + garbles' # 0
  OBVIOUS
<1>2. QED
  BY <1>1 DEF Hung

LEMMA CommandKept ==
    ASSUME RealPages, TypeInv, Calm, CalmResets, Owed, FlashInv, Modes,
           GetCommand, UNCHANGED <<hostVars, counts>>
    PROVE  CalmResets' /\ Owed' /\ FlashInv' /\ Modes'
<1> DEFINE b == Current.bytes
<1>1. /\ pc = "command" /\ line # <<>> /\ line' = Tail(line) /\ ch' = Head(line)
      /\ args' = <<>>
      /\ pc' = IF Arguments(ch') = 0 THEN "verify" ELSE "args"
      /\ UNCHANGED <<address, length, buffer, flash, stray, rstfr, replies>>
      /\ UNCHANGED <<host, message, expected, written, losses, garbles>>
  BY DEF GetCommand, Getch, Byte, memory, resets, hostVars, counts
<1>2. Owed' /\ FlashInv'
  BY <1>1, Still
<1>3. CalmResets'
  BY <1>1 DEF CalmResets
<1>4. Current' = Current /\ Asked' = Asked /\ Clean' = Clean
  BY <1>1, Same DEF Asked, Clean
<1>5. line \in Seq(Octets) /\ losses \in Nat /\ losses <= 1
      /\ garbles \in Nat /\ losses + garbles <= 1 /\ IsMessage(Current)
      /\ HostType
  BY CurrentIs DEF TypeInv, LineType, HostType, Calm
<1>6. /\ b \in Seq(Octets) /\ b[1] # CRC_EOP /\ Len(b) >= 2 /\ b # <<>>
  <2>1. b \in Seq(Octets) /\ b[1] # CRC_EOP /\ Len(b) >= 2
    BY <1>5, Shape
  <2>2. b # <<>>
    BY <2>1, Empty
  <2>3. QED
    BY <2>1, <2>2
<1>7. Begun \/ NoCommand \/ Spare
  BY <1>1 DEF Modes, Off, Fresh, Rested, Arg, Filling, End, Writing, Slip, ShortArgs,
              ShortProg, Hungry, Hung
<1>8. CASE Begun
  <2>1. After(line, b, 0) /\ Asked /\ Clean /\ (Placed => address = Home)
    BY <1>6, <1>8, AfterNone DEF Begun
  <2>2. ch' = b[1] /\ After(line', b, 1)
    BY <1>1, <1>5, <1>6, <2>1, AfterTail
  <2>3. CASE Arguments(b[1]) = 0
    <3>1. ~Does("prog") /\ ~Does("load") /\ ~Does("read") /\ Len(b) = 2 /\ b[2] = CRC_EOP
      BY <1>5, <2>3, ShortShape DEF Does
    <3>2. Len(line') = 1 /\ line'[1] = CRC_EOP
      <4>1. line' \in Seq(Octets)
        BY <1>1, <1>5
      <4>2. Len(line') = 2 - 1
        BY <2>2, <3>1 DEF After
      <4>3. 1 < Len(b) /\ 1 + 1 = 2
        BY <3>1
      <4>4. line'[1] = b[1 + 1]
        BY <4>1, <4>3, <2>2, <1>6, AfterLen
      <4>5. QED
        BY <4>2, <4>3, <4>4, <3>1
    <3>3. End'
      BY <1>1, <1>4, <2>1, <2>2, <2>3, <3>1, <3>2 DEF End, Does, Placed
    <3>4. QED
      BY <1>2, <1>3, <3>3 DEF Modes
  <2>4. CASE Arguments(b[1]) # 0
    <3>1. Len(<<>>) = 0 /\ 0 + 1 = 1
      OBVIOUS
    <3>2. After(line', b, Len(args') + 1) /\ Len(args') = 0
      BY <1>1, <2>2, <3>1
    <3>3. \A i \in 1..Len(args') : args'[i] = b[i + 1]
      BY <3>2
    <3>4. Arg'
      BY <1>1, <1>4, <2>1, <2>2, <2>4, <3>2, <3>3 DEF Arg, Does, Placed, Home
    <3>5. QED
      BY <1>2, <1>3, <3>4 DEF Modes
  <2>5. QED
    BY <2>3, <2>4
<1>9. CASE NoCommand
  <2>1. /\ After(line, b, 1) /\ Asked /\ Clean /\ (losses = 0 => message = 1)
    BY <1>9 DEF NoCommand
  <2>2. /\ ch' = b[2] /\ After(line', b, 2)
    <3>1. Head(line) = b[1 + 1] /\ After(Tail(line), b, 1 + 1)
      BY <1>1, <1>5, <1>6, <2>1, AfterTail
    <3>2. QED
      BY <3>1, <1>1
  <2>3. line' \in Seq(Octets)
    BY <1>1, <1>5
  <2>4. message # 1 => losses = 1
    BY <2>1, <1>5
  <2>5. ASSUME 2 < Len(b) PROVE line' # <<>> /\ line'[1] = b[3]
    <3>1. line' # <<>> /\ line'[1] = b[2 + 1]
      BY <2>2, <2>3, <2>5, <1>6, AfterLen
    <3>2. QED
      BY <3>1
  <2>6. ASSUME Len(b) = 2 PROVE line' = <<>>
    BY <2>2, <2>3, <2>6, <1>6, AfterLen
  <2>7. CASE Does("other") /\ b[1] \in {STK_GET_SYNC, STK_LEAVE_PROGMODE, STK_READ_SIGN}
    <3>1. Len(b) = 2 /\ b[2] = CRC_EOP
      BY <2>7, <1>5, OtherShape DEF IsMessage, IsLoad, IsProg, IsRead, Does
    <3>2. Arguments(CRC_EOP) = 0
      BY Commands
    <3>3. Hung'
      BY <1>1, <1>4, <1>5, <2>1, <2>2, <2>6, <3>1, <3>2 DEF Hung, Asked, Clean
    <3>4. QED
      BY <1>2, <1>3, <3>3 DEF Modes
  <2>8. CASE ~(Does("other") /\ b[1] \in {STK_GET_SYNC, STK_LEAVE_PROGMODE, STK_READ_SIGN})
    <3>1. losses = 1
      BY <2>4, <2>8, <1>5, First DEF Does
    <3>2. CASE \E p \in Pages : IsLoad(Current, p)
      <4>1. /\ Does("load") /\ Arguments(b[2]) = 0 /\ b[2] # STK_READ_SIGN
            /\ Len(b) = 4 /\ b[4] = CRC_EOP
        BY <3>2, LoadShape DEF Does
      <4>2. pc' = "verify" /\ line' # <<>> /\ line'[1] = b[3] /\ UNCHANGED losses
        BY <1>1, <2>2, <2>5, <4>1
      <4>3. CASE b[3] = CRC_EOP
        <5>1. Len(line') = 4 - 2
          BY <2>2, <4>1 DEF After
        <5>2. line'[2] = b[4]
          <6>1. 2 + 2 <= Len(b) /\ 2 + 2 = 4
            BY <4>1
          <6>2. line'[2] = b[2 + 2]
            BY <2>2, <2>3, <6>1, <1>6, AfterAt
          <6>3. QED
            BY <6>1, <6>2
        <5>3. Len(line') = 2 /\ line'[2] = CRC_EOP
          BY <5>1, <5>2, <4>1
        <5>4. Slip'
          BY <1>4, <2>1, <2>2, <3>1, <4>1, <4>2, <5>3 DEF Slip, Does
        <5>5. QED
          BY <1>2, <1>3, <5>4 DEF Modes
      <4>4. CASE b[3] # CRC_EOP
        <5>1. Hung'
          BY <1>1, <1>5, <3>1, <4>2, <4>4, Halted
        <5>2. QED
          BY <1>2, <1>3, <5>1 DEF Modes
      <4>5. QED
        BY <4>3, <4>4
    <3>3. CASE \E p \in Pages : IsProg(Current, p) \/ IsRead(Current, p)
      <4>1. Arguments(b[2]) = 0 /\ b[3] = 64 /\ 2 < Len(b)
        <5>1. Arguments(b[2]) = 0 /\ b[3] = 64 /\ (Len(b) = 69 \/ Len(b) = 5)
          BY <3>3, ProgShape, ReadShape
        <5> HIDE DEF b
        <5>2. QED
          BY <5>1
      <4>2. line' # <<>> /\ line'[1] # CRC_EOP
        BY <4>1, <2>5 DEF CRC_EOP
      <4>3. Hung'
        BY <1>1, <1>5, <2>2, <3>1, <4>1, <4>2, Halted
      <4>4. QED
        BY <1>2, <1>3, <4>3 DEF Modes
    <3>4. CASE IsOther(Current)
      <4>1. b[1] \in {STK_GET_PARAMETER, STK_UNIVERSAL}
        BY <3>4, <2>8, OtherShape DEF Does
      <4>2. CASE b[1] = STK_GET_PARAMETER
        <5>1. Does("other") /\ b[2] = STK_SW_MAJOR /\ Len(b) = 3
          BY <3>4, <4>2, OtherShape DEF Does
        <5>2. Arguments(b[2]) = 0 /\ b[2] # STK_READ_SIGN
          BY <5>1, Commands DEF STK_SW_MAJOR, STK_READ_SIGN
        <5>3. Len(line') = 3 - 2
          BY <2>2, <5>1 DEF After
        <5>4. Slip'
          BY <1>1, <1>4, <2>1, <2>2, <3>1, <5>1, <5>2, <5>3 DEF Slip, Does
        <5>5. QED
          BY <1>2, <1>3, <5>4 DEF Modes
      <4>3. CASE b[1] = STK_UNIVERSAL
        <5>1. b[2] = STK_GET_SYNC /\ b[3] = 0 /\ Len(b) = 6
          BY <3>4, <4>3, OtherShape
        <5>2. Arguments(b[2]) = 0
          BY <5>1, Commands
        <5>3. 2 < Len(b)
          BY <5>1
        <5>4. line' # <<>> /\ line'[1] # CRC_EOP
          BY <5>1, <5>3, <2>5 DEF CRC_EOP
        <5>5. Hung'
          BY <1>1, <1>5, <2>2, <3>1, <5>2, <5>4, Halted
        <5>6. QED
          BY <1>2, <1>3, <5>5 DEF Modes
      <4>4. QED
        BY <4>1, <4>2, <4>3
    <3>5. QED
      BY <3>2, <3>3, <3>4, <1>5 DEF IsMessage
  <2>9. QED
    BY <2>7, <2>8
<1>10. CASE Spare
  <2>1. Head(line) = line[1] /\ line[1] = CRC_EOP /\ losses = 1
        /\ (Len(line) = 1 \/ (Asked /\ Tail(line) = b))
    BY <1>1, <1>5, <1>10 DEF Spare
  <2>2. Arguments(CRC_EOP) = 0
    BY Commands
  <2>3. line' = <<>> \/ line' = b
    <3>1. Len(line) = 1 => Tail(line) = <<>>
      BY <1>5, OneLeft
    <3>2. QED
      BY <3>1, <2>1, <1>1
  <2>4. Hung'
    <3>1. pc' = "verify" /\ (line' = <<>> \/ line'[1] # CRC_EOP)
      BY <1>1, <1>6, <2>1, <2>2, <2>3
    <3>2. QED
      BY <1>1, <1>5, <2>1, <3>1, Halted
  <2>5. QED
    BY <1>2, <1>3, <2>4 DEF Modes
<1>11. QED
  BY <1>7, <1>8, <1>9, <1>10

LEMMA Appended ==
    ASSUME NEW s \in Seq(Octets), NEW o \in Octets
    PROVE  /\ Append(s, o) \in Seq(Octets) /\ Len(Append(s, o)) = Len(s) + 1
           /\ Append(s, o)[Len(s) + 1] = o
           /\ \A i \in 1..Len(s) : Append(s, o)[i] = s[i]
  OBVIOUS

LEMMA TailIs ==
    ASSUME NEW s \in Seq(Octets), s # <<>>
    PROVE  /\ Head(s) = s[1] /\ Head(s) \in Octets /\ Tail(s) \in Seq(Octets)
           /\ Len(s) \in Nat \ {0} /\ Len(Tail(s)) = Len(s) - 1
           /\ \A i \in 1..Len(s) - 1 : Tail(s)[i] = s[i + 1]
  OBVIOUS

LEMMA OctetIs == \A o \in Octets : o \in Nat /\ o < 256
  BY DEF Octets

(* What is needed of the state before a step. *)
LEMMA Facts ==
    ASSUME RealPages, TypeInv, Calm
    PROVE  /\ CommandType /\ MemoryType /\ LineType /\ HostType
           /\ line \in Seq(Octets) /\ replies \in Seq(Octets) /\ args \in Seq(Octets)
           /\ expected \in Seq(Octets)
           /\ losses \in Nat /\ losses <= 1 /\ garbles \in Nat /\ losses + garbles <= 1
           /\ IsMessage(Current)
           /\ ch \in Octets /\ length \in Octets /\ address \in Words /\ address \in Nat
           /\ length \in 0..255 /\ Len(args) \in Nat /\ Len(line) \in Nat
           /\ Len(replies) \in Nat /\ Len(expected) \in Nat
           /\ Current.bytes \in Seq(Octets) /\ Current.bytes # <<>>
           /\ Current.does # "other" => Current.page \in Pages
<1>1. CommandType /\ MemoryType /\ LineType /\ HostType
  BY DEF TypeInv
<1>2. address \in Nat
  BY <1>1, WordsAre DEF CommandType
<1>3. Len(Current.bytes) >= 2 /\ Current.bytes \in Seq(Octets)
  BY <1>1, CurrentIs, Shape
<1>4. Current.bytes # <<>>
  BY <1>3, Empty
<1>5. QED
  BY <1>1, <1>2, <1>3, <1>4, CurrentIs
     DEF CommandType, LineType, HostType, Calm, Octets

LEMMA ArgumentKept ==
    ASSUME RealPages, TypeInv, Calm, CalmResets, Owed, FlashInv, Modes,
           GetArgument, UNCHANGED <<hostVars, counts>>
    PROVE  CalmResets' /\ Owed' /\ FlashInv' /\ Modes'
<1> DEFINE b == Current.bytes
           k == Len(args)
           n == Arguments(ch)
<1>1. /\ pc = "args" /\ line # <<>> /\ line' = Tail(line)
      /\ args' = Append(args, Head(line))
      /\ pc' = IF Len(args') # n THEN "args"
                ELSE IF ch = STK_PROG_PAGE THEN "data" ELSE "verify"
      /\ length' = IF ch \in {STK_PROG_PAGE, STK_READ_PAGE} /\ Len(args') = 2
                   THEN Head(line) ELSE length
      /\ UNCHANGED <<ch, buffer, flash, stray, rstfr, replies>>
  BY ArgumentStep
<1>2. UNCHANGED <<host, message, expected, written, losses, garbles>>
  BY DEF hostVars, counts
<1>3. Owed' /\ FlashInv' /\ CalmResets' /\ Current' = Current /\ Asked' = Asked /\ Clean' = Clean
  <2>1. Owed' /\ FlashInv'
    BY <1>1, <1>2, Still
  <2>2. Current' = Current
    BY <1>2, Same
  <2>3. QED
    BY <1>1, <1>2, <2>1, <2>2 DEF CalmResets, Asked, Clean
<1>4. /\ line \in Seq(Octets) /\ losses \in Nat /\ losses <= 1
      /\ garbles \in Nat /\ losses + garbles <= 1 /\ IsMessage(Current)
      /\ args \in Seq(Octets) /\ b \in Seq(Octets) /\ ch \in Octets /\ address \in Words
  BY Facts
<1>5. /\ k \in Nat /\ n \in 0..20 /\ k < n
  BY <1>1, <1>4, ArgumentsIs, Facts DEF CommandType
<1>6. /\ Head(line) = line[1] /\ Head(line) \in Octets /\ line' \in Seq(Octets)
      /\ Len(line) \in Nat \ {0} /\ Len(line') = Len(line) - 1
      /\ \A i \in 1..Len(line) - 1 : line'[i] = line[i + 1]
  BY <1>1, <1>4, TailIs
<1>7. /\ Len(args') = k + 1 /\ args'[k + 1] = Head(line)
      /\ \A i \in 1..k : args'[i] = args[i]
  BY <1>1, <1>4, <1>6, Appended
<1>8. Arg \/ ShortArgs \/ ShortProg
  BY <1>1 DEF Modes, Off, Fresh, Rested, Begun, Filling, End, Writing, NoCommand, Slip,
              Hungry, Hung, Spare
<1>9. STK_LOAD_ADDRESS # STK_PROG_PAGE /\ STK_PROG_PAGE # STK_READ_PAGE
      /\ Arguments(STK_PROG_PAGE) = 3 /\ Arguments(STK_READ_PAGE) = 3
      /\ Arguments(STK_LOAD_ADDRESS) = 2
  BY Commands DEF STK_LOAD_ADDRESS, STK_PROG_PAGE, STK_READ_PAGE
<1> HIDE DEF b, k, n
<1>10. CASE Arg
  <2>1. /\ Asked /\ Clean /\ ch = b[1] /\ After(line, b, k + 1)
        /\ \A i \in 1..k : args[i] = b[i + 1]
        /\ ch \in {STK_PROG_PAGE, STK_READ_PAGE} /\ k = 2 => length = 64
        /\ Placed => address = Home
        /\ Does("load") /\ k = 1 => address % 256 = args[1]
    BY <1>10 DEF Arg, b, k
  <2>2. Head(line) = b[k + 2] /\ After(line', b, k + 2)
    <3>1. Head(line) = b[k + 1 + 1] /\ After(Tail(line), b, k + 1 + 1)
      BY <1>1, <1>4, <1>5, <2>1, AfterTail
    <3>2. k + 1 + 1 = k + 2
      BY <1>5
    <3>3. QED
      BY <3>1, <3>2, <1>1
  <2>3. \A i \in 1..k + 1 : args'[i] = b[i + 1]
    <3> TAKE i \in 1..k + 1
    <3>1. CASE i \in 1..k
      BY <3>1, <1>7, <2>1
    <3>2. CASE i = k + 1
      <4>1. i + 1 = k + 2
        BY <3>2, <1>5
      <4>2. QED
        BY <3>2, <4>1, <1>7, <2>2
    <3>3. QED
      BY <3>1, <3>2, <1>5
  <2>4. /\ Does("prog") <=> ch = STK_PROG_PAGE
        /\ Does("load") <=> ch = STK_LOAD_ADDRESS
        /\ Does("read") <=> ch = STK_READ_PAGE
        /\ ch \in {STK_PROG_PAGE, STK_READ_PAGE} => b[3] = 64 /\ b[4] = Flash
    BY <1>4, <2>1, Shape DEF Does, b
  <2>5. CASE k + 1 # n
    <3>1. pc' = "args" /\ After(line', b, Len(args') + 1)
      <4>1. k + 1 + 1 = k + 2
        BY <1>5
      <4>2. QED
        BY <4>1, <1>1, <1>7, <2>2, <2>5
    <3>2. ch \in {STK_PROG_PAGE, STK_READ_PAGE} /\ Len(args') = 2 => length' = 64
      <4> SUFFICES ASSUME ch \in {STK_PROG_PAGE, STK_READ_PAGE}, Len(args') = 2
                   PROVE  length' = 64
        OBVIOUS
      <4>1. k = 1
        BY <1>5, <1>7
      <4>2. length' = Head(line) /\ k + 2 = 3
        BY <1>1, <4>1
      <4>3. QED
        BY <4>2, <2>2, <2>4
    <3>3. Placed => address' = Home
      BY <1>1, <1>7, <1>9, <2>1, <2>4, <2>5, ArgumentStep DEF n, Placed
    <3>4. Does("load") /\ Len(args') = 1 => address' % 256 = args'[1]
      <4> SUFFICES ASSUME Does("load"), Len(args') = 1 PROVE address' % 256 = args'[1]
        OBVIOUS
      <4>1. address' = (256 * (address \div 256)) + Head(line)
        BY <1>7, <2>4, <2>5, ArgumentStep DEF n
      <4>2. address' % 256 = Head(line)
        BY <4>1, <1>4, <1>6, TwoBytes
      <4>3. k + 1 = 1
        BY <1>5, <1>7
      <4>4. QED
        BY <4>2, <4>3, <1>7
    <3>5. /\ pc' = "args" /\ Asked' /\ Clean' /\ ch' = b[1]
          /\ \A i \in 1..Len(args') : args'[i] = b[i + 1]
      BY <1>1, <1>3, <1>7, <2>1, <2>3, <3>1
    <3>6. Arg'
      BY <1>1, <1>3, <3>1, <3>2, <3>3, <3>4, <3>5 DEF Arg, Does, Placed, Home, b
    <3>7. QED
      BY <1>3, <3>6 DEF Modes
  <2>6. CASE k + 1 = n /\ ch = STK_PROG_PAGE
    <3>1. k = 2 /\ n = 3 /\ Len(args') = n /\ k + 2 = 4
      <4>1. n = 3
        BY <2>6, <1>9 DEF n
      <4>2. QED
        BY <4>1, <2>6, <1>5, <1>7
    <3>2. pc' = "data" /\ length' = 64 /\ Does("prog")
      <4>1. Len(args') # 2
        BY <3>1
      <4>2. QED
        BY <3>1, <4>1, <1>1, <2>1, <2>4, <2>6
    <3>3. address' = (Home + MAPPED_PROGMEM_START + (64 - length')) % DataSpace
      <4>1. address' = Mapped(Flash)
        BY <3>1, <2>2, <2>4, <2>6, ArgumentStep DEF n
      <4>2. address' = (Home + MAPPED_PROGMEM_START) % DataSpace
        BY <4>1, <3>2, <2>1 DEF Mapped, Placed
      <4> DEFINE a == Home
                 m == MAPPED_PROGMEM_START
      <4>3. a \in Nat /\ m \in Nat
        <5>1. Current.page \in Pages /\ Pages \subseteq Nat
          BY <3>2, Facts, PageAssumption DEF Does
        <5> DEFINE p == Current.page
        <5>2. p \in Nat
          BY <5>1
        <5> HIDE DEF p
        <5>3. 64 * p \in Nat
          BY <5>2
        <5>4. a \in Nat
          BY <5>3 DEF Home, p
        <5>5. QED
          BY <5>4, SpaceIs
      <4> HIDE DEF a, m
      <4>4. a + m + (64 - 64) = a + m
        BY <4>3
      <4>5. QED
        BY <4>2, <4>4, <3>2 DEF a, m
    <3>4. \A i \in 0..63 :
             buffer'[i] = IF i < 64 - length' THEN Image[Current.page][i] ELSE Erased
      <4> TAKE i \in 0..63
      <4>1. ~(i < 64 - length')
        BY <3>2
      <4>2. buffer'[i] = Erased
        BY <1>1, <2>1 DEF Clean, EmptyBuffer, RealPages
      <4>3. QED
        BY <4>1, <4>2
    <3>5. After(line', b, 68 - length')
      <4>1. 68 - length' = k + 2
        BY <3>1, <3>2
      <4>2. QED
        BY <4>1, <2>2
    <3>6. Len(line') = length' + 1
      <4>1. Len(line') = Len(b) - (k + 2)
        BY <2>2 DEF After
      <4>2. Len(b) = 69
        BY <3>2, <1>4, Shape DEF Does, b
      <4>3. QED
        BY <3>1, <3>2, <4>1, <4>2
    <3>7. Filling'
      <4>1. /\ Asked' /\ Does("prog")' /\ ch' = STK_PROG_PAGE /\ length' <= 64
            /\ pc' = IF length' = 0 THEN "verify" ELSE "data"
        BY <1>1, <1>3, <2>1, <2>6, <3>2 DEF Does
      <4>2. QED
        BY <4>1, <1>3, <3>3, <3>4, <3>5, <3>6 DEF Filling, Filled, Home, b
    <3>8. QED
      BY <1>3, <3>7 DEF Modes
  <2>7. CASE k + 1 = n /\ ch # STK_PROG_PAGE
    <3>1. pc' = "verify" /\ ~Does("prog") /\ Len(args') = n
      BY <1>1, <1>7, <2>4, <2>7
    <3>2. Len(line') = 1 /\ line'[1] = CRC_EOP
      <4>1. Len(b) = n + 2 /\ b[n + 2] = CRC_EOP
        BY <1>4, <2>1, <3>1, Shape DEF Does, b, n
      <4>2. Len(line') = Len(b) - (k + 2)
        BY <2>2 DEF After
      <4>3. 1 + (k + 2) <= Len(b) /\ 1 + (k + 2) = n + 2 /\ k + 2 \in Nat
        BY <4>1, <1>5, <2>7
      <4>4. line'[1] = b[1 + (k + 2)]
        BY <4>3, <1>4, <1>6, <2>2, AfterAt
      <4>5. Len(line') = 1
        BY <4>1, <4>2, <1>5, <2>7
      <4>6. QED
        BY <4>1, <4>3, <4>4, <4>5
    <3>3. Does("load") => address' = Home
      <4> SUFFICES ASSUME Does("load") PROVE address' = Home
        OBVIOUS
      <4>1. k = 1 /\ k + 2 = 3 /\ 1 + 1 = 2
        <5>1. n = 2
          BY <2>4, <1>9 DEF n
        <5>2. QED
          BY <5>1, <2>7, <1>5
      <4>2. address' = 256 * Head(line) + (address % 256)
        BY <3>1, <2>4, ArgumentStep DEF n
      <4>3. address % 256 = b[2] /\ Head(line) = b[3]
        <5>1. 1 \in 1..k
          BY <4>1
        <5>2. args[1] = b[1 + 1]
          BY <5>1, <2>1
        <5>3. QED
          BY <4>1, <5>2, <2>1, <2>2
      <4>4. b[2] + 256 * b[3] = Home
        BY <1>4, Shape DEF Does, Home, b
      <4>5. address % 256 \in Nat /\ Head(line) \in Nat
        <5>1. address \in Nat
          BY Facts
        <5>2. Head(line) \in Nat
          BY <1>6, OctetIs
        <5>3. QED
          BY <5>1, <5>2
      <4> DEFINE lo == address % 256
                 hi == Head(line)
      <4> HIDE DEF lo, hi
      <4>6. 256 * hi + lo = lo + 256 * hi
        BY <4>5 DEF lo, hi
      <4>7. QED
        BY <4>2, <4>3, <4>4, <4>6 DEF lo, hi
    <3>4. Does("read") => length' = 64 /\ args'[3] = Flash /\ address' = Home
      <4> SUFFICES ASSUME Does("read")
                   PROVE  length' = 64 /\ args'[3] = Flash /\ address' = Home
        OBVIOUS
      <4>1. k = 2 /\ Len(args') # 2 /\ k + 1 = 3 /\ 3 + 1 = 4
        <5>1. n = 3
          BY <2>4, <1>9 DEF n
        <5>2. QED
          BY <5>1, <2>7, <3>1, <1>5
      <4>2. length' = 64
        BY <4>1, <1>1, <2>1, <2>4
      <4>3. args'[3] = Flash
        <5>1. 3 \in 1..k + 1
          BY <4>1
        <5>2. args'[3] = b[3 + 1]
          BY <5>1, <2>3
        <5>3. QED
          BY <4>1, <5>2, <2>1, <2>4
      <4>4. address' = address
        BY <1>9, <2>4, <2>7, ArgumentStep
      <4>5. QED
        BY <4>2, <4>3, <4>4, <2>1 DEF Placed
    <3>5. End'
      <4>1. Len(line') = 1 /\ line'[1] = CRC_EOP /\ pc' = "verify" /\ Asked' /\ Clean'
            /\ ~Does("prog")' /\ ch' = Current'.bytes[1]
        BY <1>1, <1>3, <2>1, <3>1, <3>2 DEF Does, b
      <4>2. Home' = Home /\ Does("load")' = Does("load") /\ Does("read")' = Does("read")
        BY <1>3 DEF Home, Does
      <4>3. QED
        BY <4>1, <4>2, <3>3, <3>4 DEF End
    <3>6. QED
      BY <1>3, <3>5 DEF Modes
  <2>8. QED
    BY <2>5, <2>6, <2>7
<1>11. CASE ShortArgs
  <2>1. Asked /\ losses = 1 /\ ch # STK_PROG_PAGE /\ Len(line) + k = n
    BY <1>11 DEF ShortArgs, k, n
  <2>2. Len(line') + Len(args') = n /\ Len(line') \in Nat
    BY <2>1, <1>5, <1>6, <1>7
  <2>3. CASE Len(args') # n
    <3>1. ShortArgs'
      BY <1>1, <1>2, <1>3, <2>1, <2>2, <2>3 DEF ShortArgs, n
    <3>2. QED
      BY <1>3, <3>1 DEF Modes
  <2>4. CASE Len(args') = n
    <3>1. Len(line') = 0
      BY <2>2, <2>4, <1>5
    <3>2. line' = <<>>
      BY <3>1, <1>6
    <3>3. pc' = "verify"
      BY <1>1, <2>1, <2>4
    <3>4. Hung'
      BY <3>2, <3>3, <1>2, <1>4, <2>1, Halted
    <3>5. QED
      BY <1>3, <3>4 DEF Modes
  <2>5. QED
    BY <2>3, <2>4
<1>12. CASE ShortProg
  <2>1. /\ Asked /\ losses = 1 /\ ch = STK_PROG_PAGE /\ Len(line) + k = 67 /\ n = 3
        /\ k < 2 => line[2 - k] = Flash
        /\ k = 2 => length \in {64, 70}
    BY <1>9, <1>12 DEF ShortProg, k, n
  <2>2. k = 0 \/ k = 1 \/ k = 2
    BY <2>1, <1>5
  <2>3. Len(line') + Len(args') = 67 /\ Len(line') \in Nat
    BY <2>1, <1>5, <1>6, <1>7
  <2>4. CASE k = 0
    <3>1. Len(args') = 1 /\ Len(line) = 67 /\ line[2] = Flash
      BY <2>1, <2>4, <1>7
    <3>2. pc' = "args"
      BY <3>1, <2>1, <1>1
    <3>3. line'[1] = Flash
      <4>1. 1 \in 1..Len(line) - 1 /\ 1 + 1 = 2
        BY <3>1
      <4>2. line'[1] = line[1 + 1]
        BY <4>1, <1>6
      <4>3. QED
        BY <3>1, <4>1, <4>2
    <3>4. line'[2 - Len(args')] = Flash
      <4>1. 2 - Len(args') = 1
        BY <3>1
      <4>2. QED
        BY <3>3, <4>1
    <3>5. Len(args') # 2
      BY <3>1
    <3>6. ShortProg'
      BY <1>1, <1>2, <1>3, <2>1, <2>3, <3>2, <3>4, <3>5 DEF ShortProg
    <3>7. QED
      BY <1>3, <3>6 DEF Modes
  <2>5. CASE k = 1
    <3>1. Len(args') = 2 /\ line[1] = Flash
      BY <2>1, <2>5, <1>7
    <3>2. pc' = "args" /\ length' = Flash
      BY <3>1, <2>1, <1>1, <1>6
    <3>3. length' \in {64, 70} /\ ~(Len(args') < 2)
      BY <3>1, <3>2 DEF Flash
    <3>4. ShortProg'
      BY <1>1, <1>2, <1>3, <2>1, <2>3, <3>2, <3>3 DEF ShortProg
    <3>5. QED
      BY <1>3, <3>4 DEF Modes
  <2>6. CASE k = 2
    <3>1. Len(args') = 3 /\ Len(line') = 64
      <4> DEFINE l == Len(line')
      <4>1. Len(args') = 3 /\ l + Len(args') = 67 /\ l \in Nat
        BY <2>3, <2>6, <1>7
      <4> HIDE DEF l
      <4>2. l = 64
        BY <4>1
      <4>3. QED
        BY <4>1, <4>2 DEF l
    <3>2. pc' = "data" /\ length' \in {64, 70} /\ replies' = <<>> /\ host' = "wait"
      <4>1. Len(args') # 2
        BY <3>1
      <4>2. QED
        BY <3>1, <4>1, <2>1, <2>6, <1>1, <1>2 DEF Asked
    <3>3. length' > 0 /\ Len(line') <= length' /\ (length' - Len(line')) % 2 = 0
      <4> DEFINE l == Len(line')
                 m == length'
      <4>1. l = 64 /\ (m = 64 \/ m = 70)
        BY <3>1, <3>2
      <4> HIDE DEF l, m
      <4>2. m > 0 /\ l <= m /\ (m - l = 0 \/ m - l = 6)
        BY <4>1
      <4>3. 0 % 2 = 0 /\ 6 % 2 = 0
        OBVIOUS
      <4>4. QED
        BY <4>2, <4>3 DEF l, m
    <3>4. Hungry'
      BY <3>2, <3>3, <1>2, <2>1 DEF Hungry
    <3>5. QED
      BY <1>3, <3>4 DEF Modes
  <2>7. QED
    BY <2>2, <2>4, <2>5, <2>6
<1>13. QED
  BY <1>8, <1>10, <1>11, <1>12

LEMMA Reduced ==
    /\ \A a \in Nat : a < DataSpace => a % DataSpace = a
    /\ DataSpace % DataSpace = 0 /\ (0 - 1) % DataSpace = DataSpace - 1
<1>1. ASSUME NEW n \in Nat \ {0}
      PROVE  /\ \A a \in Nat : a < n => a % n = a
             /\ n % n = 0 /\ (0 - 1) % n = n - 1
  <2>1. \A a \in Nat : a < n => a % n = a
    OBVIOUS
  <2>2. n % n = 0
    OBVIOUS
  <2>3. (0 - 1) % n = n - 1
    OBVIOUS
  <2>4. QED
    BY <2>1, <2>2, <2>3
<1>2. DataSpace \in Nat \ {0}
  BY SpaceIs
<1>3. QED
  BY <1>1, <1>2

(* A page's bytes are where the address counts to, and it is the page that *)
(* the last of them went to.                                               *)
LEMMA Counted ==
    ASSUME NEW p \in 0..511, NEW j \in 0..63
    PROVE  /\ ((64 * p + MAPPED_PROGMEM_START + j) % DataSpace) % 64 = j
           /\ (((64 * p + MAPPED_PROGMEM_START + j) % DataSpace) + 1) % DataSpace =
                 (64 * p + MAPPED_PROGMEM_START + (j + 1)) % DataSpace
<1> DEFINE m == MAPPED_PROGMEM_START
           a == 64 * p + m + j
           q == p + 512
<1>1. m = 64 * 512 /\ m \in Nat
  BY SpaceIs
<1>2. DataSpace = m + m /\ DataSpace \in Nat
  BY SpaceIs
<1> HIDE DEF m
<1>3. a = 64 * q + j /\ q \in Nat /\ a \in Nat /\ a < m + m
  BY <1>1
<1>4. a + 1 = 64 * p + m + (j + 1)
  BY <1>1
<1> HIDE DEF q
<1>5. (64 * q + j) % 64 = j
  BY <1>3
<1> HIDE DEF a
<1>6. a % DataSpace = a
  <2>1. a \in Nat /\ a < DataSpace
    BY <1>2, <1>3
  <2>2. QED
    BY <2>1, Reduced
<1>7. QED
  BY <1>3, <1>4, <1>5, <1>6 DEF a, m

LEMMA LastOf ==
    ASSUME RealPages, NEW p \in 0..511
    PROVE  PageOf((((64 * p + MAPPED_PROGMEM_START + 64) % DataSpace) - 1) % DataSpace) = p
<1> DEFINE m == MAPPED_PROGMEM_START
           a == 64 * p + m + 64
<1>1. m = 64 * 512 /\ m \in Nat
  BY SpaceIs
<1>2. DataSpace = m + m /\ DataSpace \in Nat
  BY SpaceIs
<1> DEFINE x == 64 * p + 63
<1>3. x \in Nat /\ x < 64 * 512 /\ x \div 64 = p
  OBVIOUS
<1> HIDE DEF m
<1>4. a = m + x + 1
  BY <1>1
<1> HIDE DEF a, x
<1>5. /\ a \in Nat /\ a - 1 \in Nat /\ a - 1 - m = x
      /\ a < DataSpace \/ a = DataSpace
      /\ a - 1 < DataSpace /\ x < DataSpace
  <2>1. x \in Nat /\ x < m
    BY <1>1, <1>3
  <2>2. QED
    BY <1>1, <1>2, <1>4, <2>1
<1>6. ((a % DataSpace) - 1) % DataSpace = a - 1
  <2>1. CASE a < DataSpace
    <3>1. a % DataSpace = a /\ (a - 1) % DataSpace = a - 1
      BY <2>1, <1>5, Reduced
    <3>2. QED
      BY <3>1
  <2>2. CASE a = DataSpace
    <3>1. a % DataSpace = 0 /\ (0 - 1) % DataSpace = a - 1
      BY <2>2, Reduced
    <3>2. QED
      BY <3>1
  <2>3. QED
    BY <2>1, <2>2, <1>5
<1>7. PageOf(a - 1) = (x % DataSpace) \div 64
  BY <1>5 DEF PageOf, RealPages, m
<1>8. x % DataSpace = x
  BY <1>3, <1>5, Reduced
<1>9. QED
  BY <1>3, <1>6, <1>7, <1>8 DEF a, m

LEMMA DataKept ==
    ASSUME RealPages, TypeInv, Calm, CalmResets, Owed, FlashInv, Modes,
           GetData, UNCHANGED <<hostVars, counts>>
    PROVE  CalmResets' /\ Owed' /\ FlashInv' /\ Modes'
<1> DEFINE b == Current.bytes
<1>1. /\ pc = "data" /\ line # <<>> /\ line' = Tail(line)
      /\ buffer' = [buffer EXCEPT ![address % 64] = Head(line)]
      /\ address' = (address + 1) % DataSpace
      /\ length' = (length - 1) % 256
      /\ pc' = IF length' = 0 THEN "verify" ELSE "data"
      /\ UNCHANGED <<ch, args, flash, stray, rstfr, replies>>
  BY DEF GetData, Getch, Byte, memory, resets, RealPages
<1>2. UNCHANGED <<host, message, expected, written, losses, garbles>>
  BY DEF hostVars, counts
<1>3. Owed' /\ FlashInv' /\ CalmResets' /\ Current' = Current /\ Asked' = Asked
  <2>1. Owed' /\ FlashInv'
    BY <1>1, <1>2, Still
  <2>2. Current' = Current
    BY <1>2, Same
  <2>3. QED
    BY <1>1, <1>2, <2>1, <2>2 DEF CalmResets, Asked
<1>4. /\ line \in Seq(Octets) /\ losses \in Nat /\ losses <= 1
      /\ garbles \in Nat /\ losses + garbles <= 1 /\ IsMessage(Current)
      /\ b \in Seq(Octets) /\ length \in 0..255 /\ MemoryType
  BY Facts
<1>5. /\ Head(line) = line[1] /\ Head(line) \in Octets /\ line' \in Seq(Octets)
      /\ Len(line) \in Nat \ {0} /\ Len(line') = Len(line) - 1
  BY <1>1, <1>4, TailIs
<1>6. Filling \/ Hungry
  BY <1>1 DEF Modes, Off, Fresh, Rested, Begun, Arg, End, Writing, NoCommand, Slip,
              ShortArgs, ShortProg, Hung, Spare
<1>7. length # 0 => length' = length - 1
  <2>1. \A n \in 0..255 : n # 0 => (n - 1) % 256 = n - 1
    OBVIOUS
  <2>2. length \in 0..255 /\ length' = (length - 1) % 256
    BY <1>1, <1>4
  <2>3. QED
    BY <2>1, <2>2
<1> HIDE DEF b
<1>8. CASE Filling
  <2>1. /\ Asked /\ Does("prog") /\ ch = STK_PROG_PAGE /\ length <= 64
        /\ address = (Home + MAPPED_PROGMEM_START + (64 - length)) % DataSpace
        /\ Len(line) = length + 1
        /\ garbles = 0 =>
            /\ \A i \in 0..63 :
                  buffer[i] = IF i < 64 - length THEN Image[Current.page][i] ELSE Erased
            /\ After(line, b, 68 - length)
    BY <1>8 DEF Filling, Filled, b
  <2>0. length # 0
    BY <1>1, <1>8 DEF Filling
  <2> DEFINE j == 64 - length
             p == Current.page
  <2>2. j \in 0..63 /\ length' = length - 1 /\ length' = 63 - j /\ length' \in 0..63
    BY <2>0, <2>1, <1>4, <1>7
  <2>3. p \in 0..511
    BY <2>1, Facts DEF RealPages, Does
  <2>4. address % 64 = j /\ address' = (Home + MAPPED_PROGMEM_START + (64 - length')) % DataSpace
    <3>1. 64 - length' = j + 1
      BY <2>2
    <3> HIDE DEF j, p
    <3>2. /\ ((64 * p + MAPPED_PROGMEM_START + j) % DataSpace) % 64 = j
          /\ (((64 * p + MAPPED_PROGMEM_START + j) % DataSpace) + 1) % DataSpace =
                (64 * p + MAPPED_PROGMEM_START + (j + 1)) % DataSpace
      BY <2>2, <2>3, Counted
    <3>3. address = (64 * p + MAPPED_PROGMEM_START + j) % DataSpace
      BY <2>1 DEF j, p, Home
    <3>4. QED
      BY <1>1, <3>1, <3>2, <3>3 DEF Home, p
  <2>5. ASSUME garbles = 0
        PROVE  Head(line) = Image[p][j] /\ After(line', b, 68 - length')
    <3> DEFINE k == 68 - length
    <3>1. k \in Nat /\ k + 1 = 68 - length' /\ k + 1 = (j + 1) + 4 /\ j + 1 \in 1..64
          /\ (j + 1) - 1 = j
      BY <2>2, <1>4
    <3>2. Head(line) = b[k + 1] /\ After(Tail(line), b, k + 1)
      <4> HIDE DEF k
      <4>1. k \in Nat /\ After(line, b, k)
        BY <2>1, <2>5, <3>1 DEF k
      <4>2. QED
        BY <4>1, <1>1, <1>4, AfterTail
    <3> HIDE DEF j, k
    <3>3. b[(j + 1) + 4] = Image[p][(j + 1) - 1]
      BY <3>1, <2>1, <1>4, Shape DEF Does, b
    <3>4. QED
      BY <3>1, <3>2, <3>3, <1>1
  <2>6. ASSUME garbles = 0
        PROVE  \A i \in 0..63 :
                 buffer'[i] = IF i < 64 - length' THEN Image[Current.page][i] ELSE Erased
    <3> TAKE i \in 0..63
    <3>1. 64 - length' = j + 1 /\ buffer \in [0..63 -> Octets]
      BY <2>2, <1>4 DEF MemoryType, PageData
    <3>2. buffer' = [buffer EXCEPT ![j] = Image[p][j]]
      BY <1>1, <2>4, <2>5, <2>6
    <3>3. buffer[i] = IF i < j THEN Image[p][i] ELSE Erased
      BY <2>1, <2>6
    <3> HIDE DEF j, p
    <3>4. CASE i = j
      <4>1. buffer'[i] = Image[p][i] /\ i < j + 1
        BY <3>1, <3>2, <3>4, <2>2
      <4>2. QED
        BY <4>1, <3>1 DEF p
    <3>5. CASE i # j
      <4>1. buffer'[i] = buffer[i] /\ (i < j + 1 <=> i < j)
        BY <3>1, <3>2, <3>5, <2>2
      <4>2. QED
        BY <4>1, <3>1, <3>3 DEF p
    <3>6. QED
      BY <3>4, <3>5
  <2>7. length' <= 64 /\ Len(line') = length' + 1
    <3> DEFINE l == Len(line)
    <3>1. l = length + 1 /\ Len(line') = l - 1 /\ length' = length - 1
      BY <2>1, <2>2, <1>5
    <3> HIDE DEF l
    <3>2. length \in 0..255
      BY <1>4
    <3>3. QED
      BY <2>1, <3>1, <3>2
  <2>8. Filling'
    <3>1. garbles' = garbles
      BY <1>2
    <3>2. garbles = 0 => Filled' /\ After(line', Current'.bytes, 68 - length')
      BY <1>3, <2>5, <2>6 DEF Filled, b
    <3>3. Asked' /\ Does("prog")' /\ ch' = STK_PROG_PAGE
      BY <1>1, <1>3, <2>1 DEF Does
    <3>4. address' = (Home' + MAPPED_PROGMEM_START + (64 - length')) % DataSpace
      BY <1>3, <2>4 DEF Home
    <3>5. QED
      BY <1>1, <2>7, <3>1, <3>2, <3>3, <3>4 DEF Filling
  <2>9. QED
    BY <1>3, <2>8 DEF Modes
<1>9. CASE Hungry
  <2> DEFINE l == Len(line)
  <2>1. /\ losses = 1 /\ replies = <<>> /\ length > 0
        /\ l <= length /\ (length - l) % 2 = 0 /\ host # "send"
    BY <1>1, <1>9 DEF Hungry
  <2>2. l \in Nat \ {0} /\ Len(line') = l - 1 /\ length' = length - 1
    BY <1>5, <1>7, <2>1
  <2> HIDE DEF l
  <2>3. length' - Len(line') = length - l /\ Len(line') <= length' /\ length' \in Nat
    BY <2>1, <2>2, <1>4
  <2>4. CASE length' = 0
    <3>1. Len(line') = 0
      BY <2>2, <2>3, <2>4
    <3>2. line' = <<>>
      BY <3>1, <1>5, NoneLeft
    <3>3. Hung'
      BY <1>1, <1>2, <1>4, <2>1, <2>4, <3>2, Halted
    <3>4. QED
      BY <1>3, <3>3 DEF Modes
  <2>5. CASE length' # 0
    <3>1. length' > 0 /\ (length' - Len(line')) % 2 = 0
      BY <2>1, <2>3, <2>5
    <3>2. Hungry'
      BY <1>1, <1>2, <2>1, <2>3, <2>5, <3>1 DEF Hungry
    <3>3. QED
      BY <1>3, <3>2 DEF Modes
  <2>6. QED
    BY <2>4, <2>5
<1>10. QED
  BY <1>6, <1>8, <1>9

LEMMA ReplyShape ==
    ASSUME NEW x, IsMessage(x)
    PROVE  /\ x.does = "load" => Len(x.reply) = 2
           /\ x.does = "prog" =>
                 Len(x.reply) = 2 /\ x.reply[1] = STK_INSYNC /\ x.reply[2] = STK_OK
           /\ x.does = "read" => Len(x.reply) = 66
           /\ x.does = "other" /\ x.bytes[1] = STK_READ_SIGN => Len(x.reply) = 5
           /\ x.does = "other" /\ x.bytes[1] \in {STK_GET_PARAMETER, STK_UNIVERSAL} =>
                 Len(x.reply) = 3
           /\ Len(x.reply) \in Nat /\ 2 <= Len(x.reply)
<1> DEFINE l == Len(x.reply)
           c == x.bytes[1]
           d == x.does
           Goal ==
              /\ d = "load" => l = 2
              /\ d = "prog" => l = 2 /\ x.reply[1] = STK_INSYNC /\ x.reply[2] = STK_OK
              /\ d = "read" => l = 66
              /\ d = "other" /\ c = STK_READ_SIGN => l = 5
              /\ d = "other" /\ c \in {STK_GET_PARAMETER, STK_UNIVERSAL} => l = 3
              /\ l \in Nat /\ 2 <= l
<1> HIDE DEF l, c, d
<1>1. CASE IsOther(x)
  <2>1. /\ d = "other"
        /\ \/ c \in {STK_GET_SYNC, STK_LEAVE_PROGMODE} /\ l = 2
           \/ c = STK_READ_SIGN /\ l = 5
           \/ c \in {STK_GET_PARAMETER, STK_UNIVERSAL} /\ l = 3
    BY <1>1, OtherShape DEF l, c, d
  <2>2. /\ STK_READ_SIGN \notin {STK_GET_SYNC, STK_LEAVE_PROGMODE, STK_GET_PARAMETER, STK_UNIVERSAL}
        /\ STK_GET_PARAMETER \notin {STK_GET_SYNC, STK_LEAVE_PROGMODE}
        /\ STK_UNIVERSAL \notin {STK_GET_SYNC, STK_LEAVE_PROGMODE}
    BY DEF STK_READ_SIGN, STK_GET_SYNC, STK_LEAVE_PROGMODE, STK_GET_PARAMETER, STK_UNIVERSAL
  <2>3. Goal
    BY <2>1, <2>2
  <2>4. QED
    BY <2>3 DEF l, c, d
<1>2. CASE \E p \in Pages : IsLoad(x, p)
  <2>1. d = "load" /\ l = 2
    BY <1>2, LoadShape DEF l, c, d
  <2>2. Goal
    BY <2>1
  <2>3. QED
    BY <2>2 DEF l, c, d
<1>3. CASE \E p \in Pages : IsProg(x, p)
  <2>1. d = "prog" /\ l = 2 /\ x.reply[1] = STK_INSYNC /\ x.reply[2] = STK_OK
    BY <1>3, ProgShape DEF l, c, d
  <2>2. Goal
    BY <2>1
  <2>3. QED
    BY <2>2 DEF l, c, d
<1>4. CASE \E p \in Pages : IsRead(x, p)
  <2>1. d = "read" /\ l = 66
    BY <1>4, ReadShape DEF l, c, d
  <2>2. Goal
    BY <2>1
  <2>3. QED
    BY <2>2 DEF l, c, d
<1>5. QED
  BY <1>1, <1>2, <1>3, <1>4 DEF IsMessage

(* The answer to a message is as long as the host expects it. *)
LEMMA AnswerFits ==
    ASSUME RealPages, CommandType, MemoryType, IsMessage(Current),
           ch = Current.bytes[1], Current.does # "prog", Current.does = "read" => length = 64
    PROVE  2 + Len(Answer) <= Len(Current.reply)
<1> DEFINE l == Len(Current.reply)
           d == Current.does
           a == Len(Answer)
<1>1. /\ d = "load" => l = 2
      /\ d = "read" => l = 66
      /\ d = "other" /\ ch = STK_READ_SIGN => l = 5
      /\ d = "other" /\ ch \in {STK_GET_PARAMETER, STK_UNIVERSAL} => l = 3
      /\ l \in Nat /\ 2 <= l
  BY ReplyShape
<1>2. d \in {"load", "read", "other"}
  BY DEF IsMessage, IsOther, IsLoad, IsProg, IsRead
<1>3. /\ d = "load" <=> ch = STK_LOAD_ADDRESS
      /\ d = "read" <=> ch = STK_READ_PAGE
  BY Shape
<1>4. d = "other" => ch \in {STK_GET_SYNC, STK_LEAVE_PROGMODE, STK_READ_SIGN,
                             STK_GET_PARAMETER, STK_UNIVERSAL}
  <2> SUFFICES ASSUME d = "other"
               PROVE  ch \in {STK_GET_SYNC, STK_LEAVE_PROGMODE, STK_READ_SIGN,
                              STK_GET_PARAMETER, STK_UNIVERSAL}
    OBVIOUS
  <2>1. IsOther(Current)
    BY DEF IsMessage, IsLoad, IsProg, IsRead
  <2>2. QED
    BY <2>1, OtherShape
<1>5. /\ ch \in {STK_GET_PARAMETER, STK_UNIVERSAL} => a = 1
      /\ ch = STK_READ_PAGE => a = Len(Memory)
      /\ ch = STK_READ_SIGN => a = 3
      /\ Arguments(ch) = 0 /\ ch # STK_READ_SIGN => a = 0
      /\ ch = STK_LOAD_ADDRESS => a = 0
      /\ a \in Nat
  BY AnswerIs
<1>6. d = "read" => Len(Memory) = 64
  BY MemoryIs
<1>7. \A c \in {STK_GET_SYNC, STK_LEAVE_PROGMODE} : Arguments(c) = 0 /\ c # STK_READ_SIGN
  <2>1. \A c \in {STK_GET_SYNC, STK_LEAVE_PROGMODE} : Arguments(c) = 0
    BY Commands
  <2>2. \A c \in {STK_GET_SYNC, STK_LEAVE_PROGMODE} : c # STK_READ_SIGN
    BY DEF STK_GET_SYNC, STK_LEAVE_PROGMODE, STK_READ_SIGN
  <2>3. QED
    BY <2>1, <2>2
<1> HIDE DEF l, d, a
<1>8. CASE d = "load"
  <2>1. a = 0 /\ l = 2
    BY <1>8, <1>1, <1>3, <1>5
  <2>2. QED
    BY <2>1 DEF a, l
<1>9. CASE d = "read"
  <2>1. a = 64 /\ l = 66
    BY <1>9, <1>1, <1>3, <1>5, <1>6
  <2>2. QED
    BY <2>1 DEF a, l
<1>10. CASE d = "other"
  <2>1. \/ ch \in {STK_GET_SYNC, STK_LEAVE_PROGMODE}
        \/ ch = STK_READ_SIGN
        \/ ch \in {STK_GET_PARAMETER, STK_UNIVERSAL}
    BY <1>4, <1>10
  <2>2. 2 + a <= l
    <3>1. CASE ch \in {STK_GET_SYNC, STK_LEAVE_PROGMODE}
      <4>1. a = 0
        BY <3>1, <1>5, <1>7
      <4>2. QED
        BY <4>1, <1>1
    <3>2. CASE ch = STK_READ_SIGN
      <4>1. a = 3 /\ l = 5
        BY <3>2, <1>1, <1>5, <1>10
      <4>2. QED
        BY <4>1
    <3>3. CASE ch \in {STK_GET_PARAMETER, STK_UNIVERSAL}
      <4>1. a = 1 /\ l = 3
        BY <3>3, <1>1, <1>5, <1>10
      <4>2. QED
        BY <4>1
    <3>4. QED
      BY <2>1, <3>1, <3>2, <3>3
  <2>3. QED
    BY <2>2 DEF a, l
<1>11. QED
  <2>1. 2 + a <= l
    BY <1>2, <1>8, <1>9, <1>10 DEF a, l
  <2>2. QED
    BY <2>1 DEF a, l

LEMMA VerifyKept ==
    ASSUME RealPages, TypeInv, Calm, CalmResets, Owed, FlashInv, Modes,
           VerifySpace, UNCHANGED <<hostVars, counts>>
    PROVE  CalmResets' /\ Owed' /\ FlashInv' /\ Modes'
<1> DEFINE b == Current.bytes
<1>0. CommandType /\ MemoryType /\ LineType /\ HostType
  BY Facts
<1>1. /\ pc = "verify" /\ line # <<>> /\ line' = Tail(line)
      /\ pc' = IF Head(line) # CRC_EOP THEN "spin"
                ELSE IF ch = STK_PROG_PAGE THEN "write" ELSE "command"
      /\ Head(line) # CRC_EOP => replies' = replies
      /\ Head(line) = CRC_EOP /\ ch = STK_PROG_PAGE =>
            replies' = Append(replies, STK_INSYNC)
      /\ Head(line) = CRC_EOP /\ ch # STK_PROG_PAGE =>
            Len(replies') = Len(replies) + 2 + Len(Answer)
      /\ ch # STK_READ_PAGE \/ Head(line) # CRC_EOP => address' = address
      /\ UNCHANGED <<ch, args, buffer, flash, stray, rstfr>>
  BY <1>0, VerifyStep
<1>2. UNCHANGED <<host, message, expected, written, losses, garbles>>
  BY DEF hostVars, counts
<1>3. Current' = Current /\ Clean' = Clean /\ CalmResets'
  <2>1. Current' = Current
    BY <1>2, Same
  <2>2. QED
    BY <1>1, <2>1 DEF CalmResets, Clean
<1>4. /\ line \in Seq(Octets) /\ losses \in Nat /\ losses <= 1
      /\ garbles \in Nat /\ losses + garbles <= 1 /\ IsMessage(Current)
      /\ b \in Seq(Octets) /\ length \in 0..255 /\ replies \in Seq(Octets)
  BY Facts
<1>5. /\ Head(line) = line[1] /\ Head(line) \in Octets /\ line' \in Seq(Octets)
      /\ Len(line) \in Nat \ {0} /\ Len(line') = Len(line) - 1
      /\ \A i \in 1..Len(line) - 1 : line'[i] = line[i + 1]
  BY <1>1, <1>4, TailIs
<1>6. Filling \/ End \/ Slip \/ Hung
  BY <1>1 DEF Modes, Off, Fresh, Rested, Begun, Arg, Writing, NoCommand,
              ShortArgs, ShortProg, Hungry, Spare
<1>7. ASSUME Head(line) # CRC_EOP PROVE Owed' /\ FlashInv' /\ Modes'
  <2>1. Owed' /\ FlashInv'
    BY <1>1, <1>2, <1>7, Still
  <2>2. pc' = "spin"
    BY <1>1, <1>7
  <2>3. QED
    BY <2>1, <2>2 DEF Modes, Off
<1>8. ASSUME Asked, ~Does("prog"), Len(replies') <= Len(Current.reply)
      PROVE  Owed' /\ FlashInv'
  <2>1. host' = "wait" /\ expected' = Current.reply /\ ~Does("prog")'
    BY <1>2, <1>3, <1>8 DEF Asked, Does
  <2>2. Owed'
    BY <2>1, <1>8 DEF Owed
  <2>3. FlashInv'
    BY <2>1, <1>1, <1>2 DEF FlashInv
  <2>4. QED
    BY <2>2, <2>3
<1> HIDE DEF b
<1>9. CASE Filling /\ Head(line) = CRC_EOP
  <2>1. /\ Asked /\ Does("prog") /\ ch = STK_PROG_PAGE /\ length = 0
        /\ address = (Home + MAPPED_PROGMEM_START + 64) % DataSpace
        /\ Len(line) = 1
        /\ garbles = 0 => \A i \in 0..63 : buffer[i] = Image[Current.page][i]
    <3>1. length = 0
      BY <1>1, <1>9 DEF Filling
    <3>2. 64 - 0 = 64 /\ 0 + 1 = 1 /\ \A i \in 0..63 : i < 64 - 0
      OBVIOUS
    <3>3. QED
      BY <3>1, <3>2, <1>9 DEF Filling, Filled
  <2>4. line' = <<>> /\ pc' = "write" /\ replies' = Append(<<>>, STK_INSYNC)
    BY <1>1, <1>4, <1>5, <1>9, <2>1, OneLeft DEF Asked
  <2>5. Len(replies') = 1 /\ replies'[1] = STK_INSYNC
    BY <2>4
  <2>6. /\ Len(expected) = 2 /\ host = "wait" /\ expected = Current.reply
    BY <2>1, <1>4, ReplyShape DEF Asked, Does
  <2>7. Owed'
    <3>1. /\ Len(expected) <= 2 /\ expected[Len(expected)] = STK_OK
          /\ Len(expected) = 2 => expected[1] = STK_INSYNC
      BY <2>1, <2>6 DEF Owed
    <3>2. Len(replies') <= Len(expected)
      BY <2>5, <2>6
    <3>3. QED
      BY <3>1, <3>2, <2>6, <1>2, <1>3 DEF Owed
  <2>8. FlashInv'
    <3>1. STK_INSYNC # STK_OK
      BY DEF STK_INSYNC, STK_OK
    <3>2. \A i \in 1..Len(replies') : replies'[i] # STK_OK
      BY <3>1, <2>5
    <3>3. QED
      BY <3>2, <1>1, <1>2 DEF FlashInv
  <2>9. ASSUME garbles = 0 PROVE buffer = Image[Current.page]
    <3>1. buffer \in [0..63 -> Octets]
      BY <1>0 DEF MemoryType, PageData
    <3>2. Current.page \in Pages
      BY <2>1, Facts DEF Does
    <3>3. Image[Current.page] \in [0..63 -> Octets]
      <4>1. PageSize - 1 = 63
        BY DEF RealPages
      <4>2. QED
        BY <3>2, <4>1, ImageAssumption DEF Octets
    <3>4. QED
      BY <3>1, <3>3, <2>1, <2>9
  <2>10. Writing'
    <3>1. Len(replies') < Len(expected')
      BY <2>5, <2>6, <1>2
    <3>2. address' = (Home + MAPPED_PROGMEM_START + 64) % DataSpace
      <4>1. STK_PROG_PAGE # STK_READ_PAGE
        BY DEF STK_PROG_PAGE, STK_READ_PAGE
      <4>2. QED
        BY <4>1, <1>1, <2>1
    <3>3. QED
      BY <3>1, <3>2, <1>1, <1>2, <1>3, <2>1, <2>4, <2>5, <2>6, <2>9 DEF Writing, Does, Home
  <2>11. QED
    BY <1>3, <2>7, <2>8, <2>10 DEF Modes
<1>10. CASE End
  <2>1. /\ Asked /\ Clean /\ ~Does("prog") /\ ch = b[1]
        /\ Len(line) = 1 /\ line[1] = CRC_EOP
        /\ Does("load") => address = Home
        /\ Does("read") => length = 64
    BY <1>10 DEF End, b
  <2>2. ch # STK_PROG_PAGE /\ (Does("load") => ch # STK_READ_PAGE)
    <3>1. STK_LOAD_ADDRESS # STK_READ_PAGE
      BY DEF STK_LOAD_ADDRESS, STK_READ_PAGE
    <3>2. QED
      BY <3>1, <2>1, <1>4, Shape DEF Does, b
  <2>3. line' = <<>> /\ pc' = "command" /\ Len(replies') = Len(replies) + 2 + Len(Answer)
    BY <1>1, <1>4, <1>5, <2>1, <2>2, OneLeft
  <2>4. Len(replies') <= Len(Current.reply)
    <3>1. 2 + Len(Answer) <= Len(Current.reply)
      BY <1>0, <1>4, <2>1, AnswerFits DEF Does, b
    <3>2. Len(replies) = 0
      BY <2>1, Empty DEF Asked
    <3>3. Len(Answer) \in Nat
      BY <1>0, AnswerIs
    <3> DEFINE a == Len(Answer)
               r == Len(replies')
               l == Len(Current.reply)
    <3>4. r = 0 + 2 + a /\ 2 + a <= l /\ a \in Nat
      BY <2>3, <3>1, <3>2, <3>3
    <3> HIDE DEF a, r, l
    <3>5. r <= l
      BY <3>4
    <3>6. QED
      BY <3>5 DEF r, l
  <2>5. Owed' /\ FlashInv'
    BY <1>8, <2>1, <2>4
  <2>6. Rested'
    BY <1>1, <1>2, <1>3, <2>1, <2>2, <2>3 DEF Rested, Asked, Does, Placed, Home
  <2>7. QED
    BY <1>3, <2>5, <2>6 DEF Modes
<1>11. CASE Slip
  <2>1. CASE Head(line) # CRC_EOP
    BY <1>3, <1>7, <2>1
  <2>2. CASE Head(line) = CRC_EOP
    <3>1. /\ Asked /\ Clean /\ losses = 1 /\ Arguments(ch) = 0 /\ ch # STK_READ_SIGN
          /\ \/ Does("other") /\ Len(line) = 1
             \/ Does("load") /\ Len(line) = 2 /\ line[2] = CRC_EOP
      BY <1>11 DEF Slip
    <3>2. ch # STK_PROG_PAGE /\ ~Does("prog")
      BY <3>1, Commands DEF Does
    <3>3. pc' = "command" /\ Len(replies') = Len(replies) + 2 + Len(Answer)
      BY <1>1, <2>2, <3>2
    <3>4. Len(replies') <= Len(Current.reply)
      <4>1. Len(Answer) = 0
        BY <1>0, <3>1, AnswerIs
      <4>2. Len(replies) = 0
        BY <3>1, Empty DEF Asked
      <4>3. Len(replies') = 2
        BY <3>3, <4>1, <4>2
      <4>4. 2 <= Len(Current.reply)
        BY <1>4, ReplyShape
      <4>5. QED
        BY <4>3, <4>4
    <3>5. Owed' /\ FlashInv'
      BY <1>8, <3>1, <3>2, <3>4
    <3>6. CASE Does("other") /\ Len(line) = 1
      <4>1. line' = <<>>
        BY <1>1, <1>4, <3>6, OneLeft
      <4>2. Rested'
        BY <1>2, <1>3, <3>1, <3>3, <3>6, <4>1 DEF Rested, Asked, Does
      <4>3. QED
        BY <1>3, <3>5, <4>2 DEF Modes
    <3>7. CASE Does("load") /\ Len(line) = 2 /\ line[2] = CRC_EOP
      <4>1. Len(line') = 1 /\ line'[1] = CRC_EOP
        <5>1. 1 \in 1..Len(line) - 1 /\ 1 + 1 = 2
          BY <3>7
        <5>2. line'[1] = line[1 + 1]
          BY <5>1, <1>5
        <5>3. Len(line') = 2 - 1
          BY <3>7, <1>5
        <5>4. QED
          BY <5>1, <5>2, <5>3, <3>7
      <4>2. line' # <<>>
        BY <4>1, Empty
      <4>3. Spare'
        BY <1>2, <3>1, <3>3, <4>1, <4>2 DEF Spare
      <4>4. QED
        BY <1>3, <3>5, <4>3 DEF Modes
    <3>8. QED
      BY <3>1, <3>6, <3>7
  <2>3. QED
    BY <2>1, <2>2
<1>12. CASE Hung
  <2>1. Head(line) # CRC_EOP
    BY <1>1, <1>5, <1>12 DEF Hung
  <2>2. QED
    BY <1>3, <1>7, <2>1
<1>13. QED
  <2>1. Head(line) # CRC_EOP => CalmResets' /\ Owed' /\ FlashInv' /\ Modes'
    BY <1>3, <1>7
  <2>2. QED
    BY <2>1, <1>6, <1>9, <1>10, <1>11, <1>12

LEMMA WriteKept ==
    ASSUME RealPages, TypeInv, Calm, CalmResets, Owed, FlashInv, Modes,
           WritePage, UNCHANGED <<hostVars, counts>>
    PROVE  CalmResets' /\ Owed' /\ FlashInv' /\ Modes'
<1>1. UNCHANGED <<host, message, expected, written, losses, garbles>>
  BY DEF hostVars, counts
<1>2. /\ pc = "write" /\ pc' = "command" /\ buffer' = EmptyBuffer
      /\ replies' = Append(replies, STK_OK)
      /\ UNCHANGED <<ch, args, address, length, rstfr, line>>
  BY DEF WritePage, resets
<1>3. Current' = Current /\ CalmResets'
  BY <1>1, <1>2, Same DEF CalmResets
<1>4. Writing
  BY <1>2 DEF Modes, Off, Fresh, Rested, Begun, Arg, Filling, End, NoCommand, Slip,
              ShortArgs, ShortProg, Hungry, Hung, Spare
<1>5. /\ Does("prog") /\ host \in {"wait", "idle"} /\ line = <<>>
      /\ garbles = 0 => buffer = Image[Current.page]
      /\ address = (Home + MAPPED_PROGMEM_START + 64) % DataSpace
      /\ host = "wait" => Len(replies) < Len(expected)
  BY <1>4 DEF Writing
<1>6. /\ replies \in Seq(Octets) /\ Current.page \in Pages /\ Current.page \in 0..511
      /\ Len(replies) \in Nat /\ Len(expected) \in Nat /\ MemoryType
  BY <1>5, Facts DEF RealPages, Does
<1>7. LastPage = Current.page
  <2> DEFINE p == Current.page
  <2>1. /\ p \in 0..511
        /\ LastPage =
             PageOf((((64 * p + MAPPED_PROGMEM_START + 64) % DataSpace) - 1) % DataSpace)
    BY <1>5, <1>6 DEF LastPage, Home
  <2> HIDE DEF p
  <2>2. LastPage = p
    BY <2>1, LastOf
  <2>3. QED
    BY <2>2 DEF p
<1>8. flash' = [flash EXCEPT ![Current.page] = buffer] /\ stray' = stray
  BY <1>6, <1>7 DEF WritePage
<1>9. Len(replies') = Len(replies) + 1
  <2>1. STK_OK \in Octets
    BY DEF STK_OK, Octets
  <2>2. QED
    BY <2>1, <1>2, <1>6, Appended
<1>10. Owed'
  <2>1. ASSUME host = "wait" PROVE Len(replies') <= Len(expected)
    <3> DEFINE r == Len(replies)
               e == Len(expected)
               n == Len(replies')
    <3>1. r \in Nat /\ e \in Nat /\ r < e /\ n = r + 1
      BY <2>1, <1>5, <1>6, <1>9
    <3> HIDE DEF r, e, n
    <3>2. n <= e
      BY <3>1
    <3>3. QED
      BY <3>2 DEF n, e
  <2>2. QED
    BY <2>1, <1>1, <1>3, <1>5 DEF Owed, Does
<1>11. ASSUME garbles = 0 PROVE FlashInv'
  <2>1. flash \in [Pages -> PageData] /\ buffer = Image[Current.page]
    BY <1>5, <1>6, <1>11 DEF MemoryType
  <2>2. /\ flash'[Current.page] = Image[Current.page]
        /\ \A p \in Pages : p # Current.page => flash'[p] = flash[p]
    BY <2>1, <1>6, <1>8
  <2>3. \A p \in Pages : flash[p] \in {Old[p], Image[p]}
    BY <1>11 DEF FlashInv
  <2>4. \A p \in Pages : flash'[p] \in {Old[p], Image[p]}
    BY <2>2, <2>3
  <2>5. \A p \in written : flash'[p] = Image[p]
    <3>1. written \subseteq Pages
      BY Facts DEF HostType
    <3>2. QED
      BY <3>1, <2>2, <1>11 DEF FlashInv
  <2>6. QED
    BY <2>2, <2>4, <2>5, <1>1, <1>3, <1>8 DEF FlashInv
<1>12. FlashInv'
  <2>1. garbles # 0 => FlashInv'
    BY <1>1, <1>8 DEF FlashInv
  <2>2. garbles = 0 => FlashInv'
    BY <1>11
  <2>3. QED
    BY <2>1, <2>2
<1>13. Rested'
  <2>1. ~Does("load")'
    BY <1>3, <1>5 DEF Does
  <2>2. QED
    BY <2>1, <1>1, <1>2, <1>5 DEF Rested, Clean, EmptyBuffer
<1>14. QED
  BY <1>3, <1>10, <1>12, <1>13 DEF Modes

(* The reset, and what follows. *)
LEMMA RestartKept ==
    ASSUME RealPages, TypeInv, Calm, CalmResets, Owed, FlashInv, Modes,
           Start \/ Watchdog \/ Unread, UNCHANGED <<hostVars, counts>>
    PROVE  CalmResets' /\ Owed' /\ FlashInv' /\ Modes'
<1> DEFINE b == Current.bytes
<1>1. UNCHANGED <<host, message, expected, written, losses, garbles>>
  BY DEF hostVars, counts
<1>2. Current' = Current
  BY <1>1, Same
<1>3. ASSUME UNCHANGED <<flash, stray, replies>> PROVE Owed' /\ FlashInv'
  BY <1>1, <1>3, Still
<1>4. CASE SoftwareReset
  BY <1>4 DEF SoftwareReset, CalmResets
<1>5. CASE StartApp
  <2>1. pc' = "app" /\ rstfr' = {} /\ UNCHANGED <<flash, stray, replies>>
    BY <1>5 DEF StartApp, FlagsCleared, memory
  <2>2. QED
    BY <2>1, <1>3 DEF CalmResets, Modes, Off
<1>6. CASE Watchdog
  <2>1. pc' = "start" /\ rstfr' = rstfr \cup {"WDT"} /\ UNCHANGED <<flash, stray, replies>>
    BY <1>6 DEF Watchdog, Restart, memory
  <2>2. QED
    BY <2>1, <1>3 DEF CalmResets, Modes, Off
<1>7. CASE Unread
  <2>1. pc' \in {"app", "spin"} /\ UNCHANGED <<flash, stray, replies, rstfr>>
    BY <1>7 DEF Unread, command, memory, resets
  <2>2. QED
    BY <2>1, <1>3 DEF CalmResets, Modes, Off
<1>8. CASE StartLoop
  <2>1. /\ pc = "start" /\ "WDT" \notin rstfr /\ pc' = "command"
        /\ \E missed \in 0..Len(line) : line' = SubSeq(line, missed + 1, Len(line))
        /\ UNCHANGED <<ch, args, address, length, buffer, flash, stray, rstfr, replies>>
    BY <1>8 DEF StartLoop, ToApp, memory, resets
  <2>2. Owed' /\ FlashInv' /\ CalmResets'
    BY <2>1, <1>3 DEF CalmResets
  <2>3. Fresh
    BY <2>1 DEF Modes, Off, Rested, Begun, Arg, Filling, End, Writing, NoCommand, Slip,
                ShortArgs, ShortProg, Hungry, Hung, Spare
  <2>4. /\ Clean /\ message = 1 /\ replies = <<>>
        /\ \/ host = "send" /\ line = <<>>
           \/ Asked /\ line = b
           \/ Asked /\ After(line, b, 1) /\ losses = 1
    BY <2>3 DEF Fresh
  <2>5. /\ Does("other") /\ Len(b) = 2
        /\ b \in Seq(Octets) /\ line \in Seq(Octets) /\ b # <<>>
    BY <2>4, First, Facts DEF Does
  <2>6. ~Does("load")' /\ ~Placed' /\ Clean' /\ Asked' = Asked
    BY <2>1, <2>4, <2>5, <1>1, <1>2 DEF Does, Placed, Clean, Asked
  <2>7. ASSUME line' = <<>> PROVE Modes'
    <3>1. Rested'
      BY <2>1, <2>6, <2>7 DEF Rested
    <3>2. QED
      BY <3>1 DEF Modes
  <2>8. ASSUME Asked, After(line', b, 1) PROVE Modes'
    <3>1. NoCommand'
      BY <2>1, <2>4, <2>6, <2>8, <1>1, <1>2 DEF NoCommand
    <3>2. QED
      BY <3>1 DEF Modes
  <2>9. PICK missed \in 0..Len(line) : line' = SubSeq(line, missed + 1, Len(line))
    BY <2>1
  <2>10. CASE host = "send" /\ line = <<>>
    <3>1. \A m \in 0..0 : SubSeq(<<>>, m + 1, 0) = <<>>
      OBVIOUS
    <3>2. line' = <<>>
      BY <2>9, <2>10, <3>1, Empty
    <3>3. QED
      BY <2>2, <2>7, <3>2
  <2>11. CASE Asked /\ line = b
    <3>1. missed = 0 \/ missed = 1 \/ missed = 2
      <4>1. Len(line) = 2
        BY <2>5, <2>11
      <4>2. missed \in 0..2
        BY <4>1
      <4>3. QED
        BY <4>2
    <3>2. CASE missed = 0
      <4>1. SubSeq(line, 0 + 1, Len(line)) = line
        BY <2>5
      <4>2. line' = line
        BY <2>9, <3>2, <4>1
      <4>3. Begun'
        BY <2>1, <2>6, <2>11, <4>2, <1>2 DEF Begun
      <4>4. QED
        BY <2>2, <4>3 DEF Modes
    <3>3. CASE missed = 1
      <4>1. SubSeq(line, 1 + 1, Len(line)) = Tail(line)
        BY <2>5, <2>11
      <4>2. line' = Tail(line)
        BY <2>9, <3>3, <4>1
      <4>3. After(line', b, 1)
        <5>1. After(line, b, 0) /\ 0 + 1 = 1
          BY <2>5, <2>11, AfterNone
        <5>2. After(Tail(line), b, 0 + 1)
          BY <5>1, <2>5, <2>11, AfterTail
        <5>3. QED
          BY <5>1, <5>2, <4>2
      <4>4. QED
        BY <2>2, <2>8, <2>11, <4>3
    <3>4. CASE missed = 2
      <4>1. Len(line) = 2
        BY <2>5, <2>11
      <4>2. SubSeq(line, 2 + 1, 2) = <<>>
        BY <2>5
      <4>3. line' = <<>>
        BY <2>9, <3>4, <4>1, <4>2
      <4>4. QED
        BY <2>2, <2>7, <4>3
    <3>5. QED
      BY <3>1, <3>2, <3>3, <3>4
  <2>12. CASE Asked /\ After(line, b, 1)
    <3>1. Len(line) = 1
      <4>1. Len(line) = 2 - 1
        BY <2>5, <2>12 DEF After
      <4>2. QED
        BY <4>1
    <3>2. missed = 0 \/ missed = 1
      BY <2>9, <3>1
    <3>3. CASE missed = 0
      <4>1. SubSeq(line, 0 + 1, Len(line)) = line
        BY <2>5
      <4>2. line' = line
        BY <2>9, <3>3, <4>1
      <4>3. QED
        BY <2>2, <2>8, <2>12, <4>2
    <3>4. CASE missed = 1
      <4>1. SubSeq(line, 1 + 1, 1) = <<>>
        BY <2>5
      <4>2. line' = <<>>
        BY <2>9, <3>1, <3>4, <4>1
      <4>3. QED
        BY <2>2, <2>7, <4>2
    <3>5. QED
      BY <3>2, <3>3, <3>4
  <2>13. QED
    BY <2>4, <2>10, <2>11, <2>12
<1>9. QED
  BY <1>4, <1>5, <1>6, <1>7, <1>8 DEF Start

----------------------------------------------------------------------------
(* The host's steps keep it, and the line's *)

LEMMA Joined ==
    ASSUME NEW s \in Seq(Octets), NEW t \in Seq(Octets)
    PROVE  /\ s \o t \in Seq(Octets) /\ Len(s \o t) = Len(s) + Len(t)
           /\ s = <<>> => s \o t = t
           /\ s # <<>> => s \o t # <<>> /\ (s \o t)[1] = s[1]
           /\ Len(s) = 1 => Tail(s \o t) = t
<1> DEFINE u == s \o t
<1>1. /\ u \in Seq(Octets) /\ Len(u) = Len(s) + Len(t)
      /\ \A i \in 1..Len(s) + Len(t) : u[i] = IF i <= Len(s) THEN s[i] ELSE t[i - Len(s)]
  BY ConcatProperties
<1>2. s = <<>> => u = t
  BY ConcatEmptySeq
<1>3. Len(s) \in Nat /\ Len(t) \in Nat
  OBVIOUS
<1> HIDE DEF u
<1>4. ASSUME s # <<>> PROVE u # <<>> /\ u[1] = s[1]
  <2>1. Len(s) # 0
    BY <1>4, NoneLeft
  <2>2. 1 \in 1..Len(s) + Len(t) /\ 1 <= Len(s) /\ Len(u) # 0
    BY <2>1, <1>1, <1>3
  <2>3. QED
    BY <2>2, <1>1, Empty
<1>5. ASSUME Len(s) = 1 PROVE Tail(u) = t
  <2>1. Len(u) = Len(t) + 1 /\ u # <<>>
    <3>1. Len(u) = Len(t) + 1 /\ Len(u) # 0
      BY <1>1, <1>3, <1>5
    <3>2. QED
      BY <3>1, Empty
  <2>2. /\ Tail(u) \in Seq(Octets) /\ Len(Tail(u)) = Len(t)
        /\ \A i \in 1..Len(t) : Tail(u)[i] = u[i + 1]
    <3>1. u \in Seq(Octets)
      BY <1>1
    <3>2. /\ Tail(u) \in Seq(Octets) /\ Len(Tail(u)) = Len(u) - 1
          /\ \A i \in 1..Len(u) - 1 : Tail(u)[i] = u[i + 1]
      BY <2>1, <3>1, TailIs
    <3>3. Len(u) - 1 = Len(t)
      BY <2>1, <1>3
    <3>4. QED
      BY <3>2, <3>3
  <2>3. ASSUME NEW i \in 1..Len(t) PROVE Tail(u)[i] = t[i]
    <3>1. i + 1 \in 1..Len(s) + Len(t) /\ ~(i + 1 <= Len(s)) /\ (i + 1) - Len(s) = i
      BY <1>3, <1>5
    <3>2. u[i + 1] = t[(i + 1) - Len(s)]
      BY <3>1, <1>1
    <3>3. QED
      BY <3>1, <3>2, <2>2
  <2>4. QED
    BY <2>2, <2>3, SeqEqual
<1>6. QED
  BY <1>1, <1>2, <1>4, <1>5 DEF u

LEMMA FirstOther == RealPages => Session[1].does = "other"
  BY SessionIs, OthersAre DEF IsOther

LEMMA BeginKept ==
    ASSUME RealPages, TypeInv, Calm, CalmResets, Owed, FlashInv, Modes, Begin
    PROVE  CalmResets' /\ Owed' /\ FlashInv' /\ Modes'
<1>1. /\ host = "idle" /\ line = <<>> /\ replies = <<>> /\ pc \notin {"start", "write"}
      /\ host' = "send" /\ message' = 1 /\ written' = {}
      /\ Restart("EXT") \/ UNCHANGED boot
      /\ UNCHANGED <<expected, losses, garbles>>
  BY DEF Begin, Quiet, counts
<1>2. ~Does("prog")' /\ ~Does("load")' /\ ~Placed'
  BY <1>1, FirstOther DEF Does, Placed, Current
<1>3. garbles = 0 => \A p \in Pages : flash[p] \in {Old[p], Image[p]}
  BY DEF FlashInv
<1>4. CASE Restart("EXT")
  <2>1. /\ pc' = "start" /\ rstfr' = rstfr \cup {"EXT"} /\ buffer' = EmptyBuffer
        /\ line' = <<>> /\ UNCHANGED <<flash, stray, replies>>
    BY <1>4 DEF Restart, memory
  <2>2. Owed' /\ FlashInv'
    BY <1>1, <1>2, <2>1 DEF Owed, FlashInv
  <2>3. CalmResets'
    BY <2>1 DEF CalmResets
  <2>4. CASE "WDT" \in rstfr
    BY <2>1, <2>2, <2>3, <2>4 DEF Modes, Off
  <2>5. CASE "WDT" \notin rstfr
    <3>1. rstfr' = {"EXT"}
      BY <2>1, <2>5 DEF CalmResets
    <3>2. Fresh'
      BY <1>1, <2>1, <3>1 DEF Fresh, Clean, EmptyBuffer
    <3>3. QED
      BY <2>2, <2>3, <3>2 DEF Modes
  <2>6. QED
    BY <2>4, <2>5
<1>5. CASE UNCHANGED boot
  <2>1. /\ UNCHANGED <<pc, ch, args, address, length, buffer, flash, stray, rstfr>>
        /\ UNCHANGED <<line, replies>>
    BY <1>5 DEF boot, command, memory, resets
  <2>2. Owed' /\ FlashInv'
    BY <1>1, <1>2, <2>1 DEF Owed, FlashInv
  <2>3. CalmResets' /\ Clean' = Clean
    BY <2>1 DEF CalmResets, Clean
  <2>4. Off \/ Rested \/ Hungry \/ Hung
    <3>1. ~Asked
      BY <1>1 DEF Asked
    <3>2. QED
      BY <1>1, <3>1 DEF Modes, Fresh, Begun, Arg, Filling, End, Writing, NoCommand, Slip,
                        ShortArgs, ShortProg, Spare
  <2>5. CASE Off
    <3>1. Off'
      BY <2>1, <2>5 DEF Off
    <3>2. QED
      BY <2>2, <2>3, <3>1 DEF Modes
  <2>6. CASE Rested
    <3>1. Rested'
      BY <2>1, <2>3, <2>6, <1>1, <1>2 DEF Rested
    <3>2. QED
      BY <2>2, <2>3, <3>1 DEF Modes
  <2>7. CASE Hungry
    <3>1. Hungry'
      BY <2>1, <2>7, <1>1 DEF Hungry
    <3>2. QED
      BY <2>2, <2>3, <3>1 DEF Modes
  <2>8. CASE Hung
    <3>1. losses + garbles = 0 => ch = CRC_EOP /\ Clean
      BY <2>8 DEF Hung
    <3>2. pc = "verify"
      BY <2>8 DEF Hung
    <3>3. Hung'
      BY <2>1, <2>3, <3>1, <3>2, <1>1 DEF Hung
    <3>4. QED
      BY <2>2, <2>3, <3>3 DEF Modes
  <2>9. QED
    BY <2>4, <2>5, <2>6, <2>7, <2>8
<1>6. QED
  BY <1>1, <1>4, <1>5

LEMMA SendKept ==
    ASSUME RealPages, TypeInv, Calm, CalmResets, Owed, FlashInv, Modes, Send
    PROVE  CalmResets' /\ Owed' /\ FlashInv' /\ Modes'
<1> DEFINE b == Current.bytes
<1>1. /\ host = "send" /\ host' = "wait"
      /\ line' = line \o b /\ expected' = Current.reply
      /\ UNCHANGED <<pc, ch, args, address, length, buffer, flash, stray, rstfr, replies>>
      /\ UNCHANGED <<message, written, losses, garbles>>
  BY DEF Send, command, memory, resets, counts
<1>2. replies = <<>> /\ replies' = <<>>
  BY <1>1 DEF Owed
<1>3. Current' = Current /\ Clean' = Clean /\ CalmResets' /\ Asked'
  <2>1. Current' = Current
    BY <1>1, Same
  <2>2. QED
    BY <1>1, <1>2, <2>1 DEF Clean, CalmResets, Asked
<1>4. /\ line \in Seq(Octets) /\ losses \in Nat /\ losses <= 1
      /\ garbles \in Nat /\ losses + garbles <= 1 /\ IsMessage(Current)
      /\ b \in Seq(Octets) /\ b # <<>> /\ length \in 0..255 /\ HostType
  BY Facts
<1>5. b[1] # CRC_EOP
  BY <1>4, Shape
<1>6. Owed'
  <2>1. Len(replies') <= Len(expected')
    <3>1. Len(replies') = 0 /\ 2 <= Len(Current.reply) /\ Len(Current.reply) \in Nat
      BY <1>2, <1>4, Empty, ReplyShape
    <3> DEFINE l == Len(Current.reply)
    <3> HIDE DEF l
    <3>2. 0 <= l
      BY <3>1 DEF l
    <3>3. QED
      BY <3>1, <3>2, <1>1 DEF l
  <2>2. Does("prog")' => /\ Len(expected') <= 2 /\ expected'[Len(expected')] = STK_OK
                         /\ Len(expected') = 2 => expected'[1] = STK_INSYNC
    <3> SUFFICES ASSUME Does("prog")'
                 PROVE  /\ Len(expected') <= 2 /\ expected'[Len(expected')] = STK_OK
                        /\ Len(expected') = 2 => expected'[1] = STK_INSYNC
      OBVIOUS
    <3>1. Len(expected') = 2 /\ expected'[1] = STK_INSYNC /\ expected'[2] = STK_OK
      BY <1>1, <1>3, <1>4, ReplyShape DEF Does
    <3>2. QED
      BY <3>1
  <2>3. QED
    BY <2>1, <2>2, <1>1 DEF Owed
<1>7. FlashInv'
  <2>1. ~(\E i \in 1..Len(replies') : replies'[i] = STK_OK)
    <3>1. Len(replies') = 0
      BY <1>2, Empty
    <3>2. QED
      BY <3>1
  <2>2. QED
    BY <2>1, <1>1 DEF FlashInv
<1>8. /\ line' \in Seq(Octets) /\ Len(line') = Len(line) + Len(b)
      /\ line = <<>> => line' = b
      /\ line # <<>> => line' # <<>> /\ line'[1] = line[1]
      /\ Len(line) = 1 => Tail(line') = b
  <2> HIDE DEF b
  <2>1. QED
    BY <1>1, <1>4, Joined
<1>9. Off \/ Fresh \/ Rested \/ Hungry \/ Hung \/ Spare
  <2>1. ~Asked
    BY <1>1 DEF Asked
  <2>2. QED
    BY <1>1, <2>1 DEF Modes, Begun, Arg, Filling, End, Writing, NoCommand, Slip,
                      ShortArgs, ShortProg
<1> HIDE DEF b
<1>10. CASE Off
  <2>1. Off'
    BY <1>1, <1>10 DEF Off
  <2>2. QED
    BY <1>3, <1>6, <1>7, <2>1 DEF Modes
<1>11. CASE Fresh
  <2>1. line = <<>>
    BY <1>1, <1>11 DEF Fresh, Asked
  <2>2. Fresh'
    BY <1>1, <1>2, <1>3, <1>8, <1>11, <2>1 DEF Fresh, b
  <2>3. QED
    BY <1>3, <1>6, <1>7, <2>2 DEF Modes
<1>12. CASE Rested
  <2>1. pc = "command" /\ line = <<>> /\ Clean /\ (Placed => address = Home)
    BY <1>1, <1>12 DEF Rested
  <2>2. Begun'
    BY <1>1, <1>3, <1>8, <2>1 DEF Begun, Does, Placed, Home, b
  <2>3. QED
    BY <1>3, <1>6, <1>7, <2>2 DEF Modes
<1>13. CASE Hungry
  <2>1. /\ pc = "data" /\ losses = 1 /\ message = 1 /\ line = <<>>
        /\ length > 0 /\ (length - Len(line)) % 2 = 0
    BY <1>1, <1>13 DEF Hungry
  <2>2. Len(line) = 0
    BY <2>1, Empty
  <2>3. Len(line') = 2
    <3>1. line' = b
      BY <2>1, <1>8
    <3>2. QED
      BY <3>1, <2>1, <1>4, First DEF b
  <2>4. 2 <= length /\ (length - 2) % 2 = 0
    <3> DEFINE n == length
    <3>1. n \in 0..255 /\ n > 0 /\ (n - 0) % 2 = 0
      BY <2>1, <2>2, <1>4
    <3> HIDE DEF n
    <3>2. 2 <= n /\ (n - 2) % 2 = 0
      BY <3>1
    <3>3. QED
      BY <3>2 DEF n
  <2>5. Hungry'
    BY <1>1, <1>2, <2>1, <2>3, <2>4 DEF Hungry
  <2>6. QED
    BY <1>3, <1>6, <1>7, <2>5 DEF Modes
<1>14. CASE Hung
  <2>1. /\ pc = "verify" /\ (line = <<>> \/ line[1] # CRC_EOP)
        /\ losses + garbles = 0 => ch = CRC_EOP /\ Clean /\ message = 1 /\ line = <<>>
    BY <1>1, <1>14 DEF Hung, Asked
  <2>2. line'[1] # CRC_EOP
    BY <1>5, <1>8, <2>1 DEF b
  <2>3. losses' + garbles' = 0 =>
           /\ ch' = CRC_EOP /\ Clean' /\ message' = 1 /\ replies' = <<>>
           /\ Asked' /\ line' = Current'.bytes
    BY <1>1, <1>2, <1>3, <1>8, <2>1 DEF b
  <2>4. Hung'
    BY <1>1, <2>1, <2>2, <2>3 DEF Hung
  <2>5. QED
    BY <1>3, <1>6, <1>7, <2>4 DEF Modes
<1>15. CASE Spare
  <2>1. pc = "command" /\ losses = 1 /\ line # <<>> /\ line[1] = CRC_EOP /\ Len(line) = 1
    BY <1>1, <1>15 DEF Spare, Asked
  <2>2. Spare'
    BY <1>1, <1>3, <1>8, <2>1 DEF Spare, b
  <2>3. QED
    BY <1>3, <1>6, <1>7, <2>2 DEF Modes
<1>16. QED
  BY <1>9, <1>10, <1>11, <1>12, <1>13, <1>14, <1>15

LEMMA NoBlank == RealPages /\ HostType => Current.bytes # <<>> /\ Len(Current.bytes) >= 2
<1> SUFFICES ASSUME RealPages, HostType
             PROVE  Current.bytes # <<>> /\ Len(Current.bytes) >= 2
  OBVIOUS
<1>1. Current.bytes \in Seq(Octets) /\ Len(Current.bytes) >= 2
  BY CurrentIs, Shape
<1>2. QED
  BY <1>1, Empty

(* While the line is empty and nothing is answered, the host in wait has   *)
(* nothing to expect: only there does it give up.                          *)
LEMMA Silent ==
    ASSUME RealPages, TypeInv, Calm, Owed, Modes, line = <<>>, pc \notin {"start", "write"}
    PROVE  Off \/ Rested \/ Hungry \/ Hung
<1> DEFINE b == Current.bytes
<1>1. /\ b \in Seq(Octets) /\ b # <<>> /\ IsMessage(Current) /\ Len(line) = 0
      /\ losses \in Nat /\ losses <= 1 /\ Len(args) \in Nat /\ Len(b) >= 2 /\ ch \in Octets
      /\ length \in 0..255 /\ CommandType
  BY Facts, Empty, NoBlank
<1>2. ~Fresh /\ ~Writing /\ ~Begun /\ ~Spare /\ ~End
  BY <1>1 DEF Fresh, Writing, Begun, Spare, End
<1>3. ~NoCommand
  <2> SUFFICES ASSUME NoCommand PROVE FALSE
    OBVIOUS
  <2>1. 0 = Len(b) - 1
    BY <1>1 DEF NoCommand, After
  <2> DEFINE l == Len(b)
  <2>2. l >= 2 /\ l \in Nat /\ 0 = l - 1
    BY <1>1, <2>1
  <2> HIDE DEF l
  <2>3. QED
    BY <2>2
<1>4. ~Slip
  BY <1>1 DEF Slip
<1>5. ~Arg
  <2> SUFFICES ASSUME Arg PROVE FALSE
    OBVIOUS
  <2> DEFINE k == Len(args)
             n == Arguments(ch)
             l == Len(b)
  <2>1. pc = "args" /\ ch = b[1] /\ 0 = l - (k + 1)
    BY <1>1 DEF Arg, After
  <2>2. k < n /\ n \in 0..20
    BY <2>1, <1>1, ArgumentsIs DEF CommandType
  <2>3. l = n + 2 \/ (l = 69 /\ n <= 4)
    <3> DEFINE c == b[1]
               m == Arguments(c)
    <3>1. IsMessage(Current)
      BY <1>1
    <3>2. (l = m + 2 \/ l = 69) /\ m \in 0..4
      BY <3>1, Shape
    <3>3. m = n
      BY <2>1
    <3> HIDE DEF c, m, l, n
    <3>4. QED
      BY <3>2, <3>3
  <2>4. l \in Nat /\ k \in Nat
    BY <1>1
  <2> HIDE DEF k, n, l
  <2>5. QED
    BY <2>1, <2>2, <2>3, <2>4
<1>6. ~Filling
  <2> SUFFICES ASSUME Filling PROVE FALSE
    OBVIOUS
  <2>1. Len(line) = length + 1
    BY DEF Filling
  <2>2. QED
    BY <2>1, <1>1
<1>7. ~ShortArgs
  BY <1>1 DEF ShortArgs, CommandType
<1>8. ~ShortProg
  <2> SUFFICES ASSUME ShortProg PROVE FALSE
    OBVIOUS
  <2>1. Len(args) < 3 /\ 0 + Len(args) = 67
    BY <1>1, Commands DEF ShortProg, CommandType
  <2> DEFINE k == Len(args)
  <2>2. k < 3 /\ 0 + k = 67 /\ k \in Nat
    BY <2>1, <1>1
  <2> HIDE DEF k
  <2>3. QED
    BY <2>2
<1>9. QED
  BY <1>2, <1>3, <1>4, <1>5, <1>6, <1>7, <1>8 DEF Modes

(* With an answer on its way the message before it has been read. *)
LEMMA Answered ==
    ASSUME RealPages, TypeInv, Calm, Owed, Modes, replies # <<>>
    PROVE  /\ Off \/ Rested \/ Writing \/ Hung \/ Spare
           /\ Hung => losses = 1 \/ garbles = 1
           /\ Spare => Len(line) = 1
           /\ Writing /\ host = "wait" => Len(replies) = 1 /\ Len(expected) = 2
<1>1. /\ losses \in Nat /\ garbles \in Nat /\ losses + garbles <= 1 /\ ~Asked
      /\ Len(replies) \in Nat \ {0} /\ Len(expected) \in Nat
  <2>1. ~Asked
    BY DEF Asked
  <2>2. Len(replies) # 0
    BY Facts, NoneLeft
  <2>3. QED
    BY <2>1, <2>2, Facts
<1>2. Off \/ Rested \/ Writing \/ Hung \/ Spare
  BY <1>1 DEF Modes, Fresh, Begun, Arg, Filling, End, NoCommand, Slip, ShortArgs,
              ShortProg, Hungry
<1>3. Hung => losses = 1 \/ garbles = 1
  BY <1>1 DEF Hung
<1>4. Spare => Len(line) = 1
  BY <1>1 DEF Spare
<1>5. Writing /\ host = "wait" => Len(replies) = 1 /\ Len(expected) = 2
  <2> SUFFICES ASSUME Writing, host = "wait" PROVE Len(replies) = 1 /\ Len(expected) = 2
    OBVIOUS
  <2> DEFINE r == Len(replies)
             e == Len(expected)
  <2>1. r \in Nat \ {0} /\ e \in Nat /\ r < e /\ e <= 2
    BY <1>1 DEF Writing, Owed
  <2> HIDE DEF r, e
  <2>2. r = 1 /\ e = 2
    BY <2>1
  <2>3. QED
    BY <2>2 DEF r, e
<1>6. QED
  BY <1>2, <1>3, <1>4, <1>5

LEMMA GiveUpKept ==
    ASSUME RealPages, TypeInv, Calm, CalmResets, Owed, FlashInv, Modes, GiveUp
    PROVE  CalmResets' /\ Owed' /\ FlashInv' /\ Modes'
<1>1. /\ host = "wait" /\ host' = "idle"
      /\ Quiet \/ (replies # <<>> /\ ~Expects(Head(replies)))
      /\ UNCHANGED <<pc, ch, args, address, length, buffer, flash, stray, rstfr, line, replies>>
      /\ UNCHANGED <<message, written, losses, garbles>>
  BY DEF GiveUp, boot, command, memory, resets, counts
<1>2. Owed' /\ FlashInv' /\ CalmResets' /\ Clean' = Clean
  <2>1. Owed'
    BY <1>1 DEF Owed
  <2>2. FlashInv'
    BY <1>1 DEF FlashInv
  <2>3. QED
    BY <1>1, <2>1, <2>2 DEF CalmResets, Clean
<1>3. \/ Off \/ Rested \/ Hungry \/ Hung
      \/ Spare /\ Len(line) = 1
      \/ Writing /\ garbles # 0
  <2>1. CASE Quiet
    BY <2>1, Silent DEF Quiet
  <2>2. CASE replies # <<>> /\ ~Expects(Head(replies))
    <3>1. Writing => garbles # 0
      <4> SUFFICES ASSUME Writing, garbles = 0 PROVE FALSE
        OBVIOUS
      <4>1. Len(replies) = 1 /\ Len(expected) = 2
        BY <1>1, <2>2, Answered
      <4>2. replies[1] = STK_INSYNC /\ expected[1] = STK_INSYNC
        BY <4>1, <1>1 DEF Writing, Owed
      <4>3. Head(replies) = replies[1]
        BY <2>2, Facts, TailIs
      <4>4. expected # <<>> /\ expected \in Seq(Octets)
        <5>1. expected \in Seq(Octets)
          BY Facts
        <5>2. expected = <<>> => Len(expected) = 0
          BY Empty
        <5>3. QED
          BY <5>1, <5>2, <4>1
      <4>5. Head(expected) = expected[1]
        BY <4>4, TailIs
      <4>6. QED
        BY <2>2, <4>2, <4>3, <4>5 DEF Expects
    <3>2. QED
      BY <2>2, <3>1, Answered
  <2>3. QED
    BY <1>1, <2>1, <2>2
<1>4. Hung => (losses + garbles = 0 => /\ ch = CRC_EOP /\ Clean /\ message = 1
                                       /\ replies = <<>> /\ line = <<>>)
  <2> SUFFICES ASSUME Hung, losses + garbles = 0
               PROVE  ch = CRC_EOP /\ Clean /\ message = 1 /\ replies = <<>> /\ line = <<>>
    OBVIOUS
  <2>1. ch = CRC_EOP /\ Clean /\ message = 1 /\ replies = <<>>
    BY DEF Hung
  <2>2. line = <<>>
    BY <1>1, <2>1 DEF Quiet
  <2>3. QED
    BY <2>1, <2>2
<1>5. CASE Off
  <2>1. Off'
    BY <1>1, <1>5 DEF Off
  <2>2. QED
    BY <1>2, <2>1 DEF Modes
<1>6. CASE Rested
  <2>1. Rested'
    BY <1>1, <1>2, <1>6 DEF Rested
  <2>2. QED
    BY <1>2, <2>1 DEF Modes
<1>7. CASE Hungry
  <2>1. Hungry'
    BY <1>1, <1>7 DEF Hungry
  <2>2. QED
    BY <1>2, <2>1 DEF Modes
<1>8. CASE Hung
  <2>1. pc = "verify" /\ (line = <<>> \/ line[1] # CRC_EOP)
    BY <1>8 DEF Hung
  <2>2. Hung'
    BY <1>1, <1>2, <1>4, <1>8, <2>1 DEF Hung
  <2>3. QED
    BY <1>2, <2>2 DEF Modes
<1>9. CASE Spare /\ Len(line) = 1
  <2>1. Spare'
    BY <1>1, <1>9 DEF Spare
  <2>2. QED
    BY <1>2, <2>1 DEF Modes
<1>10. CASE Writing /\ garbles # 0
  <2>1. Current' = Current
    BY <1>1, Same
  <2>2. Writing'
    BY <1>1, <1>10, <2>1 DEF Writing, Does, Home
  <2>3. QED
    BY <1>2, <2>2 DEF Modes
<1>11. QED
  BY <1>3, <1>5, <1>6, <1>7, <1>8, <1>9, <1>10

LEMMA StaleKept ==
    ASSUME RealPages, TypeInv, Calm, CalmResets, Owed, FlashInv, Modes, Stale
    PROVE  CalmResets' /\ Owed' /\ FlashInv' /\ Modes'
<1>1. /\ host = "idle" /\ replies # <<>> /\ host' = "idle"
      /\ UNCHANGED <<pc, ch, args, address, length, buffer, flash, stray, rstfr, line>>
      /\ UNCHANGED <<message, written, losses, garbles>>
  BY DEF Stale, command, memory, resets, hostVars, counts
<1>2. Owed' /\ FlashInv' /\ CalmResets' /\ Clean' = Clean
  <2>1. Owed'
    BY <1>1 DEF Owed
  <2>2. FlashInv'
    BY <1>1 DEF FlashInv
  <2>3. QED
    BY <1>1, <2>1, <2>2 DEF CalmResets, Clean
<1>3. /\ Off \/ Rested \/ Hung \/ Spare \/ (Writing /\ garbles # 0)
      /\ Hung => losses = 1 \/ garbles = 1
      /\ Spare => Len(line) = 1
  <2>1. Writing => garbles # 0
    BY <1>1 DEF Writing
  <2>2. QED
    BY <1>1, <2>1, Answered
<1>4. CASE Off
  <2>1. Off'
    BY <1>1, <1>4 DEF Off
  <2>2. QED
    BY <1>2, <2>1 DEF Modes
<1>5. CASE Rested
  <2>1. Rested'
    BY <1>1, <1>2, <1>5 DEF Rested
  <2>2. QED
    BY <1>2, <2>1 DEF Modes
<1>6. CASE Hung
  <2>1. pc' = "verify" /\ (line' = <<>> \/ line'[1] # CRC_EOP)
    BY <1>1, <1>6 DEF Hung
  <2>2. losses \in Nat /\ garbles \in Nat
    BY Facts
  <2>3. Hung'
    BY <1>1, <1>3, <1>6, <2>1, <2>2, Halted
  <2>4. QED
    BY <1>2, <2>3 DEF Modes
<1>7. CASE Spare
  <2>1. Spare'
    BY <1>1, <1>3, <1>7 DEF Spare
  <2>2. QED
    BY <1>2, <2>1 DEF Modes
<1>8. CASE Writing /\ garbles # 0
  <2>1. Current' = Current
    BY <1>1, Same
  <2>2. Writing'
    BY <1>1, <1>8, <2>1 DEF Writing, Does, Home
  <2>3. QED
    BY <1>2, <2>2 DEF Modes
<1>9. QED
  BY <1>3, <1>4, <1>5, <1>6, <1>7, <1>8

LEMMA ReceiveKept ==
    ASSUME RealPages, TypeInv, Calm, CalmResets, Owed, FlashInv, Modes, Receive
    PROVE  CalmResets' /\ Owed' /\ FlashInv' /\ Modes'
<1> DEFINE r == Len(replies)
           e == Len(expected)
<1>1. /\ host = "wait" /\ replies # <<>> /\ Head(replies) = Head(expected)
      /\ replies' = Tail(replies) /\ expected' = Tail(expected)
      /\ UNCHANGED <<pc, ch, args, address, length, buffer, flash, stray, rstfr, line>>
      /\ UNCHANGED <<losses, garbles>>
  BY DEF Receive, Expects, command, memory, resets, counts
<1>2. CalmResets' /\ Clean' = Clean
  BY <1>1 DEF CalmResets, Clean
<1>3. expected # <<>> /\ HostType
  BY <1>1, Facts DEF HostType
<1>4. /\ replies \in Seq(Octets) /\ replies' \in Seq(Octets)
      /\ r \in Nat \ {0} /\ Len(replies') = r - 1 /\ Head(replies) = replies[1]
      /\ \A i \in 1..r - 1 : replies'[i] = replies[i + 1]
  BY <1>1, Facts, TailIs
<1>5. /\ expected' \in Seq(Octets) /\ Head(expected) = expected[1]
      /\ e \in Nat \ {0} /\ Len(expected') = e - 1
      /\ \A i \in 1..e - 1 : expected'[i] = expected[i + 1]
  BY <1>1, <1>3, Facts, TailIs
<1>6. r <= e
  BY <1>1 DEF Owed
<1>7. /\ Off \/ Rested \/ Writing \/ Hung \/ Spare
      /\ Hung => losses = 1 \/ garbles = 1
      /\ Spare => Len(line) = 1
      /\ Writing => r = 1 /\ e = 2
  BY <1>1, Answered
<1> HIDE DEF r, e
<1>8. ASSUME Off PROVE Modes'
  <2>1. Off'
    BY <1>1, <1>8 DEF Off
  <2>2. QED
    BY <2>1 DEF Modes
<1>9. ASSUME Hung PROVE Modes'
  <2>1. pc' = "verify" /\ (line' = <<>> \/ line'[1] # CRC_EOP)
    BY <1>1, <1>9 DEF Hung
  <2>2. losses \in Nat /\ garbles \in Nat
    BY <1>3 DEF HostType
  <2>3. Hung'
    BY <1>1, <1>7, <1>9, <2>1, <2>2, Halted
  <2>4. QED
    BY <2>3 DEF Modes
<1>10. ASSUME Spare PROVE Modes'
  <2>1. Spare'
    BY <1>1, <1>7, <1>10 DEF Spare
  <2>2. QED
    BY <2>1 DEF Modes
<1>11. CASE expected' # <<>>
  <2>1. UNCHANGED <<host, message, written>>
    BY <1>11 DEF Receive
  <2>2. Current' = Current
    BY <2>1, Same
  <2>3. e >= 2
    <3>1. Len(expected') # 0
      BY <1>5, <1>11, NoneLeft
    <3>2. QED
      BY <3>1, <1>5
  <2>4. Owed'
    <3>1. Len(replies') <= Len(expected')
      BY <1>4, <1>5, <1>6
    <3>2. ASSUME Does("prog")
          PROVE  /\ Len(expected') <= 2 /\ expected'[Len(expected')] = STK_OK
                 /\ Len(expected') # 2
      <4>1. e = 2 /\ expected[e] = STK_OK
        <5>1. e <= 2 /\ expected[e] = STK_OK
          BY <3>2, <1>1 DEF Owed, e
        <5>2. QED
          BY <5>1, <2>3, <1>5
      <4>2. Len(expected') = 1 /\ 1 \in 1..e - 1 /\ 1 + 1 = e
        BY <4>1, <1>5
      <4>3. expected'[1] = expected[1 + 1]
        BY <4>2, <1>5
      <4>4. QED
        BY <4>1, <4>2, <4>3
    <3>3. QED
      BY <3>1, <3>2, <2>1, <2>2, <1>1 DEF Owed, Does
  <2>5. FlashInv'
    <3>1. ASSUME NEW i \in 1..Len(replies'), replies'[i] = STK_OK
          PROVE  \E j \in 1..Len(replies) : replies[j] = STK_OK
      <4>1. i \in 1..r - 1 /\ i + 1 \in 1..Len(replies)
        BY <1>4 DEF r
      <4>2. replies[i + 1] = STK_OK
        BY <4>1, <3>1, <1>4
      <4>3. QED
        BY <4>1, <4>2
    <3>2. QED
      BY <3>1, <2>1, <2>2, <1>1 DEF FlashInv, Does
  <2>6. CASE Rested
    <3>1. Rested'
      BY <1>1, <1>2, <2>1, <2>2, <2>6 DEF Rested, Does, Placed, Home
    <3>2. QED
      BY <1>2, <2>4, <2>5, <3>1 DEF Modes
  <2>7. CASE Writing
    <3>1. r = 1 /\ e = 2
      BY <1>7, <2>7
    <3>2. Len(replies') = 0 /\ Len(expected') = 1
      BY <3>1, <1>4, <1>5
    <3>3. /\ pc = "write" /\ Does("prog") /\ host = "wait" /\ line = <<>>
          /\ garbles = 0 => buffer = Image[Current.page]
          /\ address = (Home + MAPPED_PROGMEM_START + 64) % DataSpace
      BY <1>1, <2>7 DEF Writing
    <3>4. Writing'
      BY <3>2, <3>3, <1>1, <2>1, <2>2 DEF Writing, Does, Home
    <3>5. QED
      BY <1>2, <2>4, <2>5, <3>4 DEF Modes
  <2>8. QED
    BY <1>2, <1>7, <1>8, <1>9, <1>10, <2>4, <2>5, <2>6, <2>7
<1>12. CASE expected' = <<>>
  <2>1. /\ written' = written \cup Done("prog")
        /\ IF message < Len(Session)
           THEN host' = "send" /\ message' = message + 1
           ELSE host' = "idle" /\ UNCHANGED message
    BY <1>12 DEF Receive
  <2>2. e = 1 /\ r = 1
    <3>1. Len(expected') = 0
      BY <1>12, Empty
    <3>2. QED
      BY <3>1, <1>4, <1>5, <1>6
  <2>3. replies' = <<>>
    <3>1. Len(replies') = 0
      BY <2>2, <1>4
    <3>2. QED
      BY <3>1, <1>4, NoneLeft
  <2>4. host' \in {"send", "idle"}
    BY <2>1
  <2>5. Owed'
    BY <2>3, <2>4 DEF Owed
  <2>6. FlashInv'
    <3>1. garbles = 0 /\ Does("prog") => flash[Current.page] = Image[Current.page]
      <4> SUFFICES ASSUME garbles = 0, Does("prog") PROVE flash[Current.page] = Image[Current.page]
        OBVIOUS
      <4>1. expected[1] = STK_OK
        BY <2>2, <1>1 DEF Owed, e
      <4>2. replies[1] = STK_OK /\ 1 \in 1..Len(replies)
        BY <4>1, <2>2, <1>1, <1>4, <1>5 DEF r
      <4>3. QED
        BY <4>2, <1>1 DEF FlashInv
    <3>2. garbles = 0 => \A p \in written' : flash[p] = Image[p]
      BY <3>1, <2>1 DEF FlashInv, Done, Does
    <3>3. QED
      BY <3>2, <2>4, <1>1 DEF FlashInv
  <2>7. CASE Rested
    <3>1. pc = "command" /\ line = <<>> /\ Clean /\ (Does("load") => address = Home)
      BY <1>1, <2>7 DEF Rested
    <3>2. host' = "send" /\ Placed' => address' = Home'
      <4> SUFFICES ASSUME host' = "send", Placed' PROVE address' = Home'
        OBVIOUS
      <4>1. message < Len(Session) /\ message' = message + 1
        BY <2>1
      <4>2. Session[message + 1].does \in {"prog", "read"}
        BY <4>1 DEF Placed, Does, Current
      <4>3. message \in 1..Len(Session) - 1
        <5>1. message \in 1..Len(Session) /\ Len(Session) \in Nat
          BY <1>3, SessionIs DEF HostType
        <5>2. QED
          BY <5>1, <4>1
      <4>4. Session[message].does = "load" /\ Session[message].page = Session[message + 1].page
        BY <4>2, <4>3, SessionIs
      <4>5. address = Home
        BY <4>4, <3>1 DEF Does, Current
      <4>6. Home' = Home
        BY <4>1, <4>4 DEF Home, Current
      <4>7. QED
        BY <4>5, <4>6, <1>1
    <3>3. Rested'
      BY <3>1, <3>2, <2>4, <1>1, <1>2 DEF Rested
    <3>4. QED
      BY <1>2, <2>5, <2>6, <3>3 DEF Modes
  <2>8. ~Writing
    BY <1>7, <2>2
  <2>9. QED
    BY <1>2, <1>7, <1>8, <1>9, <1>10, <2>5, <2>6, <2>7, <2>8
<1>13. QED
  BY <1>11, <1>12

LEMMA Earlier == TypeInv /\ [Next]_vars /\ Calm' => Calm
<1> SUFFICES ASSUME TypeInv, [Next]_vars, Calm' PROVE Calm
  OBVIOUS
<1>1. losses \in Nat /\ garbles \in Nat /\ outside \in Nat
  BY DEF TypeInv, HostType
<1>2. CASE Lose
  BY <1>1, <1>2 DEF Lose, Calm
<1>3. CASE Garble
  <2>1. misled => misled'
    BY <1>3 DEF Garble
  <2>2. garbles' = garbles + 1 /\ UNCHANGED <<losses, outside>>
    BY <1>3 DEF Garble
  <2>3. QED
    BY <1>1, <2>1, <2>2 DEF Calm
<1>4. CASE Outside
  BY <1>1, <1>4 DEF Outside, Calm
<1>5. CASE UNCHANGED counts
  BY <1>5 DEF counts, Calm
<1>6. QED
  BY <1>2, <1>3, <1>4, <1>5
     DEF Next, Bootloader, Host, Begin, Send, Receive, GiveUp, Stale, vars

(* The one byte that is lost. *)
LEMMA LoseKept ==
    ASSUME RealPages, TypeInv, Calm, losses = 0, garbles = 0,
           CalmResets, Owed, FlashInv, Modes, Lose
    PROVE  CalmResets' /\ Owed' /\ FlashInv' /\ Modes'
<1> DEFINE b == Current.bytes
<1>1. /\ losses' = 1 /\ garbles' = 0 /\ losses' + garbles' # 0
      /\ \/ line # <<>> /\ line' = Tail(line) /\ UNCHANGED replies
         \/ replies # <<>> /\ replies' = Tail(replies) /\ UNCHANGED line
      /\ UNCHANGED <<pc, ch, args, address, length, buffer, flash, stray, rstfr>>
      /\ UNCHANGED <<host, message, expected, written, garbles>>
  BY DEF Lose, command, memory, resets, hostVars
<1>2. Current' = Current /\ CalmResets' /\ Clean' = Clean
  <2>1. Current' = Current
    BY <1>1, Same
  <2>2. QED
    BY <1>1, <2>1 DEF CalmResets, Clean
<1>3. /\ IsMessage(Current) /\ b \in Seq(Octets) /\ b # <<>> /\ HostType
      /\ line \in Seq(Octets) /\ replies \in Seq(Octets) /\ ch \in Octets
      /\ length \in 0..255 /\ Len(args) \in Nat /\ Len(expected) \in Nat
  BY Facts
<1> HIDE DEF b
<1>4. CASE line # <<>> /\ line' = Tail(line) /\ UNCHANGED replies
  <2>1. Owed' /\ FlashInv' /\ Asked' = Asked
    <3>1. Owed' /\ FlashInv'
      BY <1>1, <1>4, Still
    <3>2. QED
      BY <1>1, <1>2, <1>4, <3>1 DEF Asked
  <2>2. /\ Head(line) = line[1] /\ line' \in Seq(Octets)
        /\ Len(line) \in Nat \ {0} /\ Len(line') = Len(line) - 1
    BY <1>3, <1>4, TailIs
  <2>3. \/ Off \/ Fresh \/ Begun \/ Arg \/ Filling \/ End
        \/ NoCommand \/ Hung
    BY <1>4 DEF Modes, Rested, Writing, Slip, ShortArgs, ShortProg, Hungry, Spare
  <2>4. CASE Off
    <3>1. Off'
      BY <1>1, <2>4 DEF Off
    <3>2. QED
      BY <1>2, <2>1, <3>1 DEF Modes
  <2>5. ASSUME line = b PROVE After(line', b, 1)
    <3>1. After(line, b, 0) /\ 0 + 1 = 1
      BY <1>3, <2>5, AfterNone
    <3>2. After(Tail(line), b, 0 + 1)
      BY <3>1, <1>3, <1>4, AfterTail
    <3>3. QED
      BY <3>1, <3>2, <1>4
  <2>6. CASE Fresh
    <3>1. /\ pc = "start" /\ rstfr = {"EXT"} /\ Clean
          /\ message = 1 /\ replies = <<>> /\ Asked /\ line = b
      BY <1>4, <2>6 DEF Fresh, b
    <3>2. After(line', b, 1)
      BY <2>5, <3>1
    <3>3. Fresh'
      BY <1>1, <1>2, <1>4, <2>1, <3>1, <3>2 DEF Fresh, b
    <3>4. QED
      BY <1>2, <2>1, <3>3 DEF Modes
  <2>7. CASE Begun
    <3>1. pc = "command" /\ Asked /\ Clean /\ line = b
      BY <2>7 DEF Begun, b
    <3>2. After(line', b, 1)
      BY <2>5, <3>1
    <3>3. NoCommand'
      BY <1>1, <1>2, <2>1, <3>1, <3>2 DEF NoCommand, b
    <3>4. QED
      BY <1>2, <2>1, <3>3 DEF Modes
  <2>8. CASE Arg
    <3> DEFINE k == Len(args)
               n == Arguments(ch)
               l == Len(line')
               m == Len(b)
    <3>1. /\ pc = "args" /\ Asked /\ ch = b[1] /\ After(line, b, k + 1)
          /\ ch = STK_PROG_PAGE /\ k = 2 => length = 64
      BY <2>8 DEF Arg, b
    <3>2. k \in Nat /\ n \in 0..20 /\ k < n /\ k + 1 \in Nat
      <4>1. CommandType
        BY Facts
      <4>2. n \in 0..20
        BY <1>3, ArgumentsIs
      <4>3. k < n /\ k \in Nat
        BY <4>1, <3>1, <1>3 DEF CommandType
      <4> HIDE DEF k, n
      <4>4. QED
        BY <4>2, <4>3
    <3>3. After(line', b, k + 2)
      <4>1. After(Tail(line), b, k + 1 + 1)
        <5> HIDE DEF k
        <5>1. QED
          BY <1>3, <1>4, <3>1, <3>2, AfterTail
      <4>2. k + 1 + 1 = k + 2
        BY <3>2
      <4>3. QED
        BY <4>1, <4>2, <1>4
    <3>4. l = m - (k + 2) /\ l \in Nat
      <4>1. l = m - (k + 2)
        BY <3>3 DEF After
      <4>2. l \in Nat
        BY <2>2
      <4>3. QED
        BY <4>1, <4>2
    <3>5. CASE ch # STK_PROG_PAGE
      <4>1. m = n + 2
        BY <1>3, <3>1, <3>5, Shape DEF b
      <4>2. l + k = n
        <5> HIDE DEF l, k, n, m
        <5>1. QED
          BY <3>2, <3>4, <4>1
      <4>3. ShortArgs'
        BY <1>1, <2>1, <3>1, <3>5, <4>2 DEF ShortArgs
      <4>4. QED
        BY <1>2, <2>1, <4>3 DEF Modes
    <3>6. CASE ch = STK_PROG_PAGE
      <4>1. m = 69 /\ b[4] = Flash /\ n = 3
        <5>1. Current.bytes[1] = STK_PROG_PAGE
          BY <3>1, <3>6 DEF b
        <5>2. Current.does = "prog"
          BY <5>1, <1>3, Shape
        <5>3. Len(Current.bytes) = 69 /\ Current.bytes[4] = Flash
          BY <5>2, <1>3, Shape
        <5>4. n = 3
          BY <3>6, Commands
        <5>5. QED
          BY <5>3, <5>4 DEF b
      <4>2. l + k = 67 /\ k <= 2
        <5> HIDE DEF l, k, n, m
        <5>1. QED
          BY <3>2, <3>4, <4>1
      <4>3. k < 2 => line'[2 - k] = Flash
        <5> SUFFICES ASSUME k < 2 PROVE line'[2 - k] = Flash
          OBVIOUS
        <5>1. 2 - k \in Nat \ {0} /\ (2 - k) + (k + 2) = 4 /\ k + 2 \in Nat
          BY <3>2
        <5>2. (2 - k) + (k + 2) <= Len(b)
          BY <4>1, <5>1
        <5> DEFINE i == 2 - k
                   j == k + 2
        <5> HIDE DEF i, j
        <5>3. line'[i] = b[i + j]
          <6>1. After(line', b, j) /\ i \in Nat \ {0} /\ j \in Nat /\ i + j <= Len(b)
            BY <3>3, <5>1, <5>2 DEF i, j
          <6>2. QED
            BY <6>1, <1>3, <2>2, AfterAt
        <5>4. QED
          BY <4>1, <5>1, <5>3 DEF i, j
      <4>4. k = 2 => length \in {64, 70}
        BY <3>1, <3>6
      <4>5. ShortProg'
        BY <1>1, <2>1, <3>1, <3>6, <4>2, <4>3, <4>4 DEF ShortProg
      <4>6. QED
        BY <1>2, <2>1, <4>5 DEF Modes
    <3>7. QED
      BY <3>5, <3>6
  <2>9. CASE Filling
    <3> DEFINE l == Len(line)
    <3>1. /\ Asked /\ Does("prog") /\ length <= 64
          /\ pc = IF length = 0 THEN "verify" ELSE "data"
      BY <2>9 DEF Filling
    <3>3. l = length + 1
      BY <2>9 DEF Filling
    <3>4. Len(line') = length
      <4> HIDE DEF l
      <4>1. l - 1 = length
        BY <3>3, <1>3
      <4>2. QED
        BY <4>1, <2>2 DEF l
    <3>5. CASE length = 0
      <4>1. line' = <<>>
        BY <2>2, <3>4, <3>5, NoneLeft
      <4>2. Hung'
        BY <1>1, <3>1, <3>5, <4>1 DEF Hung
      <4>3. QED
        BY <1>2, <2>1, <4>2 DEF Modes
    <3>6. CASE length # 0
      <4>1. length > 0 /\ length - length = 0 /\ 0 % 2 = 0 /\ length <= length
        BY <3>6, <1>3
      <4>2. Len(line') <= length' /\ (length' - Len(line')) % 2 = 0 /\ length' > 0
        BY <4>1, <3>4, <1>1
      <4>3. Hungry'
        BY <1>1, <1>4, <3>1, <3>6, <4>2 DEF Hungry, Asked
      <4>4. QED
        BY <1>2, <2>1, <4>3 DEF Modes
    <3>7. QED
      BY <3>5, <3>6
  <2>10. CASE End
    <3>1. pc = "verify" /\ Len(line) = 1
      BY <2>10 DEF End
    <3>2. line' = <<>>
      BY <1>3, <1>4, <3>1, OneLeft
    <3>3. Hung'
      BY <1>1, <3>1, <3>2 DEF Hung
    <3>4. QED
      BY <1>2, <2>1, <3>3 DEF Modes
  <2>11. CASE NoCommand
    <3>1. pc = "command" /\ Asked /\ Clean /\ After(line, b, 1) /\ message = 1
      BY <2>11 DEF NoCommand, b
    <3>2. ~Does("load") /\ Len(b) = 2
      BY <1>3, <3>1, First DEF Does, b
    <3>3. Len(line) = 2 - 1
      BY <3>1, <3>2 DEF After
    <3>4. line' = <<>>
      <4>1. Len(line) = 1
        BY <3>3
      <4>2. QED
        BY <4>1, <1>3, <1>4, OneLeft
    <3>5. Rested'
      BY <1>1, <1>2, <3>1, <3>2, <3>4 DEF Rested, Asked, Does
    <3>6. QED
      BY <1>2, <2>1, <3>5 DEF Modes
  <2>12. CASE Hung
    <3>1. /\ pc = "verify" /\ ch = CRC_EOP /\ Clean /\ message = 1
          /\ Asked /\ line = b
      BY <1>4, <2>12 DEF Hung, b
    <3>2. Does("other") /\ Len(b) = 2
      BY <1>3, <3>1, First DEF Does, b
    <3>3. Len(line') = 1
      <4>1. Len(line') = 2 - 1
        BY <2>2, <3>1, <3>2
      <4>2. QED
        BY <4>1
    <3>4. Arguments(CRC_EOP) = 0 /\ CRC_EOP # STK_READ_SIGN
      BY Commands DEF CRC_EOP, STK_READ_SIGN
    <3>5. Slip'
      BY <1>1, <1>2, <2>1, <3>1, <3>2, <3>3, <3>4 DEF Slip, Does
    <3>6. QED
      BY <1>2, <2>1, <3>5 DEF Modes
  <2>13. QED
    BY <2>3, <2>4, <2>6, <2>7, <2>8, <2>9, <2>10, <2>11, <2>12
<1>5. CASE replies # <<>> /\ replies' = Tail(replies) /\ UNCHANGED line
  <2> DEFINE r == Len(replies)
  <2>1. /\ replies' \in Seq(Octets) /\ r \in Nat \ {0} /\ Len(replies') = r - 1
        /\ \A i \in 1..r - 1 : replies'[i] = replies[i + 1]
    BY <1>3, <1>5, TailIs
  <2>2. Off \/ Rested \/ Writing
    <3>1. /\ Off \/ Rested \/ Writing \/ Hung \/ Spare
          /\ Hung => losses = 1
          /\ Spare => losses = 1
      BY <1>5, Answered DEF Spare
    <3>2. QED
      BY <3>1
  <2>3. Owed'
    <3>1. host # "send"
      BY <1>5 DEF Owed
    <3>2. host = "wait" => Len(replies') <= Len(expected)
      <4> SUFFICES ASSUME host = "wait" PROVE Len(replies') <= Len(expected)
        OBVIOUS
      <4> DEFINE e == Len(expected)
                 s == Len(replies')
      <4>1. r <= e /\ s = r - 1 /\ e \in Nat
        BY <2>1, <1>3 DEF Owed
      <4> HIDE DEF r, e, s
      <4>2. s <= e
        BY <4>1, <2>1
      <4>3. QED
        BY <4>2 DEF s, e
    <3>3. QED
      BY <3>1, <3>2, <1>1, <1>2 DEF Owed, Does
  <2>4. FlashInv'
    <3>1. ASSUME NEW i \in 1..Len(replies'), replies'[i] = STK_OK
          PROVE  \E j \in 1..Len(replies) : replies[j] = STK_OK
      <4>1. i \in 1..r - 1 /\ i + 1 \in 1..Len(replies)
        BY <2>1
      <4>2. replies[i + 1] = STK_OK
        BY <4>1, <3>1, <2>1
      <4>3. QED
        BY <4>1, <4>2
    <3>2. QED
      BY <3>1, <1>1, <1>2 DEF FlashInv, Does
  <2>5. CASE Off
    <3>1. Off'
      BY <1>1, <2>5 DEF Off
    <3>2. QED
      BY <1>2, <2>3, <2>4, <3>1 DEF Modes
  <2>6. CASE Rested
    <3>1. Rested'
      BY <1>1, <1>2, <1>5, <2>6 DEF Rested, Does, Placed, Home
    <3>2. QED
      BY <1>2, <2>3, <2>4, <3>1 DEF Modes
  <2>7. CASE Writing
    <3>1. r = 1 /\ Len(expected) = 2
      <4>1. host = "wait"
        BY <2>7 DEF Writing
      <4>2. QED
        BY <1>5, <2>7, <4>1, Answered
    <3>2. Len(replies') = 0
      BY <3>1, <2>1
    <3>3. /\ pc = "write" /\ Does("prog") /\ host = "wait" /\ line = <<>>
          /\ buffer = Image[Current.page]
          /\ address = (Home + MAPPED_PROGMEM_START + 64) % DataSpace
      BY <2>7 DEF Writing
    <3>4. Writing'
      BY <3>1, <3>2, <3>3, <1>1, <1>2, <1>5 DEF Writing, Does, Home
    <3>5. QED
      BY <1>2, <2>3, <2>4, <3>4 DEF Modes
  <2>8. QED
    BY <2>2, <2>5, <2>6, <2>7
<1>6. QED
  BY <1>1, <1>4, <1>5

LEMMA Changed ==
    ASSUME NEW s \in Seq(Octets), s # <<>>, NEW o \in Octets
    PROVE  /\ <<o>> \o Tail(s) \in Seq(Octets) /\ Len(<<o>> \o Tail(s)) = Len(s)
           /\ (<<o>> \o Tail(s))[1] = o /\ <<o>> \o Tail(s) # <<>>
<1> DEFINE h == <<o>>
           t == Tail(s)
<1>1. h \in Seq(Octets) /\ Len(h) = 1 /\ h[1] = o /\ h # <<>>
  OBVIOUS
<1>2. t \in Seq(Octets) /\ Len(s) \in Nat /\ Len(t) = Len(s) - 1
  BY TailIs
<1> HIDE DEF h, t
<1>3. /\ h \o t \in Seq(Octets) /\ Len(h \o t) = Len(h) + Len(t)
      /\ h \o t # <<>> /\ (h \o t)[1] = h[1]
  BY <1>1, <1>2, Joined
<1>4. Len(h \o t) = Len(s)
  BY <1>1, <1>2, <1>3
<1>5. QED
  BY <1>1, <1>3, <1>4 DEF h, t

(* The one byte that changes. *)
LEMMA GarbleKept ==
    ASSUME RealPages, TypeInv, Calm, losses = 0, garbles = 0, ~misled',
           CalmResets, Owed, FlashInv, Modes, Garble
    PROVE  CalmResets' /\ Owed' /\ FlashInv' /\ Modes'
<1>1. /\ garbles' = 1 /\ losses' = 0 /\ losses' + garbles' # 0
      /\ line' = line \/ Plain
      /\ UNCHANGED <<pc, ch, args, address, length, buffer, flash, stray, rstfr>>
      /\ UNCHANGED <<host, message, expected, written, losses>>
  <2>1. line' = line \/ Plain
    BY DEF Garble
  <2>2. /\ garbles' = garbles + 1
        /\ UNCHANGED <<pc, ch, args, address, length, buffer, flash, stray, rstfr>>
        /\ UNCHANGED <<host, message, expected, written, losses>>
    BY DEF Garble, command, memory, resets, hostVars
  <2>3. QED
    BY <2>1, <2>2
<1>2. Current' = Current /\ CalmResets' /\ Clean' = Clean
  <2>1. Current' = Current
    BY <1>1, Same
  <2>2. QED
    BY <1>1, <2>1 DEF CalmResets, Clean
<1>3. FlashInv'
  BY <1>1 DEF FlashInv
<1>4. PICK byte \in Garbles :
        \/ line # <<>> /\ line' = <<byte>> \o Tail(line) /\ UNCHANGED replies
        \/ replies # <<>> /\ replies' = <<byte>> \o Tail(replies) /\ UNCHANGED line
  BY DEF Garble
<1>5. byte \in Octets /\ line \in Seq(Octets) /\ replies \in Seq(Octets)
  BY <1>4, Facts, FaultAssumption DEF Octets
<1>6. (\A w : Does(w)' = Does(w)) /\ Home' = Home /\ Placed' = Placed
  BY <1>1, <1>2 DEF Does, Home, Placed
<1>7. CASE line # <<>> /\ line' = <<byte>> \o Tail(line) /\ UNCHANGED replies
  <2>1. Owed'
    BY <1>1, <1>2, <1>7 DEF Owed, Does
  <2>2. Asked' = Asked
    BY <1>1, <1>2, <1>7 DEF Asked
  <2>3. Len(line') = Len(line) /\ line'[1] = byte
    BY <1>5, <1>7, Changed
  <2>4. CASE line' = line
    <3>1. Modes'
      BY <1>1, <1>2, <1>6, <1>7, <2>2, <2>4
         DEF Modes, Off, Fresh, Rested, Begun, Arg, Filling, Filled, End, Writing, NoCommand, Slip,
             ShortArgs, ShortProg, Hungry, Hung, Spare, After
    <3>2. QED
      BY <1>2, <1>3, <2>1, <3>1
  <2>5. CASE line' # line
    <3>1. pc = "data" \/ (pc = "verify" /\ Len(line) = 1)
      BY <1>1, <2>5 DEF Plain
    <3>2. Filling \/ End
      <4>1. ~Hung
        <5> SUFFICES ASSUME Hung PROVE FALSE
          OBVIOUS
        <5>1. losses + garbles = 0 /\ line = Current.bytes /\ Len(line) = 1
          BY <1>7, <3>1 DEF Hung
        <5>2. Len(Current.bytes) >= 2
          BY Facts, NoBlank
        <5> DEFINE l == Len(line)
        <5>3. l = 1 /\ l >= 2
          BY <5>1, <5>2
        <5> HIDE DEF l
        <5>4. QED
          BY <5>3
      <4>2. QED
        BY <3>1, <4>1 DEF Modes, Off, Fresh, Rested, Begun, Arg, Writing, NoCommand, Slip,
                          ShortArgs, ShortProg, Hungry, Spare
    <3>3. CASE Filling
      <4>1. Filling'
        BY <1>1, <1>6, <2>2, <2>3, <3>3 DEF Filling, Filled
      <4>2. QED
        BY <1>2, <1>3, <2>1, <4>1 DEF Modes
    <3>4. CASE End /\ byte = CRC_EOP
      <4>1. End'
        BY <1>1, <1>2, <1>6, <2>2, <2>3, <3>4 DEF End
      <4>2. QED
        BY <1>2, <1>3, <2>1, <4>1 DEF Modes
    <3>5. CASE End /\ byte # CRC_EOP
      <4>1. Hung'
        BY <1>1, <2>3, <3>5 DEF End, Hung
      <4>2. QED
        BY <1>2, <1>3, <2>1, <4>1 DEF Modes
    <3>6. QED
      BY <3>2, <3>3, <3>4, <3>5
  <2>6. QED
    BY <2>4, <2>5
<1>8. CASE replies # <<>> /\ replies' = <<byte>> \o Tail(replies) /\ UNCHANGED line
  <2>1. Len(replies') = Len(replies)
    BY <1>5, <1>8, Changed
  <2>2. Owed'
    BY <1>1, <1>2, <1>8, <2>1 DEF Owed, Does
  <2>3. Off \/ Rested \/ Writing
    <3>1. /\ Off \/ Rested \/ Writing \/ Hung \/ Spare
          /\ Hung => losses = 1 \/ garbles = 1
          /\ Spare => losses = 1
      BY <1>8, Answered DEF Spare
    <3>2. QED
      BY <3>1
  <2>4. Modes'
    BY <1>1, <1>2, <1>6, <1>8, <2>1, <2>3 DEF Modes, Off, Rested, Writing
  <2>5. QED
    BY <1>2, <1>3, <2>2, <2>4
<1>9. QED
  BY <1>4, <1>7, <1>8

----------------------------------------------------------------------------
(* What is written and what is read *)

LEMMA ProgressKept == RealPages /\ TypeInv /\ Progress /\ [Next]_vars => Progress'
<1> SUFFICES ASSUME RealPages, TypeInv, Progress, [Next]_vars PROVE Progress'
  OBVIOUS
<1>1. message \in 1..Len(Session) /\ Len(Session) \in Nat
  BY SessionIs DEF TypeInv, HostType
<1>2. ASSUME UNCHANGED <<message, written, verified>> PROVE Progress'
  BY <1>2 DEF Progress
<1>3. CASE Begin
  <2>1. message' = 1 /\ verified' = {} /\ written' = {}
    BY <1>3 DEF Begin
  <2>2. QED
    BY <2>1 DEF Progress
<1>4. CASE Receive
  <2>1. CASE expected' # <<>>
    BY <1>2, <1>4, <2>1 DEF Receive
  <2>2. CASE expected' = <<>>
    <3>1. /\ written' = written \cup Done("prog")
          /\ verified' = verified \cup Done("read")
          /\ message' = message \/ (message' = message + 1)
      BY <1>4, <2>2 DEF Receive
    <3>2. ASSUME NEW m \in 1..message'-1, Session[m].does = "prog"
          PROVE  Session[m].page \in written'
      <4>1. m \in 1..message-1 \/ m = message
        BY <1>1, <3>1
      <4>2. m \in 1..message-1 => Session[m].page \in written
        BY <3>2 DEF Progress
      <4>3. m = message => Session[m].page \in Done("prog")
        BY <3>2 DEF Done, Current
      <4>4. QED
        BY <3>1, <4>1, <4>2, <4>3
    <3>3. Done("read") \subseteq written
      <4> SUFFICES ASSUME Session[message].does = "read"
                   PROVE  Session[message].page \in written
        BY DEF Done, Current
      <4>1. PICK m \in 1..message-1 :
              Session[m].does = "prog" /\ Session[m].page = Session[message].page
        BY <1>1, SessionIs
      <4>2. QED
        BY <4>1 DEF Progress
    <3>4. verified' \subseteq written'
      BY <3>1, <3>3 DEF Progress
    <3>5. ASSUME verified' # {} PROVE \E m \in 1..message' : Session[m].does = "read"
      <4>1. \E m \in 1..message : Session[m].does = "read"
        <5>1. CASE verified # {}
          BY <5>1 DEF Progress
        <5>2. CASE Done("read") # {}
          BY <5>2, <1>1 DEF Done, Current
        <5>3. QED
          BY <5>1, <5>2, <3>1, <3>5
      <4>2. \A m \in 1..message : m \in 1..message'
        BY <1>1, <3>1
      <4>3. QED
        BY <4>1, <4>2
    <3>6. QED
      BY <3>2, <3>4, <3>5 DEF Progress
  <2>3. QED
    BY <2>1, <2>2
<1>5. CASE Bootloader \/ Lose \/ Garble \/ Outside \/ UNCHANGED vars
  BY <1>2, <1>5 DEF Bootloader, Lose, Garble, Outside, vars, hostVars
<1>6. CASE Send \/ GiveUp \/ Stale
  BY <1>2, <1>6 DEF Send, GiveUp, Stale, hostVars
<1>7. QED
  BY <1>3, <1>4, <1>5, <1>6 DEF Next, Host

(* A page is read from where the address is. *)
ByteAt(p, j) ==
    (((64 * p + MAPPED_PROGMEM_START) % DataSpace) + (j + 1) - 1) % DataSpace
IsAt(a, p, j) == PageOf(a) = p /\ a % 64 = j
LEMMA ReadAt ==
    ASSUME RealPages, NEW p \in 0..511, NEW j \in 0..63
    PROVE  IsAt(ByteAt(p, j), p, j)
<1> DEFINE m == MAPPED_PROGMEM_START
           b == 64 * p + m
           x == 64 * p + j
           q == p + 512
<1>1. m = 64 * 512 /\ m \in Nat
  BY SpaceIs
<1>2. DataSpace = m + m /\ DataSpace \in Nat
  BY SpaceIs
<1>3. x \in Nat /\ x < 64 * 512 /\ x \div 64 = p
  OBVIOUS
<1>4. b + j = 64 * q + j /\ q \in Nat
  BY <1>1
<1> HIDE DEF m
<1>5. b \in Nat /\ b < m + m /\ b + (j + 1) - 1 = b + j /\ b + j = x + m
  BY <1>1
<1> HIDE DEF q
<1>6. (64 * q + j) % 64 = j
  BY <1>4
<1> HIDE DEF b, x
<1>7. b + j \in Nat /\ b + j < m + m /\ (b + j) - m = x /\ x < m + m
  BY <1>1, <1>3, <1>5
<1>8. b % DataSpace = b /\ (b + j) % DataSpace = b + j /\ x % DataSpace = x
  <2>1. b \in Nat /\ b < DataSpace /\ b + j \in Nat /\ b + j < DataSpace
        /\ x \in Nat /\ x < DataSpace
    BY <1>2, <1>3, <1>5, <1>7
  <2>2. QED
    BY <2>1, Reduced
<1>9. ((b % DataSpace) + (j + 1) - 1) % DataSpace = b + j
  BY <1>5, <1>8
<1>10. PageOf(b + j) = p
  BY <1>3, <1>7, <1>8 DEF PageOf, RealPages, m
<1>11. (b + j) % 64 = j
  BY <1>4, <1>6
<1>12. QED
  BY <1>9, <1>10, <1>11 DEF b, m, ByteAt, IsAt

LEMMA MemoryOf ==
    ASSUME RealPages, TypeInv, Calm, Current.page \in Pages,
           address = Home, length = 64, args[3] = Flash
    PROVE  /\ Memory \in Seq(Octets) /\ Len(Memory) = 64
           /\ \A i \in 0..63 : Memory[i + 1] = flash[Current.page][i]
<1> DEFINE p == Current.page
<1>1. p \in 0..511 /\ PageSize = 64
  BY DEF RealPages
<1>2. Memory \in Seq(Octets) /\ Len(Memory) = 64
  BY MemoryIs, Facts
<1>3. Mapped(args[3]) = (64 * p + MAPPED_PROGMEM_START) % DataSpace
  BY DEF Mapped, Home
<1> HIDE DEF p
<1>4. ASSUME NEW i \in 0..63 PROVE Memory[i + 1] = flash[p][i]
  <2> DEFINE a == ByteAt(p, i)
  <2>1. PageOf(a) = p /\ a % 64 = i
    <3>1. p \in 0..511 /\ i \in 0..63
      BY <1>1
    <3>2. IsAt(a, p, i)
      BY <3>1, ReadAt
    <3>3. QED
      BY <3>2 DEF IsAt
  <2>2. i + 1 \in 1..64
    OBVIOUS
  <2>3. Memory[i + 1] = Contents(a)
    BY <1>3, <2>2 DEF Memory, ByteAt
  <2> HIDE DEF a
  <2>4. QED
    BY <1>1, <2>1, <2>3 DEF Contents, p
<1>5. QED
  BY <1>2, <1>4 DEF p

LEMMA Concatenated ==
    ASSUME NEW s \in Seq(Octets), NEW t \in Seq(Octets)
    PROVE  /\ s \o t \in Seq(Octets) /\ Len(s \o t) = Len(s) + Len(t)
           /\ \A i \in 1..Len(s) + Len(t) :
                 (s \o t)[i] = IF i <= Len(s) THEN s[i] ELSE t[i - Len(s)]
  BY ConcatProperties

LEMMA Wrapped ==
    ASSUME NEW s \in Seq(Octets), Len(s) = 64
    PROVE  LET r == Append(<<>>, STK_INSYNC) \o s \o <<STK_OK>>
           IN  Len(r) = 66 /\ \A i \in 0..63 : r[i + 2] = s[i + 1]
<1> DEFINE a == Append(<<>>, STK_INSYNC)
           u == a \o s
           k == <<STK_OK>>
           r == u \o k
<1>1. a \in Seq(Octets) /\ Len(a) = 1 /\ k \in Seq(Octets) /\ Len(k) = 1
  BY DEF STK_INSYNC, STK_OK, Octets
<1> HIDE DEF a, k
<1>2. /\ u \in Seq(Octets) /\ Len(u) = 65
      /\ \A i \in 1..65 : u[i] = IF i <= 1 THEN a[i] ELSE s[i - 1]
  <2>1. /\ u \in Seq(Octets) /\ Len(u) = Len(a) + Len(s)
        /\ \A i \in 1..Len(a) + Len(s) : u[i] = IF i <= Len(a) THEN a[i] ELSE s[i - Len(a)]
    BY <1>1, Concatenated
  <2>2. Len(a) + Len(s) = 65
    BY <1>1
  <2>3. QED
    BY <1>1, <2>1, <2>2
<1> HIDE DEF u
<1>3. /\ Len(r) = 66
      /\ \A i \in 1..66 : r[i] = IF i <= 65 THEN u[i] ELSE k[i - 65]
  <2>1. /\ Len(r) = Len(u) + Len(k)
        /\ \A i \in 1..Len(u) + Len(k) : r[i] = IF i <= Len(u) THEN u[i] ELSE k[i - Len(u)]
    BY <1>1, <1>2, Concatenated
  <2>2. Len(u) + Len(k) = 66
    BY <1>1, <1>2
  <2>3. QED
    BY <1>2, <2>1, <2>2
<1>4. ASSUME NEW i \in 0..63 PROVE r[i + 2] = s[i + 1]
  <2>1. /\ i + 2 \in 1..66 /\ i + 2 <= 65 /\ i + 2 \in 1..65 /\ ~(i + 2 <= 1)
        /\ (i + 2) - 1 = i + 1
    OBVIOUS
  <2>2. r[i + 2] = u[i + 2]
    BY <2>1, <1>3
  <2>3. u[i + 2] = s[(i + 2) - 1]
    BY <2>1, <1>2
  <2>4. QED
    BY <2>1, <2>2, <2>3
<1>5. QED
  BY <1>3, <1>4 DEF u, a, k

(* What is read has been acknowledged before, and while a page is written  *)
(* none has been read.                                                     *)
LEMMA InOrder ==
    ASSUME RealPages, HostType, Progress
    PROVE  /\ Does("prog") => verified = {}
           /\ Does("read") => Current.page \in written
<1>1. message \in 1..Len(Session) /\ Len(Session) \in Nat
  BY SessionIs DEF HostType
<1>2. ASSUME Does("prog"), verified # {} PROVE FALSE
  <2>1. PICK k \in 1..message : Session[k].does = "read"
    BY <1>2 DEF Progress
  <2>2. k \in 1..Len(Session) /\ ~(message < k)
    BY <1>1, <2>1
  <2>3. message < k
    BY <1>1, <1>2, <2>1, <2>2, SessionIs DEF Does, Current
  <2>4. QED
    BY <2>2, <2>3
<1>3. ASSUME Does("read") PROVE Current.page \in written
  <2>1. PICK m \in 1..message-1 :
          Session[m].does = "prog" /\ Session[m].page = Session[message].page
    BY <1>1, <1>3, SessionIs DEF Does, Current
  <2>2. QED
    BY <2>1 DEF Progress, Current
<1>4. QED
  BY <1>2, <1>3

LEMMA ReadStill ==
    ASSUME ReadBack,
           UNCHANGED <<host, message, expected, verified, replies, flash, garbles>>
    PROVE  ReadBack'
<1>1. Current' = Current
  BY Same
<1>2. Told' = Told /\ Asked' = Asked /\ Does("read")' = Does("read")
  BY <1>1 DEF Told, Asked, Does
<1>3. \A i : Truthful(i)' = Truthful(i)
  BY <1>1, <1>2 DEF Truthful
<1>4. Telling' = Telling
  BY <1>1, <1>2, <1>3 DEF Telling, After
<1>5. QED
  BY <1>1, <1>2, <1>4 DEF ReadBack

(* The answer is what the flash holds. *)
LEMMA ReadAnswered ==
    ASSUME RealPages, TypeInv, Calm, garbles = 1, Modes, Does("read"),
           VerifySpace, Head(line) = CRC_EOP, UNCHANGED <<hostVars, counts>>
    PROVE  Telling'
<1> DEFINE p == Current.page
<1>0. CommandType /\ MemoryType /\ LineType /\ losses = 0
      /\ Current.reply \in Seq(Octets) /\ IsMessage(Current)
  BY Facts, CurrentIs
<1>1. /\ pc = "verify" /\ line # <<>>
      /\ ch # STK_PROG_PAGE => replies' = Append(replies, STK_INSYNC) \o Answer \o <<STK_OK>>
      /\ flash' = flash
  BY <1>0, VerifyStep
<1>2. End
  <2>1. Head(line) = line[1]
    BY <1>1, Facts, TailIs
  <2>2. ~Filling
    BY DEF Filling, Does
  <2>3. QED
    BY <1>0, <1>1, <2>1, <2>2
       DEF Modes, Off, Fresh, Rested, Begun, Arg, Writing, NoCommand, Slip,
           ShortArgs, ShortProg, Hungry, Spare, Hung
<1>3. /\ Asked /\ ch = STK_READ_PAGE /\ address = Home /\ length = 64 /\ args[3] = Flash
  BY <1>0, <1>2, Shape DEF End, Does
<1>4. p \in Pages /\ Len(Current.reply) = 66
  BY <1>0, Facts, ReplyShape DEF Does
<1>5. ch # STK_PROG_PAGE /\ Answer = Memory
  <2> DEFINE a == <<Parameter(args[1])>>
             b == <<0>>
             m == Memory
             s == Signature
             e == <<>>
  <2>1. Answer = CASE ch = STK_GET_PARAMETER -> a
                   [] ch = STK_UNIVERSAL -> b
                   [] ch = STK_READ_PAGE -> m
                   [] ch = STK_READ_SIGN -> s
                   [] OTHER -> e
    BY DEF Answer
  <2>2. /\ STK_READ_PAGE # STK_PROG_PAGE /\ STK_READ_PAGE # STK_GET_PARAMETER
        /\ STK_READ_PAGE # STK_UNIVERSAL /\ STK_READ_PAGE # STK_READ_SIGN
    BY DEF STK_READ_PAGE, STK_PROG_PAGE, STK_GET_PARAMETER, STK_UNIVERSAL, STK_READ_SIGN
  <2> HIDE DEF a, b, m, s, e
  <2>3. Answer = m /\ ch # STK_PROG_PAGE
    BY <1>3, <2>1, <2>2
  <2>4. QED
    BY <2>3 DEF m
<1>6. /\ Memory \in Seq(Octets) /\ Len(Memory) = 64
      /\ \A i \in 0..63 : Memory[i + 1] = flash[p][i]
  BY <1>3, <1>4, MemoryOf
<1>7. replies' = Append(<<>>, STK_INSYNC) \o Memory \o <<STK_OK>>
  BY <1>1, <1>3, <1>5 DEF Asked
<1>8. Len(replies') = 66 /\ \A i \in 0..63 : replies'[i + 2] = flash[p][i]
  BY <1>6, <1>7, Wrapped
<1>9. Current' = Current /\ expected' = Current.reply
  BY <1>3, Same DEF hostVars, Asked
<1>10. Told' = 0 /\ After(expected', Current'.reply, Told')
  <2>1. Told' = 0
    <3>1. Len(Current.reply) - Len(Current.reply) = 0
      BY <1>4
    <3>2. QED
      BY <1>9, <3>1 DEF Told
  <2>2. QED
    BY <1>0, <1>9, <2>1, AfterNone
<1>11. ASSUME NEW i \in 0..63 PROVE Truthful(i)'
  <2>1. i + 2 > 0 /\ (i + 2) - 0 = i + 2
    OBVIOUS
  <2>2. replies'[i + 2] = flash'[Current'.page][i]
    BY <1>1, <1>8, <1>9
  <2>3. QED
    BY <1>10, <2>1, <2>2 DEF Truthful
<1>12. Len(replies') = Len(expected')
  BY <1>4, <1>8, <1>9
<1>13. Told' \in Nat
  BY <1>10
<1>14. QED
  BY <1>10, <1>11, <1>12, <1>13 DEF Telling

(* The host takes the next byte of the answer. *)
LEMMA ReadReceived ==
    ASSUME RealPages, TypeInv, Calm, garbles = 1, ReadBack, Does("read"), Receive,
           expected' # <<>>
    PROVE  flash[Current.page] = Image[Current.page] \/ Telling'
<1> DEFINE p == Current.page
           s == Current.reply
           Right == flash[p] = Image[p]
<1> SUFFICES ASSUME ~Right PROVE Telling'
  OBVIOUS
<1> HIDE DEF Right
<1>1. /\ host = "wait" /\ replies # <<>> /\ Head(replies) = Head(expected)
      /\ replies' = Tail(replies) /\ expected' = Tail(expected)
      /\ UNCHANGED <<host, message, flash>>
  BY DEF Receive, Expects, memory
<1>2. Telling
  BY <1>1 DEF ReadBack, Right
<1>3. /\ After(expected, s, Told) /\ Len(replies) = Len(expected) /\ Told \in Nat
      /\ \A i \in 0..63 : Truthful(i)
  BY <1>1, <1>2 DEF Telling, Asked
<1>4. /\ replies \in Seq(Octets) /\ expected \in Seq(Octets) /\ s \in Seq(Octets)
      /\ expected # <<>> /\ Len(s) \in Nat /\ IsMessage(Current)
  BY <1>1, Facts, CurrentIs DEF HostType
<1>5. Current' = Current
  BY <1>1, Same
<1>6. /\ Head(expected) = s[Told + 1] /\ After(expected', s, Told + 1)
      /\ Len(expected') = Len(expected) - 1
  BY <1>1, <1>3, <1>4, AfterTail
<1>7. /\ Head(replies) = replies[1] /\ Len(replies) \in Nat \ {0}
      /\ Len(replies') = Len(replies) - 1
      /\ \A i \in 1..Len(replies) - 1 : replies'[i] = replies[i + 1]
  BY <1>1, <1>4, TailIs
<1>8. Told' = Told + 1 /\ Len(replies') = Len(expected')
  <2> DEFINE e == Len(expected)
             f == Len(expected')
             l == Len(s)
             r == Len(replies)
             q == Len(replies')
  <2>1. r = e /\ f = e - 1 /\ q = r - 1 /\ l \in Nat /\ r \in Nat
    BY <1>3, <1>4, <1>6, <1>7
  <2>2. Told = l - e /\ Told' = l - f
    BY <1>5 DEF Told
  <2> HIDE DEF e, f, l, r, q
  <2>3. Told' = Told + 1 /\ q = f
    BY <2>1, <2>2
  <2>4. QED
    BY <2>3 DEF q, f
<1>9. /\ \A i \in 0..63 : s[i + 2] = Image[p][i]
      /\ Len(s) = 66
  <2>1. PICK q \in Pages : IsRead(Current, q)
    BY <1>4 DEF IsMessage, IsOther, IsLoad, IsProg, Does
  <2>2. q = p /\ Len(s) = 66 /\ \A i \in 1..64 : s[i + 1] = Image[p][i - 1]
    BY <2>1 DEF IsRead
  <2>3. ASSUME NEW i \in 0..63 PROVE s[i + 2] = Image[p][i]
    <3>1. i + 1 \in 1..64 /\ (i + 1) + 1 = i + 2 /\ (i + 1) - 1 = i
      OBVIOUS
    <3>2. s[(i + 1) + 1] = Image[p][(i + 1) - 1]
      BY <2>2, <3>1
    <3>3. QED
      BY <3>1, <3>2
  <2>4. QED
    BY <2>2, <2>3
<1>10. ASSUME NEW i \in 0..63 PROVE Truthful(i)'
  <2> DEFINE f == flash[p][i]
  <2>1. flash'[Current'.page][i] = f /\ Image[Current'.page][i] = Image[p][i]
    BY <1>1, <1>5
  <2>2. CASE f = Image[p][i]
    BY <2>1, <2>2 DEF Truthful
  <2>3. CASE i + 2 > Told /\ replies[i + 2 - Told] = f
    <3> DEFINE t == Told
    <3>1. t \in Nat /\ (i + 2 = t + 1 \/ i + 2 > t + 1)
      BY <1>3, <2>3
    <3>2. CASE i + 2 = t + 1
      <4>1. i + 2 - t = 1
        BY <3>1, <3>2
      <4>2. replies[1] = f
        BY <2>3, <4>1
      <4>3. replies[1] = s[i + 2]
        BY <1>1, <1>6, <1>7, <3>2
      <4>4. f = Image[p][i]
        BY <1>9, <4>2, <4>3
      <4>5. QED
        BY <4>4, <2>2
    <3>3. CASE i + 2 > t + 1
      <4> DEFINE k == i + 2 - (t + 1)
                 r == Len(replies)
      <4>1. r = 66 - t
        BY <1>3, <1>9 DEF After
      <4>2. k \in 1..r-1 /\ k + 1 = i + 2 - t
        <5> HIDE DEF t, r
        <5>1. QED
          BY <3>1, <3>3, <4>1
      <4>3. replies'[k] = f
        BY <1>7, <2>3, <4>2
      <4>4. i + 2 > Told' /\ replies'[i + 2 - Told'] = f
        BY <1>8, <3>3, <4>3
      <4>5. QED
        BY <2>1, <4>4 DEF Truthful
    <3>4. QED
      BY <3>1, <3>2, <3>3
  <2>4. QED
    BY <1>3, <2>2, <2>3 DEF Truthful
<1>11. Told' \in Nat /\ After(expected', Current'.reply, Told')
  BY <1>3, <1>5, <1>6, <1>8
<1>12. QED
  BY <1>8, <1>10, <1>11 DEF Telling

LEMMA SameBytes ==
    ASSUME NEW f \in [0..63 -> Octets], NEW g \in [0..63 -> Octets],
           \A i \in 0..63 : f[i] = g[i]
    PROVE  f = g
  OBVIOUS

(* It has taken all, so that all were the flash's and as expected. *)
LEMMA ReadThrough ==
    ASSUME RealPages, TypeInv, Calm, garbles = 1, ReadBack, Does("read"), Receive,
           expected' = <<>>
    PROVE  flash[Current.page] = Image[Current.page]
<1> DEFINE p == Current.page
           s == Current.reply
           Right == flash[p] = Image[p]
<1> SUFFICES ASSUME ~Right PROVE FALSE
  OBVIOUS
<1> HIDE DEF Right
<1>1. host = "wait" /\ replies # <<>> /\ Head(replies) = Head(expected) /\ expected' = Tail(expected)
  BY DEF Receive, Expects
<1>2. Telling
  BY <1>1 DEF ReadBack, Right
<1>3. /\ After(expected, s, Told) /\ Len(replies) = Len(expected) /\ Told \in Nat
      /\ \A i \in 0..63 : Truthful(i)
  BY <1>1, <1>2 DEF Telling, Asked
<1>4. /\ replies \in Seq(Octets) /\ expected \in Seq(Octets) /\ s \in Seq(Octets)
      /\ expected # <<>> /\ IsMessage(Current) /\ MemoryType /\ p \in Pages
  BY <1>1, Facts, CurrentIs DEF HostType, Does
<1>5. Len(s) = 66
  BY <1>4, ReplyShape DEF Does
<1>6. Len(expected) = 1
  <2>1. Len(expected) \in Nat \ {0} /\ Len(expected') = Len(expected) - 1
    BY <1>1, <1>4, TailIs
  <2>2. Len(expected') = 0
    BY Empty
  <2>3. QED
    BY <2>1, <2>2
<1>7. Told = 65
  BY <1>5, <1>6 DEF Told
<1>8. \A i \in 0..63 : flash[p][i] = Image[p][i]
  <2>1. \A i \in 0..63 : ~(i + 2 > Told)
    BY <1>7
  <2>2. QED
    BY <1>3, <2>1 DEF Truthful
<1>9. flash[p] \in [0..63 -> Octets] /\ Image[p] \in [0..63 -> Octets]
  <2>1. PageSize - 1 = 63
    BY DEF RealPages
  <2>2. QED
    BY <1>4, <2>1, ImageAssumption DEF MemoryType, PageData, Octets
<1>10. Right
  BY <1>8, <1>9, SameBytes DEF Right
<1>11. QED
  BY <1>10

LEMMA ReadKept ==
    ASSUME RealPages, TypeInv, Calm, Calm', Progress, Owed, FlashInv, ReadBack, Modes,
           [Next]_vars
    PROVE  ReadBack'
<1> DEFINE Held == \A p \in verified : flash[p] = Image[p]
<1> SUFFICES ASSUME garbles' = 1 PROVE ReadBack'
  BY DEF ReadBack
<1>1. HostType /\ losses \in Nat /\ garbles \in Nat /\ losses + garbles <= 1 /\ outside = 0
  BY Facts DEF Calm
<1>2. /\ Does("prog") => verified = {}
      /\ Does("read") => Current.page \in written
  BY <1>1, InOrder
<1>3. CASE Garble
  <2>1. garbles = 0 /\ UNCHANGED <<host, message, written, verified, flash>>
    <3>1. garbles' = garbles + 1
      BY <1>3 DEF Garble
    <3>2. garbles = 0
      BY <1>1, <3>1
    <3>3. QED
      BY <1>3, <3>2 DEF Garble, memory, hostVars
  <2>2. \A p \in written : flash[p] = Image[p]
    BY <2>1 DEF FlashInv
  <2>3. verified \subseteq written
    BY DEF Progress
  <2>4. Current' = Current
    BY <2>1, Same
  <2>5. QED
    BY <1>2, <2>1, <2>2, <2>3, <2>4 DEF ReadBack, Does
<1>4. ASSUME Lose \/ Outside, garbles = 1 PROVE FALSE
  <2>1. CASE Lose
    <3>1. losses' = losses + 1 /\ garbles' = garbles /\ losses' + garbles' <= 1
      BY <2>1 DEF Lose, Calm
    <3>2. QED
      BY <1>1, <1>4, <3>1
  <2>2. CASE Outside
    BY <1>1, <2>2 DEF Outside, Calm
  <2>3. QED
    BY <1>4, <2>1, <2>2
<1>5. ASSUME ~Garble PROVE garbles = 1
  BY <1>5 DEF Next, Bootloader, Host, Begin, Send, Receive, GiveUp, Stale, Lose, Outside,
              vars, counts
<1>6. ASSUME garbles = 1
      PROVE  /\ Held
             /\ host = "wait" /\ Does("read") =>
                   flash[Current.page] = Image[Current.page] \/ Telling
  BY <1>6 DEF ReadBack
<1>7. CASE Bootloader /\ garbles = 1
  <2>1. /\ UNCHANGED <<hostVars, counts>>
        /\ UNCHANGED <<host, message, expected, written, verified, garbles>>
    BY <1>7 DEF Bootloader, hostVars, counts
  <2>2. Current' = Current
    BY <2>1, Same
  <2>3. CASE GetCommand \/ GetArgument \/ GetData \/ Unread
    <3>1. UNCHANGED <<replies, flash>>
      BY <2>3 DEF GetCommand, GetArgument, GetData, Unread, memory
    <3>2. QED
      BY <2>1, <3>1, ReadStill
  <2>4. CASE Start \/ Watchdog
    <3>1. UNCHANGED <<replies, flash>>
      BY <2>4 DEF Start, SoftwareReset, ResetItself, StartApp, StartLoop, Watchdog, Restart,
                  memory
    <3>2. QED
      BY <2>1, <3>1, ReadStill
  <2>5. CASE WritePage
    <3>1. Writing
      BY <2>5 DEF WritePage, Modes, Off, Fresh, Rested, Begun, Arg, Filling, End, NoCommand,
                  Slip, ShortArgs, ShortProg, Hungry, Hung, Spare
    <3>2. Does("prog") /\ ~Does("read") /\ verified = {}
      BY <1>2, <3>1 DEF Writing, Does
    <3>3. QED
      BY <2>1, <2>2, <3>2 DEF ReadBack, Does
  <2>6. CASE VerifySpace
    <3>1. /\ Head(line) # CRC_EOP => replies' = replies
          /\ flash' = flash
      BY <2>6, Facts, VerifyStep
    <3>2. CASE Head(line) # CRC_EOP
      BY <2>1, <3>1, <3>2, ReadStill
    <3>3. CASE Head(line) = CRC_EOP
      <4>1. Does("read") => Telling'
        BY <1>7, <2>1, <2>6, <3>3, ReadAnswered
      <4>2. QED
        BY <1>6, <1>7, <2>1, <2>2, <3>1, <4>1 DEF ReadBack, Does
    <3>4. QED
      BY <3>2, <3>3
  <2>7. QED
    BY <1>7, <2>3, <2>4, <2>5, <2>6 DEF Bootloader, Runs, Loop
<1>8. CASE Begin
  BY <1>8 DEF Begin, ReadBack
<1>9. CASE Send /\ garbles = 1
  <2>1. /\ host = "send" /\ host' = "wait" /\ expected' = Current.reply
        /\ UNCHANGED <<message, verified, flash, replies>>
    BY <1>9 DEF Send, memory
  <2>2. Current' = Current /\ Asked'
    <3>1. Current' = Current
      BY <2>1, Same
    <3>2. QED
      BY <2>1, <3>1 DEF Asked, Owed
  <2>3. Current.reply \in Seq(Octets) /\ Len(Current.reply) \in Nat
    BY <1>1, CurrentIs
  <2>4. Told' = 0
    BY <2>1, <2>2, <2>3 DEF Told
  <2>5. Telling'
    BY <2>1, <2>2, <2>3, <2>4, AfterNone DEF Telling
  <2>6. QED
    BY <1>6, <1>9, <2>1, <2>5 DEF ReadBack
<1>10. CASE (GiveUp \/ Stale) /\ garbles = 1
  <2>1. host' = "idle" /\ UNCHANGED <<verified, flash>>
    BY <1>10 DEF GiveUp, Stale, boot, memory, hostVars
  <2>2. QED
    BY <1>6, <1>10, <2>1 DEF ReadBack
<1>11. CASE Receive /\ garbles = 1
  <2>1. host = "wait" /\ flash' = flash
    BY <1>11 DEF Receive, memory
  <2>2. CASE expected' # <<>>
    <3>1. UNCHANGED <<host, message, verified>>
      BY <1>11, <2>2 DEF Receive
    <3>2. Current' = Current
      BY <3>1, Same
    <3>3. Does("read") => flash[Current.page] = Image[Current.page] \/ Telling'
      BY <1>11, <2>2, ReadReceived
    <3>4. QED
      BY <1>6, <1>11, <2>1, <3>1, <3>2, <3>3 DEF ReadBack, Does
  <2>3. CASE expected' = <<>>
    <3>1. host' \in {"send", "idle"} /\ verified' = verified \cup Done("read")
      BY <1>11, <2>3 DEF Receive
    <3>2. Does("read") => flash[Current.page] = Image[Current.page]
      BY <1>11, <2>3, ReadThrough
    <3>3. \A p \in Done("read") : flash[p] = Image[p]
      BY <3>2 DEF Done, Does
    <3>4. QED
      BY <1>6, <1>11, <2>1, <3>1, <3>3 DEF ReadBack
  <2>4. QED
    BY <2>2, <2>3
<1>12. CASE UNCHANGED vars
  <2>1. UNCHANGED <<host, message, expected, verified, replies, flash, garbles>>
    BY <1>12 DEF vars, hostVars, counts, boot, memory
  <2>2. QED
    BY <2>1, ReadStill
<1>13. QED
  BY <1>3, <1>4, <1>5, <1>7, <1>8, <1>9, <1>10, <1>11, <1>12 DEF Next, Host

----------------------------------------------------------------------------
(* Each step keeps all of it *)

LEMMA UploadInit == RealPages /\ Init => UploadInv
<1> SUFFICES ASSUME RealPages, Init PROVE UploadInv
  OBVIOUS
<1>1. /\ pc = "app" /\ rstfr = {} /\ flash = Old /\ stray = FALSE /\ host = "idle"
      /\ written = {} /\ verified = {} /\ message = 1 /\ garbles = 0
  BY DEF Init, BootInit
<1>2. CalmResets /\ Owed /\ FlashInv /\ ReadBack
  BY <1>1 DEF CalmResets, Owed, FlashInv, ReadBack
<1>3. Modes
  BY <1>1 DEF Modes, Off
<1>4. Progress
  BY <1>1 DEF Progress
<1>5. QED
  BY <1>2, <1>3, <1>4 DEF UploadInv

LEMMA CalmKept ==
    ASSUME RealPages, TypeInv, Calm, Calm', CalmResets, Owed, FlashInv, Modes, [Next]_vars
    PROVE  CalmResets' /\ Owed' /\ FlashInv' /\ Modes'
<1>1. Calm
  OBVIOUS
<1>2. CalmResets /\ Owed /\ FlashInv /\ Modes
  OBVIOUS
<1>3. CASE Bootloader
  <2>1. UNCHANGED <<hostVars, counts>>
    BY <1>3 DEF Bootloader
  <2>2. CASE GetCommand
    BY <1>1, <1>2, <2>1, <2>2, CommandKept
  <2>3. CASE GetArgument
    BY <1>1, <1>2, <2>1, <2>3, ArgumentKept
  <2>4. CASE GetData
    BY <1>1, <1>2, <2>1, <2>4, DataKept
  <2>5. CASE VerifySpace
    BY <1>1, <1>2, <2>1, <2>5, VerifyKept
  <2>6. CASE WritePage
    BY <1>1, <1>2, <2>1, <2>6, WriteKept
  <2>7. CASE Start \/ Watchdog \/ Unread
    BY <1>1, <1>2, <2>1, <2>7, RestartKept
  <2>8. QED
    BY <1>3, <2>2, <2>3, <2>4, <2>5, <2>6, <2>7 DEF Bootloader, Runs, Loop
<1>4. CASE Begin
  BY <1>1, <1>2, <1>4, BeginKept
<1>5. CASE Send
  BY <1>1, <1>2, <1>5, SendKept
<1>6. CASE Receive
  BY <1>1, <1>2, <1>6, ReceiveKept
<1>7. CASE GiveUp
  BY <1>1, <1>2, <1>7, GiveUpKept
<1>8. CASE Stale
  BY <1>1, <1>2, <1>8, StaleKept
<1>9. CASE Lose
  <2>1. losses' = losses + 1 /\ garbles' = garbles /\ losses' + garbles' <= 1
    BY <1>9 DEF Lose, Calm
  <2>2. losses \in Nat /\ garbles \in Nat
    BY Facts
  <2>3. losses = 0 /\ garbles = 0
    BY <2>1, <2>2
  <2>4. QED
    BY <1>1, <1>2, <1>9, <2>3, LoseKept
<1>10. CASE Garble
  <2>1. losses' = losses /\ garbles' = garbles + 1 /\ losses' + garbles' <= 1 /\ ~misled'
    BY <1>10 DEF Garble, Calm
  <2>2. losses \in Nat /\ garbles \in Nat
    BY Facts
  <2>3. losses = 0 /\ garbles = 0
    BY <2>1, <2>2
  <2>4. QED
    BY <1>1, <1>2, <1>10, <2>1, <2>3, GarbleKept
<1>11. CASE Outside
  <2>1. outside' = outside + 1 /\ outside = 0 /\ outside' = 0
    BY <1>11 DEF Outside, Calm
  <2>2. QED
    BY <2>1
<1>12. CASE UNCHANGED vars
  <2>1. /\ UNCHANGED <<pc, ch, args, address, length, buffer, flash, stray, rstfr>>
        /\ UNCHANGED <<line, replies, host, message, expected, written, losses, garbles>>
    BY <1>12 DEF vars, boot, command, memory, resets, hostVars, counts
  <2>2. Owed' /\ FlashInv' /\ CalmResets'
    BY <1>2, <2>1, Still DEF CalmResets
  <2>3. Current' = Current
    BY <2>1, Same
  <2>4. Clean' = Clean /\ Asked' = Asked /\ (\A w : Does(w)' = Does(w))
        /\ Home' = Home /\ Placed' = Placed
    BY <2>1, <2>3 DEF Clean, Asked, Does, Home, Placed
  <2>5. Modes'
    <3>1. (Off \/ Fresh \/ Rested)' = (Off \/ Fresh \/ Rested)
      BY <2>1, <2>3, <2>4 DEF Off, Fresh, Rested, After
    <3>2. (Begun \/ Arg \/ Filling)' = (Begun \/ Arg \/ Filling)
      BY <2>1, <2>3, <2>4 DEF Begun, Arg, Filling, Filled, After
    <3>3. (End \/ Writing \/ NoCommand)' = (End \/ Writing \/ NoCommand)
      BY <2>1, <2>3, <2>4 DEF End, Writing, NoCommand, After
    <3>4. (Slip \/ ShortArgs \/ ShortProg)' = (Slip \/ ShortArgs \/ ShortProg)
      BY <2>1, <2>3, <2>4 DEF Slip, ShortArgs, ShortProg
    <3>5. (Hungry \/ Hung \/ Spare)' = (Hungry \/ Hung \/ Spare)
      BY <2>1, <2>3, <2>4 DEF Hungry, Hung, Spare
    <3>6. QED
      BY <1>2, <3>1, <3>2, <3>3, <3>4, <3>5 DEF Modes
  <2>6. QED
    BY <2>2, <2>5
<1>13. QED
  BY <1>3, <1>4, <1>5, <1>6, <1>7, <1>8, <1>9, <1>10, <1>11, <1>12 DEF Next, Host

LEMMA UploadKept == RealPages /\ TypeInv /\ UploadInv /\ [Next]_vars => UploadInv'
<1> SUFFICES ASSUME RealPages, TypeInv, UploadInv, [Next]_vars PROVE UploadInv'
  OBVIOUS
<1>1. Progress'
  BY ProgressKept DEF UploadInv
<1>2. ASSUME Calm' PROVE CalmResets' /\ Owed' /\ FlashInv' /\ ReadBack' /\ Modes'
  <2>1. Calm
    BY <1>2, Earlier
  <2>2. Progress /\ CalmResets /\ Owed /\ FlashInv /\ ReadBack /\ Modes
    BY <2>1 DEF UploadInv
  <2>3. CalmResets' /\ Owed' /\ FlashInv' /\ Modes'
    BY <1>2, <2>1, <2>2, CalmKept
  <2>4. ReadBack'
    BY <1>2, <2>1, <2>2, ReadKept
  <2>5. QED
    BY <2>3, <2>4
<1>3. QED
  BY <1>1, <1>2 DEF UploadInv

LEMMA UploadInvHolds == RealPages => (Spec => [](TypeInv /\ UploadInv))
<1> SUFFICES ASSUME RealPages PROVE Spec => [](TypeInv /\ UploadInv)
  OBVIOUS
<1>1. Init => TypeInv /\ UploadInv
  BY TypeInit, UploadInit
<1>2. TypeInv /\ UploadInv /\ [Next]_vars => TypeInv' /\ UploadInv'
  BY TypeKept, UploadKept
<1>3. QED
  BY <1>1, <1>2, PTL DEF Spec

(* One byte lost: a page that is acknowledged is in the flash, none is torn *)
(* and nothing else is written (the loop of optiboot_x.c, 451-559).         *)
THEOREM AcknowledgedIsWritten == RealPages => (Spec => []AckedIsWritten)
<1>1. TypeInv /\ UploadInv => AckedIsWritten
  <2> SUFFICES ASSUME TypeInv, UploadInv, losses <= 1, garbles = 0, outside = 0
               PROVE  FlashInv
    BY DEF FlashInv, AckedIsWritten
  <2>1. losses \in Nat /\ (misled => garbles > 0)
    BY DEF TypeInv, HostType
  <2>2. losses + garbles <= 1 /\ ~misled
    BY <2>1
  <2>3. QED
    BY <2>2 DEF UploadInv, Calm
<1>2. QED
  BY <1>1, UploadInvHolds, PTL

(* One byte lost, or one changed that is neither a command nor an argument: *)
(* a page that the host has read back as it expected is in the flash        *)
(* (READ_PAGE, optiboot_x.c, 524-542).                                      *)
THEOREM VerifiedIsRight == RealPages => (Spec => []VerifiedIsImage)
<1>1. TypeInv /\ UploadInv => VerifiedIsImage
  <2> SUFFICES ASSUME TypeInv, UploadInv, Calm PROVE \A p \in verified : flash[p] = Image[p]
    BY DEF VerifiedIsImage, Calm
  <2>1. Progress /\ FlashInv /\ ReadBack
    BY DEF UploadInv
  <2>2. garbles = 0 \/ garbles = 1
    <3>1. losses \in Nat /\ garbles \in Nat /\ losses + garbles <= 1
      BY DEF TypeInv, HostType, Calm
    <3>2. QED
      BY <3>1
  <2>3. CASE garbles = 0
    BY <2>1, <2>3 DEF Progress, FlashInv
  <2>4. CASE garbles = 1
    BY <2>1, <2>4 DEF ReadBack
  <2>5. QED
    BY <2>2, <2>3, <2>4
<1>2. QED
  BY <1>1, UploadInvHolds, PTL
=============================================================================
