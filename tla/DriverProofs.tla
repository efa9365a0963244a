---------------------------- MODULE DriverProofs ----------------------------
(***************************************************************************)
(* Proof that the drivers of characters and of packets lose, repeat and    *)
(* reorder nothing, for rings and buffers of any length and any number of  *)
(* callers.                                                                *)
(*                                                                         *)
(* UaInv numbers what lies in the uart's rings from their first places on  *)
(* and counts, for each semaphore, what it has left and what its released  *)
(* callers may still take. TyInv says the same of the terminal's rings by  *)
(* their counts alone, with the characters the handlers have claimed from  *)
(* semaphores before they moved them. LbInv holds until a reader has had   *)
(* to wait; from then on the count runs ahead of the buffer.               *)
(*                                                                         *)
(* QeTxInv and QeRxInv say where in the Galileo driver's rings the packets *)
(* are by their numbers. EoInv does so for the ring of the other driver's  *)
(* sending, where the engine follows links instead (EngineOwns, EngineAt): *)
(* they lead from descriptors handed to it earlier to later ones, so a     *)
(* scan for the end of its list ends, and when the engine has stopped in   *)
(* front of a descriptor that was linked too late, the handler finds       *)
(* exactly the first one it has not done. EoInv holds until the handler    *)
(* restarts the engine with a descriptor it has finished.                  *)
(***************************************************************************)
EXTENDS Drivers, ServiceProofs

-----------------------------------------------------------------------------
(* The serial line (device/uart, device/uart-pl011) *)

UaCodes == Procs \X Int
UaCalls == [at : {"user", "write", "store", "read"}, todo : Seq(UaCodes)]
UaAt(at) == {p \in Procs : uaproc[p].at = at}

UaTypes ==
  /\ uaout \in [0 .. OBLEN - 1 -> UaCodes \cup {NoByte}] /\ uaostart \in 0 .. OBLEN - 1
  /\ uain \in [0 .. IBLEN - 1 -> Nat] /\ uaistart \in 0 .. IBLEN - 1
  /\ uaocount \in Nat /\ uaicount \in 0 .. IBLEN /\ uaoidle \in BOOLEAN /\ uatxirq \in BOOLEAN
  /\ uahold \in UaCodes \cup {NoByte} /\ ualine \subseteq UaCodes /\ uagiven \subseteq UaCodes
  /\ uarx \in Nat /\ uaarrived \in Nat /\ uataken \in Nat
  /\ uaproc \in [Procs -> UaCalls]

(* One process at a time hands over bytes; who waits came to wait *)
UaSemas ==
  /\ \A p \in Procs : uaproc[p].at = "write" => uainside = p
  /\ SemaSound(uaosema) /\ Waiters(uaosema) \subseteq UaAt("store")
  /\ SemaSound(uaisema) /\ Waiters(uaisema) \subseteq UaAt("read")

(* The semaphores are ahead of the buffers by those who have been through *)
UaCounted ==
  /\ OBLEN = uaocount + uaosema.n + Cardinality(UaAt("store"))
  /\ uaicount = uaisema.n + Cardinality(UaAt("read"))

(* Where the bytes are that were handed over *)
UaPlaced ==
  /\ uaoidle => uahold = NoByte /\ ~uatxirq
  /\ uatxirq => uahold = NoByte
  /\ \A b \in UaCodes : b \in uagiven <=>
       \/ b \in ualine \/ b = uahold
       \/ \E i \in 0 .. uaocount - 1 : b = uaout[(uaostart + i) % OBLEN]
  /\ \A i \in 0 .. uaocount - 1 : uaout[(uaostart + i) % OBLEN] \in UaCodes
  /\ \A i, j \in 0 .. uaocount - 1 :
       uaout[(uaostart + i) % OBLEN] = uaout[(uaostart + j) % OBLEN] => i = j

(* What a process has still to hand over is new: the bytes of its message  *)
(* or the echo of what it has read                                         *)
UaFresh(p, todo, given, taken) ==
  /\ \A k \in 1 .. Len(todo) : /\ todo[k][1] = p /\ todo[k] \notin given /\ todo[k][2] >= -taken
                               /\ todo[k][2] > 1 => UaByte(p, 1) \in given \cup {todo[1]}
  /\ \A k, l \in 1 .. Len(todo) : todo[k] = todo[l] => k = l

UaWrites ==
  /\ \A p \in Procs : uaproc[p].at \in {"write", "store"} =>
       uaproc[p].todo # <<>> /\ UaFresh(p, uaproc[p].todo, uagiven, uataken)
  /\ \A b \in uagiven : b[2] >= -uataken /\ (b[2] > 1 => UaByte(b[1], 1) \in uagiven)

(* The bytes that came in and were not read, in their order *)
UaReceived ==
  /\ uarx \in {0, uaarrived} /\ uataken <= uaarrived /\ (uarx # 0 => uataken < uaarrived)
  /\ \A i \in 0 .. uaicount - 1 : LET b == uain[(uaistart + i) % IBLEN] IN
       /\ b > uataken /\ b <= uaarrived /\ (uarx # 0 => b < uaarrived)
       /\ \A j \in 0 .. i - 1 : uain[(uaistart + j) % IBLEN] < b

UaInv == UaTypes /\ UaSemas /\ UaCounted /\ UaPlaced /\ UaWrites /\ UaReceived

\* A process that goes on at another point of its call (uartwrite.c, uartread.c).
LEMMA UaGoes ==
  ASSUME uaproc \in [Procs -> UaCalls], NEW p \in Procs,
         NEW at \in {"user", "write", "store", "read"}, NEW todo \in Seq(UaCodes), UaGoto(p, at, todo)
  PROVE  /\ uaproc' \in [Procs -> UaCalls] /\ uaproc'[p].at = at /\ uaproc'[p].todo = todo
         /\ \A q \in Procs : q # p => uaproc'[q] = uaproc[q]
         /\ uainside' = (IF at = "write" THEN p ELSE NoProc)
<1> DEFINE c == [at |-> at, todo |-> todo]
<1>1. c \in UaCalls /\ c.at = at /\ c.todo = todo
  BY DEF UaCalls
<1>2. uaproc' = [uaproc EXCEPT ![p] = c] /\ uainside' = (IF at = "write" THEN p ELSE NoProc)
  BY DEF UaGoto
<1> HIDE DEF c
<1> QED  BY <1>1, <1>2

\* A byte that is handed over is not the empty register (uarthwputc.c).
LEMMA CodeIsByte == \A b \in UaCodes : b # NoByte
<1> TAKE b \in UaCodes
<1>1. PICK a \in Procs, n \in Int : b = <<a, n>>
  BY DEF UaCodes
<1>2. Len(<<a, n>>) = 2 /\ Len(NoByte) = 0
  BY DEF NoByte
<1> QED  BY <1>1, <1>2

\* uartInit: nothing is handed over and nothing is in a buffer (uartinit.c).
LEMMA UaInitially == UaInit => UaInv
<1> SUFFICES ASSUME UaInit  PROVE UaInv
  OBVIOUS
<1> USE DEF UaInit
<1>1. {OBLEN, IBLEN} \subseteq Nat \ {0}
  BY UartAssumption
<1>2. UaTypes
  <2>1. <<>> \in Seq(UaCodes)
    OBVIOUS
  <2>2. uaproc \in [Procs -> UaCalls]
    BY <2>1 DEF UaCalls
  <2>3. uaostart \in 0 .. OBLEN - 1 /\ uaistart \in 0 .. IBLEN - 1 /\ uaicount \in 0 .. IBLEN
    BY <1>1
  <2>4. uaout \in [0 .. OBLEN - 1 -> UaCodes \cup {NoByte}] /\ uain \in [0 .. IBLEN - 1 -> Nat]
    OBVIOUS
  <2> QED  BY <2>2, <2>3, <2>4 DEF UaTypes
<1>3. UaAt("store") = {} /\ UaAt("read") = {} /\ \A p \in Procs : uaproc[p].at = "user"
  BY DEF UaAt
<1>4. /\ SemaSound(uaosema) /\ Waiters(uaosema) = {} /\ uaosema.n = OBLEN
      /\ SemaSound(uaisema) /\ Waiters(uaisema) = {} /\ uaisema.n = 0
  BY <1>1, SemaIsSound
<1>5. Cardinality(UaAt("store")) = 0 /\ Cardinality(UaAt("read")) = 0
  BY <1>3, FS_EmptySet
<1>6. UaSemas /\ UaCounted
  BY <1>1, <1>3, <1>4, <1>5 DEF UaSemas, UaCounted
<1>7. UaPlaced
  <2>1. \A i \in 0 .. uaocount - 1 : FALSE
    OBVIOUS
  <2> QED  BY <2>1, CodeIsByte DEF UaPlaced
<1>8. UaWrites /\ UaReceived
  BY <1>3 DEF UaWrites, UaReceived
<1> QED  BY <1>2, <1>6, <1>7, <1>8 DEF UaInv

\* What a process that runs does to the points processes are at (uartwrite.c, uartread.c).
LEMMA UaMoves ==
  ASSUME UaTypes, UaSemas, NEW p \in Procs, NEW from, UaRuns(p, from),
         NEW at \in {"user", "write", "store", "read"}, NEW todo \in Seq(UaCodes), UaGoto(p, at, todo)
  PROVE  /\ uaproc' \in [Procs -> UaCalls] /\ uaproc'[p].at = at /\ uaproc'[p].todo = todo
         /\ \A q \in Procs : q # p => uaproc'[q] = uaproc[q]
         /\ \A q \in Procs : uaproc'[q].at = "write" => uainside' = q
         /\ \A x : UaAt(x)' = IF x = at THEN UaAt(x) \cup {p} ELSE UaAt(x) \ {p}
         /\ \A x : /\ Cardinality(UaAt(x)) \in Nat /\ Cardinality(UaAt(x)') \in Nat
                   /\ Cardinality(UaAt(x)')
                        = Cardinality(UaAt(x)) + (IF x = at THEN 1 ELSE 0) - (IF x = from THEN 1 ELSE 0)
<1>1. /\ uaproc' \in [Procs -> UaCalls] /\ uaproc'[p].at = at /\ uaproc'[p].todo = todo
      /\ \A q \in Procs : q # p => uaproc'[q] = uaproc[q]
      /\ uainside' = (IF at = "write" THEN p ELSE NoProc)
  BY UaGoes DEF UaTypes
<1>2. uaproc[p].at = from /\ uainside \in {p, NoProc}
  BY DEF UaRuns
<1>3. \A q \in Procs : uaproc'[q].at = "write" => uainside' = q
  BY <1>1, <1>2, SemasAssumption DEF UaSemas
<1>4. \A x : UaAt(x)' = IF x = at THEN UaAt(x) \cup {p} ELSE UaAt(x) \ {p}
  BY <1>1 DEF UaAt
<1>5. ASSUME NEW x
      PROVE  /\ Cardinality(UaAt(x)) \in Nat /\ Cardinality(UaAt(x)') \in Nat
             /\ Cardinality(UaAt(x)')
                  = Cardinality(UaAt(x)) + (IF x = at THEN 1 ELSE 0) - (IF x = from THEN 1 ELSE 0)
  <2>1. PICK F : F = UaAt(x)
    OBVIOUS
  <2>2. PICK G : G = UaAt(x)'
    OBVIOUS
  <2>3. /\ F \subseteq Procs /\ G \subseteq Procs /\ (p \in F <=> x = from) /\ (p \in G <=> x = at)
        /\ \A q \in Procs : q # p => (q \in F <=> q \in G)
    BY <1>1, <1>2, <2>1, <2>2 DEF UaAt
  <2>4. /\ Cardinality(F) \in Nat /\ Cardinality(G) \in Nat
        /\ Cardinality(G) = Cardinality(F) + (IF p \in G THEN 1 ELSE 0) - (IF p \in F THEN 1 ELSE 0)
    BY <2>3, CountMoves
  <2> QED  BY <2>1, <2>2, <2>3, <2>4
<1> QED  BY <1>1, <1>3, <1>4, <1>5

\* What is new stays new while only other bytes are handed over and more is read.
LEMMA UaStaysFresh ==
  ASSUME NEW p, NEW todo \in Seq(UaCodes), NEW given, NEW taken \in Nat, UaFresh(p, todo, given, taken),
         NEW more, NEW later \in Nat, later >= taken, \A b \in more : b[1] # p
  PROVE  UaFresh(p, todo, given \cup more, later)
<1>1. \A k \in 1 .. Len(todo) : todo[k] \in UaCodes /\ todo[k][2] \in Int
  BY ElementOfSeq DEF UaCodes
<1>2. \A k, l \in 1 .. Len(todo) : todo[k] = todo[l] => k = l
  BY DEF UaFresh
<1>3. ASSUME NEW k \in 1 .. Len(todo)
      PROVE  /\ todo[k][1] = p /\ todo[k] \notin given \cup more
             /\ todo[k][2] > 1 => UaByte(p, 1) \in (given \cup more) \cup {todo[1]}
  BY <1>3 DEF UaFresh
<1>4. ASSUME NEW k \in 1 .. Len(todo)  PROVE todo[k][2] >= -later
  <2>1. PICK v \in Int : v = todo[k][2]
    BY <1>1
  <2>2. v >= -taken
    BY <2>1 DEF UaFresh
  <2>3. v >= -later
    BY <2>2
  <2> QED  BY <2>1, <2>3
<1> QED  BY <1>2, <1>3, <1>4 DEF UaFresh

\* A process goes on at another point without handing a byte over (uartwrite.c, uartread.c).
LEMMA UaKeepsBytes ==
  ASSUME UaTypes, UaWrites, NEW p \in Procs,
         uaproc' \in [Procs -> UaCalls], \A q \in Procs : q # p => uaproc'[q] = uaproc[q],
         uagiven' = uagiven, uataken' \in Nat, uataken' >= uataken,
         uaproc'[p].at \in {"write", "store"} =>
           uaproc'[p].todo # <<>> /\ UaFresh(p, uaproc'[p].todo, uagiven, uataken')
  PROVE  UaWrites'
<1>1. ASSUME NEW q \in Procs, uaproc'[q].at \in {"write", "store"}
      PROVE  uaproc'[q].todo # <<>> /\ UaFresh(q, uaproc'[q].todo, uagiven', uataken')
  <2>1. CASE q = p
    BY <1>1, <2>1
  <2>2. CASE q # p
    <3>1. /\ uaproc[q].todo # <<>> /\ UaFresh(q, uaproc[q].todo, uagiven, uataken)
          /\ uaproc'[q].todo = uaproc[q].todo /\ uaproc[q].todo \in Seq(UaCodes)
      BY <1>1, <2>2 DEF UaWrites, UaTypes, UaCalls
    <3>2. UaFresh(q, uaproc[q].todo, uagiven \cup {}, uataken')
      BY <3>1, UaStaysFresh DEF UaTypes
    <3>3. uagiven \cup {} = uagiven'
      OBVIOUS
    <3> QED  BY <3>1, <3>2, <3>3
  <2> QED  BY <2>1, <2>2
<1>2. \A b \in uagiven' : b[2] >= -uataken' /\ (b[2] > 1 => UaByte(b[1], 1) \in uagiven')
  <2>1. \A b \in uagiven : b[2] \in Int
    BY DEF UaTypes, UaCodes
  <2> QED  BY <2>1 DEF UaWrites, UaTypes
<1> QED  BY <1>1, <1>2 DEF UaWrites

\* uartWrite hands over the first byte that it has left (uartwrite.c, uartputc.c).
LEMMA UaHandsOver ==
  ASSUME UaTypes, UaSemas, UaWrites, NEW p \in Procs, NEW from \in {"write", "store"}, UaRuns(p, from),
         UaAccept(p), uataken' = uataken
  PROVE  /\ Head(uaproc[p].todo) \in UaCodes /\ Head(uaproc[p].todo) \notin uagiven
         /\ uagiven' = uagiven \cup {Head(uaproc[p].todo)}
         /\ UaWrites'
         /\ \E at \in {"user", "write"}, todo \in Seq(UaCodes) : UaGoto(p, at, todo)
<1> DEFINE todo == uaproc[p].todo
           b == Head(todo)
<1>1. todo # <<>> /\ todo \in Seq(UaCodes) /\ UaFresh(p, todo, uagiven, uataken)
  BY DEF UaTypes, UaCalls, UaWrites, UaRuns
<1>2. /\ Len(todo) \in Nat \ {0} /\ b = todo[1] /\ Tail(todo) \in Seq(UaCodes)
      /\ Len(Tail(todo)) = Len(todo) - 1
      /\ \A k \in 1 .. Len(todo) - 1 : Tail(todo)[k] = todo[k + 1]
  <2> HIDE DEF todo
  <2> QED  BY <1>1
<1>3. /\ b \in UaCodes /\ b \notin uagiven /\ b[1] = p /\ b[2] \in Int /\ b[2] >= -uataken
      /\ b[2] > 1 => UaByte(p, 1) \in uagiven
  <2>1. todo[1] \in UaCodes
    BY <1>1, <1>2, ElementOfSeq
  <2>2. 1 \in 1 .. Len(todo)
    BY <1>2
  <2> HIDE DEF todo
  <2>3. b \in UaCodes /\ b \notin uagiven /\ b[1] = p /\ b[2] \in Int /\ b[2] >= -uataken
    BY <1>1, <1>2, <2>1, <2>2 DEF UaFresh, UaCodes
  <2>4. b[2] > 1 => UaByte(p, 1) \in uagiven \cup {b}
    BY <1>1, <1>2, <2>2 DEF UaFresh
  <2>5. b[2] > 1 => b # UaByte(p, 1)
    BY DEF UaByte
  <2> QED  BY <2>3, <2>4, <2>5
<1>4. uagiven' = uagiven \cup {b}
  BY DEF UaAccept
<1>5. PICK at \in {"user", "write"}, t \in Seq(UaCodes) :
        UaGoto(p, at, t) /\ (at = "write" => t = Tail(todo) /\ Len(todo) # 1)
  <2>1. CASE Len(todo) = 1
    <3>1. UaGoto(p, "user", <<>>) /\ <<>> \in Seq(UaCodes)
      BY <2>1 DEF UaAccept, UaReturn
    <3> QED  BY <3>1
  <2>2. CASE Len(todo) # 1
    <3>1. UaGoto(p, "write", Tail(todo))
      BY <2>2 DEF UaAccept
    <3> QED  BY <1>2, <2>2, <3>1
  <2> QED  BY <2>1, <2>2
<1>6. /\ uaproc' \in [Procs -> UaCalls] /\ uaproc'[p].at = at /\ uaproc'[p].todo = t
      /\ \A q \in Procs : q # p => uaproc'[q] = uaproc[q]
  BY <1>5, UaMoves
<1> HIDE DEF todo, b
<1>7. at = "write" => t # <<>> /\ UaFresh(p, t, uagiven \cup {b}, uataken)
  <2> SUFFICES ASSUME at = "write"  PROVE t # <<>> /\ UaFresh(p, t, uagiven \cup {b}, uataken)
    OBVIOUS
  <2>0. t = Tail(todo) /\ Len(t) = Len(todo) - 1 /\ Len(todo) > 1 /\ Len(todo) \in Nat
    <3>1. t = Tail(todo) /\ Len(todo) # 1
      BY <1>5, Zenon
    <3> QED  BY <1>2, <3>1
  <2>1. t # <<>> /\ Len(t) = Len(todo) - 1
        /\ \A k \in 1 .. Len(t) : t[k] = todo[k + 1] /\ k + 1 \in 1 .. Len(todo)
    <3>1. \A k \in 1 .. Len(t) : k \in 1 .. Len(todo) - 1 /\ k + 1 \in 1 .. Len(todo)
      BY <2>0
    <3>2. \A k \in 1 .. Len(t) : t[k] = todo[k + 1]
      BY <1>2, <2>0, <3>1
    <3>3. t # <<>>
      <4>1. Len(t) # 0
        BY <2>0
      <4> QED  BY <4>1
    <3> QED  BY <2>0, <3>1, <3>2, <3>3
  <2>2. \A k \in 1 .. Len(t) : t[k] # b
    BY <1>1, <1>2, <2>1 DEF UaFresh
  <2>3. ASSUME NEW k \in 1 .. Len(t)
        PROVE  /\ t[k][1] = p /\ t[k] \notin uagiven \cup {b} /\ t[k][2] >= -uataken
    <3>1. t[k] = todo[k + 1] /\ k + 1 \in 1 .. Len(todo)
      BY <2>1
    <3>2. \A l \in 1 .. Len(todo) : todo[l][1] = p /\ todo[l] \notin uagiven /\ todo[l][2] >= -uataken
      BY <1>1 DEF UaFresh
    <3> QED  BY <2>2, <3>1, <3>2
  <2>4. ASSUME NEW k \in 1 .. Len(t), t[k][2] > 1
        PROVE  UaByte(p, 1) \in (uagiven \cup {b}) \cup {t[1]}
    BY <1>1, <1>2, <2>1, <2>4 DEF UaFresh
  <2>5. \A k, l \in 1 .. Len(t) : t[k] = t[l] => k = l
    BY <1>1, <1>2, <2>1 DEF UaFresh
  <2> QED  BY <2>1, <2>3, <2>4, <2>5 DEF UaFresh
<1>8. ASSUME NEW q \in Procs, uaproc'[q].at \in {"write", "store"}
      PROVE  uaproc'[q].todo # <<>> /\ UaFresh(q, uaproc'[q].todo, uagiven', uataken')
  <2>1. CASE q = p
    BY <1>4, <1>5, <1>6, <1>7, <1>8, <2>1
  <2>2. CASE q # p
    <3>1. /\ uaproc[q].todo # <<>> /\ UaFresh(q, uaproc[q].todo, uagiven, uataken)
          /\ uaproc'[q].todo = uaproc[q].todo /\ uaproc[q].todo \in Seq(UaCodes)
      BY <1>6, <1>8, <2>2 DEF UaWrites, UaTypes, UaCalls
    <3>2. PICK more : more = {b}
      OBVIOUS
    <3>3. \A c \in more : c[1] # q
      BY <1>3, <2>2, <3>2
    <3>4. uataken \in Nat /\ uataken >= uataken
      BY DEF UaTypes
    <3>5. UaFresh(q, uaproc[q].todo, uagiven \cup more, uataken)
      BY <3>1, <3>3, <3>4, UaStaysFresh
    <3> QED  BY <1>4, <3>1, <3>2, <3>5
  <2> QED  BY <2>1, <2>2
<1>9. \A c \in uagiven' : c[2] >= -uataken' /\ (c[2] > 1 => UaByte(c[1], 1) \in uagiven')
  BY <1>3, <1>4 DEF UaWrites
<1>10. UaWrites'
  BY <1>8, <1>9 DEF UaWrites
<1> QED  BY <1>3, <1>4, <1>5, <1>10 DEF todo, b

\* A byte goes into the buffer behind the others (uartputc.c, uartwrite.c).
LEMMA UaStoresByte ==
  ASSUME UaTypes, UaPlaced, NEW b \in UaCodes, b \notin uagiven, uaocount < OBLEN,
         uaout' = [uaout EXCEPT ![(uaostart + uaocount) % OBLEN] = b], uaocount' = uaocount + 1,
         uagiven' = uagiven \cup {b}, uaostart' = uaostart, uaoidle' = uaoidle, uahold' = uahold,
         uatxirq' = uatxirq, ualine' = ualine
  PROVE  UaPlaced' /\ uaout' \in [0 .. OBLEN - 1 -> UaCodes \cup {NoByte}]
<1>1. /\ OBLEN \in Nat \ {0} /\ uaostart \in 0 .. OBLEN - 1 /\ uaocount \in 0 .. OBLEN - 1
      /\ DOMAIN uaout = 0 .. OBLEN - 1 /\ uaout = [i \in 0 .. OBLEN - 1 |-> uaout[i]]
  BY UartAssumption DEF UaTypes
<1>2. /\ (uaostart + uaocount) % OBLEN \in 0 .. OBLEN - 1
      /\ uaout'[(uaostart + uaocount) % OBLEN] = b
      /\ \A i \in 0 .. uaocount - 1 : uaout'[(uaostart + i) % OBLEN] = uaout[(uaostart + i) % OBLEN]
  <2>1. PICK m : m = (uaostart + uaocount) % OBLEN
    OBVIOUS
  <2>2. /\ m \in 0 .. OBLEN - 1
        /\ \A i \in 0 .. uaocount - 1 :
             (uaostart + i) % OBLEN \in 0 .. OBLEN - 1 /\ (uaostart + i) % OBLEN # m
    <3>1. PICK s \in Int, n \in 0 .. OBLEN - 1 : s = uaostart /\ n = uaocount
      BY <1>1
    <3>2. /\ (s + n) % OBLEN \in 0 .. OBLEN - 1
          /\ \A i \in 0 .. n - 1 :
               (s + i) % OBLEN \in 0 .. OBLEN - 1 /\ (s + i) % OBLEN # (s + n) % OBLEN
      BY <1>1, RingPut
    <3> QED  BY <2>1, <3>1, <3>2, Zenon
  <2>3. uaout'[m] = b /\ \A k \in 0 .. OBLEN - 1 : k # m => uaout'[k] = uaout[k]
    BY <1>1, <2>1, <2>2
  <2> QED  BY <2>1, <2>2, <2>3, Zenon
<1>3. uaout' \in [0 .. OBLEN - 1 -> UaCodes \cup {NoByte}]
  BY <1>2 DEF UaTypes
<1> DEFINE at(i) == uaout[(uaostart + i) % OBLEN]
           then(i) == uaout'[(uaostart + i) % OBLEN]
<1>4. then(uaocount) = b /\ \A i \in 0 .. uaocount - 1 : then(i) = at(i)
  BY <1>2
<1>5. /\ \A c \in UaCodes : c \in uagiven <=>
           c \in ualine \/ c = uahold \/ \E i \in 0 .. uaocount - 1 : c = at(i)
      /\ \A i \in 0 .. uaocount - 1 : at(i) \in UaCodes
      /\ \A i, j \in 0 .. uaocount - 1 : at(i) = at(j) => i = j
  BY DEF UaPlaced
<1> HIDE DEF at, then
<1>6. \A i \in 0 .. uaocount' - 1 : i \in 0 .. uaocount - 1 \/ i = uaocount
  BY <1>1
<1>7. \A i \in 0 .. uaocount - 1 : i \in 0 .. uaocount' - 1 /\ at(i) \in uagiven
  BY <1>1, <1>5
<1>8. /\ \A c \in UaCodes : c \in uagiven' <=>
           c \in ualine' \/ c = uahold' \/ \E i \in 0 .. uaocount' - 1 : c = then(i)
      /\ \A i \in 0 .. uaocount' - 1 : then(i) \in UaCodes
  <2>1. uaocount \in 0 .. uaocount' - 1
    BY <1>1
  <2> QED  BY <1>4, <1>5, <1>6, <1>7, <2>1
<1>9. \A i, j \in 0 .. uaocount' - 1 : then(i) = then(j) => i = j
  BY <1>4, <1>5, <1>6, <1>7
<1> QED  BY <1>3, <1>8, <1>9 DEF UaPlaced, then

\* What uartWrite still has to say when a byte is taken (uartwrite.c).
UaOutKept == UaTypes' /\ UaSemas' /\ UaCounted' /\ UaPlaced' /\ UaWrites'

\* The buffer of received bytes is as it was (uartwrite.c).
LEMMA UaInputRests ==
  ASSUME UaInv, UNCHANGED uainvars, UaOutKept
  PROVE  UaInv'
BY DEF UaInv, UaOutKept, UaReceived, uainvars

\* uartWrite, the transmitter being idle (uartwrite.c).
LEMMA UaWriteDirectKeeps ==
  ASSUME UaInv, NEW p \in Procs, UaWriteDirect(p)
  PROVE  UaInv'
<1> DEFINE b == Head(uaproc[p].todo)
<1>1. /\ UaTypes /\ UaSemas /\ UaCounted /\ UaPlaced /\ UaWrites /\ UaRuns(p, "write")
      /\ UaAccept(p) /\ uaoidle /\ uahold' = b /\ uaoidle' = FALSE /\ UNCHANGED uainvars
      /\ UNCHANGED <<uaout, uaostart, uaocount, uaosema, uatxirq, ualine>>
  BY DEF UaInv, UaWriteDirect
<1>2. uataken' = uataken /\ uaisema' = uaisema /\ uaicount' = uaicount /\ uain' = uain
      /\ uaistart' = uaistart /\ uarx' = uarx /\ uaarrived' = uaarrived
  BY <1>1 DEF uainvars
<1>3. b \in UaCodes /\ b \notin uagiven /\ uagiven' = uagiven \cup {b} /\ UaWrites'
  BY <1>1, <1>2, UaHandsOver
<1>4. PICK at \in {"user", "write"}, t \in Seq(UaCodes) : UaGoto(p, at, t)
  BY <1>1, <1>2, UaHandsOver
<1>5. /\ uaproc' \in [Procs -> UaCalls] /\ \A q \in Procs : uaproc'[q].at = "write" => uainside' = q
      /\ \A x \in {"store", "read"} :
           /\ UaAt(x) \subseteq UaAt(x)'
           /\ Cardinality(UaAt(x)') = Cardinality(UaAt(x)) /\ Cardinality(UaAt(x)) \in Nat
  <2>1. \A x : /\ UaAt(x)' = IF x = at THEN UaAt(x) \cup {p} ELSE UaAt(x) \ {p}
               /\ Cardinality(UaAt(x)) \in Nat
               /\ Cardinality(UaAt(x)')
                    = Cardinality(UaAt(x)) + (IF x = at THEN 1 ELSE 0) - (IF x = "write" THEN 1 ELSE 0)
    BY <1>1, <1>4, UaMoves
  <2>2. \A x \in {"store", "read"} : p \notin UaAt(x)
    BY <1>1 DEF UaAt, UaRuns
  <2>3. \A x \in {"store", "read"} : x # at /\ x # "write"
    OBVIOUS
  <2>4. uaproc' \in [Procs -> UaCalls] /\ \A q \in Procs : uaproc'[q].at = "write" => uainside' = q
    BY <1>1, <1>4, UaMoves
  <2> QED  BY <2>1, <2>2, <2>3, <2>4
<1> HIDE DEF b
<1>6. UaTypes'
  BY <1>1, <1>2, <1>3, <1>5 DEF UaTypes
<1>7. UaSemas' /\ UaCounted'
  BY <1>1, <1>2, <1>5 DEF UaSemas, UaCounted
<1>8. UaPlaced'
  <2>1. uahold = NoByte /\ ~uatxirq /\ b # NoByte
    BY <1>1, <1>3, CodeIsByte DEF UaPlaced
  <2> QED  BY <1>1, <1>3, <2>1, CodeIsByte DEF UaPlaced
<1> QED  BY <1>1, <1>3, <1>6, <1>7, <1>8, UaInputRests DEF UaOutKept

\* Where processes are is untouched (uartintr.c, uartcontrol.c).
LEMMA UaStill ==
  ASSUME UNCHANGED <<uaproc, uainside>>
  PROVE  \A x : UaAt(x)' = UaAt(x)
BY DEF UaAt

\* A program calls uartWrite for the first time: all its bytes are new (uartwrite.c).
LEMMA UaMessageFresh ==
  ASSUME UaTypes, UaWrites, NEW p \in Procs, UaByte(p, 1) \notin uagiven
  PROVE  /\ UaMessage(p) \in Seq(UaCodes) /\ UaMessage(p) # <<>>
         /\ UaFresh(p, UaMessage(p), uagiven, uataken)
<1>1. UaLen \in Nat \ {0}
  BY UartAssumption
<1>2. \A n \in 1 .. UaLen : UaByte(p, n) = <<p, n>> /\ UaByte(p, n) \in UaCodes
  BY DEF UaByte, UaCodes
<1>3. /\ UaMessage(p) = [n \in 1 .. UaLen |-> UaByte(p, n)]
      /\ UaMessage(p) \in [1 .. UaLen -> UaCodes] /\ UaMessage(p) \in Seq(UaCodes)
  BY <1>1, <1>2, IsASeq DEF UaMessage
<1>4. /\ Len(UaMessage(p)) = UaLen /\ \A n \in 1 .. UaLen : UaMessage(p)[n] = <<p, n>>
  BY <1>1, <1>2, <1>3
<1> DEFINE t == UaMessage(p)
<1> HIDE DEF t
<1>5. Len(t) = UaLen /\ \A n \in 1 .. UaLen : t[n] = <<p, n>>
  BY <1>4 DEF t
<1>6. ASSUME NEW k \in 1 .. UaLen
      PROVE  t[k][1] = p /\ t[k][2] = k /\ t[k] \notin uagiven /\ t[k][2] >= -uataken
  <2>1. t[k] = <<p, k>> /\ k \in Nat /\ k >= 1 /\ -uataken \in Int /\ -uataken <= 0
    BY <1>5 DEF UaTypes
  <2>2. <<p, k>>[1] = p /\ <<p, k>>[2] = k
    OBVIOUS
  <2>3. t[k] \notin uagiven
    <3>1. CASE k = 1
      BY <2>1, <3>1 DEF UaByte
    <3>2. CASE k > 1
      <4>1. \A b \in uagiven : b[2] > 1 => UaByte(b[1], 1) \in uagiven
        BY DEF UaWrites
      <4> QED  BY <2>1, <2>2, <3>2, <4>1
    <3> QED  BY <3>1, <3>2
  <2> QED  BY <2>1, <2>2, <2>3
<1>7. t[1] = UaByte(p, 1)
  BY <1>1, <1>5 DEF UaByte
<1>8. t # <<>>
  BY <1>1, <1>5
<1>9. UaFresh(p, t, uagiven, uataken)
  BY <1>5, <1>6, <1>7 DEF UaFresh
<1> QED  BY <1>3, <1>8, <1>9 DEF t

LEMMA UaWriteStartKeeps ==
  ASSUME UaInv, NEW p \in Procs, UaWriteStart(p)
  PROVE  UaInv'
<1>1. /\ UaTypes /\ UaSemas /\ UaCounted /\ UaPlaced /\ UaWrites /\ UaRuns(p, "user")
      /\ UaByte(p, 1) \notin uagiven /\ UaGoto(p, "write", UaMessage(p))
      /\ UNCHANGED uaoutvars /\ UNCHANGED uainvars
  BY DEF UaInv, UaWriteStart
<1>2. UaMessage(p) \in Seq(UaCodes) /\ UaMessage(p) # <<>> /\ UaFresh(p, UaMessage(p), uagiven, uataken)
  BY <1>1, UaMessageFresh
<1> DEFINE t == UaMessage(p)
<1> HIDE DEF t
<1>3. t \in Seq(UaCodes) /\ t # <<>> /\ UaFresh(p, t, uagiven, uataken) /\ UaGoto(p, "write", t)
  BY <1>1, <1>2 DEF t
<1>4. /\ uaproc' \in [Procs -> UaCalls] /\ uaproc'[p].at = "write" /\ uaproc'[p].todo = t
      /\ \A q \in Procs : q # p => uaproc'[q] = uaproc[q]
      /\ \A q \in Procs : uaproc'[q].at = "write" => uainside' = q
      /\ \A x : UaAt(x)' = IF x = "write" THEN UaAt(x) \cup {p} ELSE UaAt(x) \ {p}
      /\ \A x : /\ Cardinality(UaAt(x)) \in Nat /\ Cardinality(UaAt(x)') \in Nat
                /\ Cardinality(UaAt(x)')
                     = Cardinality(UaAt(x)) + (IF x = "write" THEN 1 ELSE 0) - (IF x = "user" THEN 1 ELSE 0)
  BY <1>1, <1>3, UaMoves
<1>5. \A x \in {"store", "read"} : UaAt(x)' = UaAt(x) /\ Cardinality(UaAt(x)') = Cardinality(UaAt(x))
  <2>1. \A x \in {"store", "read"} : p \notin UaAt(x) /\ x # "write"
    BY <1>1 DEF UaAt, UaRuns
  <2> QED  BY <1>4, <2>1
<1>6. UaTypes'
  BY <1>1, <1>4 DEF UaTypes, uaoutvars, uainvars
<1>7. UaSemas' /\ UaCounted'
  BY <1>1, <1>4, <1>5 DEF UaSemas, UaCounted, uaoutvars, uainvars
<1>8. UaPlaced'
  BY <1>1 DEF UaPlaced, uaoutvars
<1>9. UaWrites'
  <2>1. uagiven' = uagiven /\ uataken' = uataken /\ uataken \in Nat /\ uataken >= uataken
    BY <1>1 DEF uaoutvars, uainvars, UaTypes
  <2>2. uaproc'[p].todo # <<>> /\ UaFresh(p, uaproc'[p].todo, uagiven, uataken')
    BY <1>3, <1>4, <2>1
  <2> QED  BY <1>1, <1>4, <2>1, <2>2, UaKeepsBytes
<1> QED  BY <1>1, <1>6, <1>7, <1>8, <1>9, UaInputRests DEF UaOutKept

\* There is a place for whoever is let through to the buffer (uartwrite.c).
LEMMA UaRoom ==
  ASSUME UaInv
  PROVE  /\ ~Blocks(uaosema) => uaocount < OBLEN
         /\ \A p \in Procs : UaRuns(p, "store") => uaocount < OBLEN
<1> DEFINE S == UaAt("store")
           W == Waiters(uaosema)
<1>1. /\ SemaSound(uaosema) /\ W \subseteq S /\ S \subseteq Procs
      /\ OBLEN = uaocount + uaosema.n + Cardinality(S) /\ uaocount \in Nat /\ OBLEN \in Nat
  BY UartAssumption DEF UaInv, UaSemas, UaCounted, UaTypes, UaAt
<1> HIDE DEF S, W
<1>2. /\ Available(uaosema) + Cardinality(S \ W) = uaosema.n + Cardinality(S)
      /\ Available(uaosema) \in Nat /\ Cardinality(S \ W) \in Nat /\ Cardinality(S) \in Nat
      /\ uaosema.n \in Int
  BY <1>1, SemaBalance DEF W
<1>3. OBLEN = uaocount + Available(uaosema) + Cardinality(S \ W)
  BY <1>1, <1>2
<1>4. ~Blocks(uaosema) => Available(uaosema) > 0
  BY <1>2 DEF Blocks, Available
<1>5. ASSUME NEW p \in Procs, UaRuns(p, "store")  PROVE uaocount < OBLEN
  <2>1. p \in S \ W
    BY <1>5 DEF UaRuns, UaAt, S, W
  <2>2. PICK F : F = S \ W
    OBVIOUS
  <2>3. p \in F /\ F \subseteq Procs
    BY <1>1, <2>1, <2>2
  <2>4. Cardinality(F) > 0
    BY <2>3, OneMore
  <2> QED  BY <1>1, <1>2, <1>3, <2>2, <2>4
<1>6. ~Blocks(uaosema) => uaocount < OBLEN
  BY <1>1, <1>2, <1>3, <1>4
<1> QED  BY <1>5, <1>6

\* uartWrite stores a byte in the buffer, having come there at once or released later
\* (uartwrite.c).
LEMMA UaStoreKeeps ==
  ASSUME UaInv, NEW p \in Procs, NEW from \in {"write", "store"}, UaRuns(p, from), UaStore(p),
         uaocount < OBLEN, UNCHANGED <<uaostart, uaoidle, uahold, uatxirq, ualine>>,
         UNCHANGED uainvars, SemaSound(uaosema'), Waiters(uaosema') \subseteq Waiters(uaosema),
         uaosema'.n = uaosema.n - (IF from = "write" THEN 1 ELSE 0)
  PROVE  UaInv'
<1> DEFINE b == Head(uaproc[p].todo)
<1>1. /\ UaTypes /\ UaSemas /\ UaCounted /\ UaPlaced /\ UaWrites /\ UaAccept(p)
      /\ uaout' = [uaout EXCEPT ![(uaostart + uaocount) % OBLEN] = b] /\ uaocount' = uaocount + 1
  BY DEF UaInv, UaStore
<1>2. uataken' = uataken /\ uaisema' = uaisema /\ uaicount' = uaicount /\ uain' = uain
      /\ uaistart' = uaistart /\ uarx' = uarx /\ uaarrived' = uaarrived
  BY DEF uainvars
<1>3. b \in UaCodes /\ b \notin uagiven /\ uagiven' = uagiven \cup {b} /\ UaWrites'
  BY <1>1, <1>2, UaHandsOver
<1>4. PICK at \in {"user", "write"}, t \in Seq(UaCodes) : UaGoto(p, at, t)
  BY <1>1, <1>2, UaHandsOver
<1> HIDE DEF b
<1>5. UaPlaced' /\ uaout' \in [0 .. OBLEN - 1 -> UaCodes \cup {NoByte}]
  BY <1>1, <1>3, UaStoresByte
<1>6. /\ \A x : /\ UaAt(x)' = IF x = at THEN UaAt(x) \cup {p} ELSE UaAt(x) \ {p}
                /\ Cardinality(UaAt(x)) \in Nat
                /\ Cardinality(UaAt(x)')
                     = Cardinality(UaAt(x)) + (IF x = at THEN 1 ELSE 0) - (IF x = from THEN 1 ELSE 0)
      /\ uaproc' \in [Procs -> UaCalls] /\ \A q \in Procs : uaproc'[q].at = "write" => uainside' = q
  BY <1>1, <1>4, UaMoves
<1>7. uaproc[p].at = from /\ p \notin Waiters(uaosema) /\ p \notin Waiters(uaisema)
  BY DEF UaRuns
<1>8. UaTypes'
  BY <1>1, <1>2, <1>3, <1>5, <1>6 DEF UaTypes
<1>9. UaSemas'
  <2>1. Waiters(uaosema') \subseteq UaAt("store")' /\ Waiters(uaisema) \subseteq UaAt("read")'
    BY <1>1, <1>6, <1>7 DEF UaSemas
  <2> QED  BY <1>1, <1>2, <1>6, <2>1 DEF UaSemas
<1>10. UaCounted'
  <2>1. /\ Cardinality(UaAt("store")')
             = Cardinality(UaAt("store")) - (IF from = "store" THEN 1 ELSE 0)
        /\ Cardinality(UaAt("store")) \in Nat
    BY <1>6
  <2>2. Cardinality(UaAt("read")') = Cardinality(UaAt("read"))
    BY <1>6
  <2>3. uaosema.n \in Int /\ uaocount \in Nat /\ OBLEN \in Nat
    BY <1>1, UartAssumption DEF UaSemas, SemaSound, UaTypes
  <2>4. OBLEN = uaocount' + uaosema'.n + Cardinality(UaAt("store")')
    <3>1. OBLEN = uaocount + uaosema.n + Cardinality(UaAt("store"))
      BY <1>1 DEF UaCounted
    <3>2. CASE from = "write"
      BY <1>1, <2>1, <2>3, <3>1, <3>2
    <3>3. CASE from = "store"
      BY <1>1, <2>1, <2>3, <3>1, <3>3
    <3> QED  BY <3>2, <3>3
  <2>5. uaicount = uaisema.n + Cardinality(UaAt("read")')
    BY <1>1, <2>2 DEF UaCounted
  <2> QED  BY <1>2, <2>4, <2>5 DEF UaCounted
<1> QED  BY <1>3, <1>5, <1>8, <1>9, <1>10, UaInputRests DEF UaOutKept

\* uartWrite with a transmitter that is busy (uartwrite.c).
LEMMA UaWriteBufferKeeps ==
  ASSUME UaInv, NEW p \in Procs, UaWriteBuffer(p)
  PROVE  UaInv'
<1>1. /\ UaTypes /\ UaSemas /\ UaCounted /\ UaPlaced /\ UaWrites /\ UaRuns(p, "write")
      /\ UNCHANGED <<uaostart, uaoidle, uahold, uatxirq, ualine>> /\ UNCHANGED uainvars
  BY DEF UaInv, UaWriteBuffer
<1>2. uataken' = uataken /\ uaisema' = uaisema /\ uaicount' = uaicount /\ uain' = uain
      /\ uaistart' = uaistart /\ uarx' = uarx /\ uaarrived' = uaarrived
  BY <1>1 DEF uainvars
<1>3. /\ SemaSound(uaosema) /\ uaosema.n \in Int /\ p \notin Waiters(uaosema) /\ p \notin Waiters(uaisema)
      /\ uaproc[p].at = "write"
  BY <1>1 DEF UaSemas, SemaSound, UaRuns
<1>4. /\ SemaSound(Down(uaosema, p)) /\ Down(uaosema, p).n = uaosema.n - 1
      /\ Waiters(Down(uaosema, p)) = IF Blocks(uaosema) THEN Waiters(uaosema) \cup {p} ELSE Waiters(uaosema)
  BY <1>3, DownIs
<1>5. CASE uaosema' = Down(uaosema, p) /\ ~Blocks(uaosema) /\ UaStore(p)
  <2>1. uaocount < OBLEN
    BY <1>5, UaRoom
  <2>2. /\ SemaSound(uaosema') /\ Waiters(uaosema') \subseteq Waiters(uaosema)
        /\ uaosema'.n = uaosema.n - (IF "write" = "write" THEN 1 ELSE 0)
    BY <1>4, <1>5
  <2> QED  BY <1>1, <1>5, <2>1, <2>2, UaStoreKeeps
<1>6. ASSUME NEW at \in {"user", "store"}, NEW t, UaGoto(p, at, t),
             at = "user" => t = <<>> /\ uaosema' = uaosema,
             at = "store" => t = uaproc[p].todo /\ uaosema' = Down(uaosema, p) /\ Blocks(uaosema),
             UNCHANGED <<uaout, uaocount, uagiven>>
      PROVE  UaInv'
  <2>1. t \in Seq(UaCodes)
    <3>1. uaproc[p].todo \in Seq(UaCodes) /\ <<>> \in Seq(UaCodes)
      BY <1>1 DEF UaTypes, UaCalls
    <3> QED  BY <1>6, <3>1
  <2>2. /\ uaproc' \in [Procs -> UaCalls] /\ uaproc'[p].at = at /\ uaproc'[p].todo = t
        /\ \A q \in Procs : q # p => uaproc'[q] = uaproc[q]
        /\ \A q \in Procs : uaproc'[q].at = "write" => uainside' = q
        /\ \A x : UaAt(x)' = IF x = at THEN UaAt(x) \cup {p} ELSE UaAt(x) \ {p}
        /\ \A x : /\ Cardinality(UaAt(x)) \in Nat
                  /\ Cardinality(UaAt(x)')
                       = Cardinality(UaAt(x)) + (IF x = at THEN 1 ELSE 0) - (IF x = "write" THEN 1 ELSE 0)
    BY <1>1, <1>6, <2>1, UaMoves
  <2>3. UaTypes'
    BY <1>1, <1>2, <1>6, <2>2 DEF UaTypes
  <2>4. /\ SemaSound(uaosema') /\ Waiters(uaosema') \subseteq Waiters(uaosema) \cup {p}
        /\ at = "user" => Waiters(uaosema') = Waiters(uaosema)
        /\ uaosema'.n = uaosema.n - (IF at = "store" THEN 1 ELSE 0)
    BY <1>3, <1>4, <1>6
  <2>5. UaSemas'
    <3>1. Waiters(uaosema') \subseteq UaAt("store")' /\ Waiters(uaisema) \subseteq UaAt("read")'
      BY <1>1, <1>3, <1>6, <2>2, <2>4 DEF UaSemas
    <3> QED  BY <1>1, <1>2, <2>2, <2>4, <3>1 DEF UaSemas
  <2>6. UaCounted'
    <3>1. /\ Cardinality(UaAt("store")')
               = Cardinality(UaAt("store")) + (IF at = "store" THEN 1 ELSE 0)
          /\ Cardinality(UaAt("store")) \in Nat
      BY <2>2
    <3>2. Cardinality(UaAt("read")') = Cardinality(UaAt("read"))
      BY <2>2
    <3>3. uaocount \in Nat /\ OBLEN = uaocount + uaosema.n + Cardinality(UaAt("store"))
      BY <1>1 DEF UaCounted, UaTypes
    <3>4. OBLEN = uaocount + uaosema'.n + Cardinality(UaAt("store")')
      BY <1>3, <2>4, <3>1, <3>3
    <3>5. uaicount = uaisema.n + Cardinality(UaAt("read")')
      BY <1>1, <3>2 DEF UaCounted
    <3> QED  BY <1>2, <1>6, <3>4, <3>5 DEF UaCounted
  <2>7. UaPlaced'
    BY <1>1, <1>6 DEF UaPlaced
  <2>8. UaWrites'
    <3>1. uagiven' = uagiven /\ uataken' = uataken /\ uataken \in Nat /\ uataken >= uataken
      BY <1>1, <1>2, <1>6 DEF UaTypes
    <3>2. uaproc'[p].at \in {"write", "store"} =>
            uaproc'[p].todo # <<>> /\ UaFresh(p, uaproc'[p].todo, uagiven, uataken')
      BY <1>1, <1>3, <1>6, <2>2, <3>1 DEF UaWrites
    <3> QED  BY <1>1, <2>2, <3>1, <3>2, UaKeepsBytes
  <2> QED  BY <1>1, <2>3, <2>5, <2>6, <2>7, <2>8, UaInputRests DEF UaOutKept
<1>7. CASE UaReturn(p) /\ UNCHANGED <<uaosema, uaout, uaocount, uagiven>>
  BY <1>6, <1>7 DEF UaReturn
<1>8. CASE uaosema' = Down(uaosema, p) /\ Blocks(uaosema) /\ UaGoto(p, "store", uaproc[p].todo)
           /\ UNCHANGED <<uaout, uaocount, uagiven>>
  BY <1>6, <1>8
<1> QED  BY <1>5, <1>7, <1>8 DEF UaWriteBuffer

\* A writer that was released (uartwrite.c).
LEMMA UaWriteResumeKeeps ==
  ASSUME UaInv, NEW p \in Procs, UaWriteResume(p)
  PROVE  UaInv'
<1>1. /\ UaRuns(p, "store") /\ UaStore(p) /\ uaosema' = uaosema /\ UNCHANGED uainvars
      /\ UNCHANGED <<uaostart, uaoidle, uahold, uatxirq, ualine>>
  BY DEF UaWriteResume
<1>2. uaocount < OBLEN
  BY <1>1, UaRoom
<1>3. /\ SemaSound(uaosema') /\ Waiters(uaosema') \subseteq Waiters(uaosema)
      /\ uaosema'.n = uaosema.n - (IF "store" = "write" THEN 1 ELSE 0)
  BY <1>1 DEF UaInv, UaSemas, SemaSound
<1> QED  BY <1>1, <1>2, <1>3, UaStoreKeeps

\* The transmit interrupt empties the buffer from its start (uartintr.c).
LEMMA UaTransmitKeeps ==
  ASSUME UaInv, UaTransmit
  PROVE  UaInv'
<1>1. /\ UaTypes /\ UaSemas /\ UaCounted /\ UaPlaced /\ UaWrites /\ uatxirq /\ uatxirq' = FALSE
      /\ UNCHANGED <<uaout, ualine, uagiven, uaproc, uainside>> /\ UNCHANGED uainvars
  BY DEF UaInv, UaTransmit
<1>2. uataken' = uataken /\ uaisema' = uaisema /\ uaicount' = uaicount /\ uain' = uain
      /\ uaistart' = uaistart /\ uarx' = uarx /\ uaarrived' = uaarrived
  BY <1>1 DEF uainvars
<1>3. uaoidle = FALSE /\ uahold = NoByte /\ OBLEN \in Nat \ {0} /\ uaocount \in Nat
      /\ uaostart \in 0 .. OBLEN - 1 /\ SemaSound(uaosema) /\ uaosema.n \in Int
  BY <1>1, UartAssumption DEF UaPlaced, UaTypes, UaSemas, SemaSound
<1>4. \A x : UaAt(x)' = UaAt(x)
  BY <1>1, UaStill
<1>5. UaWrites'
  BY <1>1, <1>2 DEF UaWrites
<1>6. CASE uaocount > 0
  <2>1. /\ uahold' = uaout[uaostart] /\ uaostart' = (uaostart + 1) % OBLEN /\ uaocount' = uaocount - 1
        /\ uaosema' = UpN(uaosema, 1) /\ uaoidle' = uaoidle
    BY <1>6 DEF UaTransmit
  <2>2. /\ SemaSound(uaosema') /\ uaosema'.n = uaosema.n + 1 /\ Waiters(uaosema') \subseteq Waiters(uaosema)
    BY <1>3, <2>1, UpNIs
  <2> DEFINE at(i) == uaout[(uaostart + i) % OBLEN]
             then(i) == uaout'[(uaostart' + i) % OBLEN]
  <2>3. uaostart' \in 0 .. OBLEN - 1 /\ \A i \in Int : then(i) = at(i + 1)
    <3>1. PICK s \in Int : s = uaostart
      BY <1>3
    <3>2. /\ (s + 1) % OBLEN \in 0 .. OBLEN - 1
          /\ \A i \in Int : (((s + 1) % OBLEN) + i) % OBLEN = (s + (i + 1)) % OBLEN
      BY <1>3, <3>1, RingStep
    <3> QED  BY <1>1, <2>1, <3>1, <3>2
  <2>4. at(0) = uahold'
    <3>1. uaostart + 0 = uaostart /\ uaostart % OBLEN = uaostart
      BY <1>3, ModIs
    <3> QED  BY <2>1, <3>1
  <2>5. /\ \A c \in UaCodes : c \in uagiven <=>
             c \in ualine \/ c = uahold \/ \E i \in 0 .. uaocount - 1 : c = at(i)
        /\ \A i \in 0 .. uaocount - 1 : at(i) \in UaCodes
        /\ \A i, j \in 0 .. uaocount - 1 : at(i) = at(j) => i = j
    BY <1>1 DEF UaPlaced
  <2> HIDE DEF at, then
  <2>6. \A i \in 0 .. uaocount' - 1 : i + 1 \in 0 .. uaocount - 1 /\ then(i) = at(i + 1) /\ i \in Int
    BY <1>3, <2>1, <2>3
  <2>7. \A i \in 0 .. uaocount - 1 : i = 0 \/ (i - 1 \in 0 .. uaocount' - 1 /\ i = (i - 1) + 1)
    BY <1>3, <2>1
  <2>8. 0 \in 0 .. uaocount - 1 /\ uahold' \in UaCodes
    <3>1. 0 \in 0 .. uaocount - 1
      BY <1>3, <1>6
    <3> QED  BY <2>4, <2>5, <3>1
  <2>9. \A c \in UaCodes : c \in uagiven' <=>
             c \in ualine' \/ c = uahold' \/ \E i \in 0 .. uaocount' - 1 : c = then(i)
    <3> SUFFICES ASSUME NEW c \in UaCodes
                 PROVE  c \in uagiven' <=>
                          c \in ualine' \/ c = uahold' \/ \E i \in 0 .. uaocount' - 1 : c = then(i)
      OBVIOUS
    <3>1. c # NoByte
      BY CodeIsByte
    <3>2. ASSUME NEW i \in 0 .. uaocount - 1, c = at(i)
          PROVE  c = uahold' \/ \E j \in 0 .. uaocount' - 1 : c = then(j)
      <4>1. CASE i = 0
        BY <2>4, <3>2, <4>1
      <4>2. CASE i # 0
        <5>1. PICK j : j = i - 1
          OBVIOUS
        <5>2. j \in 0 .. uaocount' - 1 /\ i = j + 1
          BY <2>7, <4>2, <5>1
        <5>3. then(j) = at(i)
          BY <2>6, <5>2
        <5> QED  BY <3>2, <5>2, <5>3
      <4> QED  BY <4>1, <4>2
    <3>3. ASSUME NEW j \in 0 .. uaocount' - 1, c = then(j)
          PROVE  \E i \in 0 .. uaocount - 1 : c = at(i)
      BY <2>6, <3>3
    <3>4. c = uahold' => \E i \in 0 .. uaocount - 1 : c = at(i)
      BY <2>4, <2>8
    <3> QED  BY <1>1, <1>3, <2>5, <3>1, <3>2, <3>3, <3>4
  <2>10. /\ \A i \in 0 .. uaocount' - 1 : then(i) \in UaCodes
         /\ \A i, j \in 0 .. uaocount' - 1 : then(i) = then(j) => i = j
    <3>1. \A i \in 0 .. uaocount' - 1 : then(i) \in UaCodes
      BY <2>5, <2>6
    <3>2. ASSUME NEW i \in 0 .. uaocount' - 1, NEW j \in 0 .. uaocount' - 1, then(i) = then(j)
          PROVE  i = j
      <4>1. i + 1 \in 0 .. uaocount - 1 /\ j + 1 \in 0 .. uaocount - 1 /\ at(i + 1) = at(j + 1)
            /\ i \in Int /\ j \in Int
        BY <2>6, <3>2
      <4>2. i + 1 = j + 1
        BY <2>5, <4>1
      <4> QED  BY <4>1, <4>2
    <3> QED  BY <3>1, <3>2
  <2>11. UaPlaced'
    BY <1>1, <1>3, <2>1, <2>9, <2>10 DEF UaPlaced, then
  <2>12. UaTypes'
    <3>1. uaocount' \in Nat
      BY <1>3, <1>6, <2>1
    <3>2. uaoidle' = uaoidle
      BY <2>1
    <3> QED  BY <1>1, <1>2, <2>3, <2>8, <3>1, <3>2 DEF UaTypes
  <2>13. UaSemas' /\ UaCounted'
    <3>1. UaSemas'
      BY <1>1, <1>2, <1>4, <2>2 DEF UaSemas
    <3>2. Cardinality(UaAt("store")) \in Nat
      <4>1. UaAt("store") \subseteq Procs
        BY DEF UaAt
      <4> QED  BY <4>1, SemasAssumption, FS_Subset, FS_CardinalityType
    <3>3. OBLEN = uaocount' + uaosema'.n + Cardinality(UaAt("store"))
      BY <1>1, <1>3, <2>1, <2>2, <3>2 DEF UaCounted
    <3> QED  BY <1>1, <1>2, <1>4, <3>1, <3>3 DEF UaCounted
  <2> QED  BY <1>1, <1>5, <2>11, <2>12, <2>13, UaInputRests DEF UaOutKept
<1>7. CASE ~(uaocount > 0)
  <2>1. uaoidle' = TRUE /\ UNCHANGED <<uahold, uaostart, uaocount, uaosema>>
    BY <1>7 DEF UaTransmit
  <2>2. UaTypes'
    BY <1>1, <1>2, <2>1 DEF UaTypes
  <2>3. UaSemas' /\ UaCounted'
    BY <1>1, <1>2, <1>4, <2>1 DEF UaSemas, UaCounted
  <2>4. UaPlaced'
    BY <1>1, <1>3, <2>1 DEF UaPlaced
  <2> QED  BY <1>1, <1>5, <2>2, <2>3, <2>4, UaInputRests DEF UaOutKept
<1> QED  BY <1>6, <1>7

\* The byte in the holding register goes out (the UART as uarthwputc.c uses it).
LEMMA UaShiftKeeps ==
  ASSUME UaInv, UaShift
  PROVE  UaInv'
<1>1. /\ UaTypes /\ UaSemas /\ UaCounted /\ UaPlaced /\ UaWrites /\ uahold # NoByte
      /\ ualine' = ualine \cup {uahold} /\ uahold' = NoByte /\ uatxirq' = TRUE
      /\ UNCHANGED <<uaout, uaostart, uaocount, uaosema, uaoidle, uagiven, uaproc, uainside>>
      /\ UNCHANGED uainvars
  BY DEF UaInv, UaShift
<1>2. uataken' = uataken /\ uaisema' = uaisema /\ uaicount' = uaicount /\ uain' = uain
      /\ uaistart' = uaistart /\ uarx' = uarx /\ uaarrived' = uaarrived
  BY <1>1 DEF uainvars
<1>3. \A x : UaAt(x)' = UaAt(x)
  BY <1>1, UaStill
<1>4. uahold \in UaCodes
  BY <1>1 DEF UaTypes
<1>5. UaTypes'
  BY <1>1, <1>2, <1>4 DEF UaTypes
<1>6. UaSemas' /\ UaCounted' /\ UaWrites'
  BY <1>1, <1>2, <1>3 DEF UaSemas, UaCounted, UaWrites
<1>7. UaPlaced'
  <2>1. uaoidle => FALSE
    BY <1>1 DEF UaPlaced
  <2> QED  BY <1>1, <2>1, CodeIsByte DEF UaPlaced
<1> QED  BY <1>1, <1>5, <1>6, <1>7, UaInputRests DEF UaOutKept

\* A byte arrives (the UART as uartintr.c uses it).
LEMMA UaArriveKeeps ==
  ASSUME UaInv, UaArrive
  PROVE  UaInv'
<1>1. /\ UaTypes /\ UaSemas /\ UaCounted /\ UaPlaced /\ UaWrites /\ UaReceived /\ uarx = 0
      /\ uaarrived' = uaarrived + 1 /\ uarx' = uaarrived + 1
      /\ UNCHANGED <<uain, uaistart, uaicount, uaisema, uataken, uaproc, uainside>>
      /\ UNCHANGED uaoutvars
  BY DEF UaInv, UaArrive
<1>2. \A x : UaAt(x)' = UaAt(x)
  BY <1>1, UaStill
<1>3. UaTypes' /\ UaSemas' /\ UaCounted' /\ UaPlaced' /\ UaWrites'
  BY <1>1, <1>2 DEF UaTypes, UaSemas, UaCounted, UaPlaced, UaWrites, uaoutvars
<1>4. UaReceived'
  <2>1. uaarrived \in Nat /\ uataken \in Nat /\ uaicount \in 0 .. IBLEN
    BY <1>1 DEF UaTypes
  <2>2. uarx' \in {0, uaarrived'} /\ uataken' <= uaarrived' /\ uataken' < uaarrived'
    BY <1>1, <2>1 DEF UaReceived
  <2>3. ASSUME NEW i \in 0 .. uaicount - 1
        PROVE  LET b == uain[(uaistart + i) % IBLEN] IN
                 /\ b > uataken /\ b <= uaarrived' /\ b < uaarrived'
                 /\ \A j \in 0 .. i - 1 : uain[(uaistart + j) % IBLEN] < b
    <3>1. PICK b : b = uain[(uaistart + i) % IBLEN]
      OBVIOUS
    <3>2. b > uataken /\ b <= uaarrived /\ \A j \in 0 .. i - 1 : uain[(uaistart + j) % IBLEN] < b
      BY <1>1, <3>1 DEF UaReceived
    <3>3. b \in Nat
      <4>1. PICK s \in Int, L \in Nat \ {0} : s = uaistart /\ L = IBLEN
        BY <1>1, UartAssumption DEF UaTypes
      <4>2. (s + i) % L \in 0 .. L - 1
        BY <4>1, ModDef
      <4> QED  BY <1>1, <3>1, <4>1, <4>2 DEF UaTypes
    <3> QED  BY <1>1, <2>1, <3>1, <3>2, <3>3
  <2> QED  BY <1>1, <2>2, <2>3 DEF UaReceived
<1> QED  BY <1>3, <1>4 DEF UaInv

\* The bytes in the input buffer are numbers of bytes that arrived (uartintr.c).
LEMMA UaIn ==
  ASSUME UaTypes, NEW i \in Int
  PROVE  (uaistart + i) % IBLEN \in 0 .. IBLEN - 1 /\ uain[(uaistart + i) % IBLEN] \in Nat
<1>1. PICK s \in Int, L \in Nat \ {0} : s = uaistart /\ L = IBLEN
  BY UartAssumption DEF UaTypes
<1>2. (s + i) % L \in 0 .. L - 1
  BY <1>1, ModDef
<1> QED  BY <1>1, <1>2 DEF UaTypes

\* The receive interrupt stores the byte behind those that were not read (uartintr.c).
LEMMA UaReceiveKeeps ==
  ASSUME UaInv, UaReceive
  PROVE  UaInv'
<1>1. /\ UaTypes /\ UaSemas /\ UaCounted /\ UaPlaced /\ UaWrites /\ UaReceived /\ uarx # 0 /\ uarx' = 0
      /\ UNCHANGED <<uaistart, uaarrived, uataken, uaproc, uainside>> /\ UNCHANGED uaoutvars
  BY DEF UaInv, UaReceive
<1>2. \A x : UaAt(x)' = UaAt(x)
  BY <1>1, UaStill
<1>3. UaPlaced' /\ UaWrites'
  BY <1>1 DEF UaPlaced, UaWrites, uaoutvars
<1>4. /\ uaarrived \in Nat /\ uataken \in Nat /\ uaicount \in 0 .. IBLEN /\ IBLEN \in Nat \ {0}
      /\ uaistart \in 0 .. IBLEN - 1 /\ uarx = uaarrived /\ uataken < uaarrived
      /\ SemaSound(uaisema) /\ uaisema.n \in Int
  BY <1>1, UartAssumption DEF UaTypes, UaReceived, UaSemas, SemaSound
<1> DEFINE at(i) == uain[(uaistart + i) % IBLEN]
           then(i) == uain'[(uaistart' + i) % IBLEN]
<1>5. \A i \in 0 .. uaicount - 1 :
        /\ at(i) \in Nat /\ at(i) > uataken /\ at(i) < uaarrived
        /\ \A j \in 0 .. i - 1 : at(j) < at(i)
  BY <1>1, UaIn DEF UaReceived
<1>6. CASE uaicount < IBLEN
  <2>1. /\ uain' = [uain EXCEPT ![(uaistart + uaicount) % IBLEN] = uarx] /\ uaicount' = uaicount + 1
        /\ uaisema' = UpN(uaisema, 1)
    BY <1>6 DEF UaReceive
  <2>2. /\ SemaSound(uaisema') /\ uaisema'.n = uaisema.n + 1 /\ Waiters(uaisema') \subseteq Waiters(uaisema)
    BY <1>4, <2>1, UpNIs
  <2>3. then(uaicount) = uaarrived /\ \A i \in 0 .. uaicount - 1 : then(i) = at(i)
    <3>1. PICK m : m = (uaistart + uaicount) % IBLEN
      OBVIOUS
    <3>2. /\ m \in 0 .. IBLEN - 1
          /\ \A i \in 0 .. uaicount - 1 :
               (uaistart + i) % IBLEN \in 0 .. IBLEN - 1 /\ (uaistart + i) % IBLEN # m
      <4>1. PICK s \in Int, n \in 0 .. IBLEN - 1 : s = uaistart /\ n = uaicount
        BY <1>4, <1>6
      <4>2. /\ (s + n) % IBLEN \in 0 .. IBLEN - 1
            /\ \A i \in 0 .. n - 1 :
                 (s + i) % IBLEN \in 0 .. IBLEN - 1 /\ (s + i) % IBLEN # (s + n) % IBLEN
        BY <1>4, <4>1, RingPut
      <4> QED  BY <3>1, <4>1, <4>2, Zenon
    <3>3. uain'[m] = uarx /\ \A k \in 0 .. IBLEN - 1 : k # m => uain'[k] = uain[k]
      BY <1>1, <2>1, <3>1, <3>2 DEF UaTypes
    <3>4. uaistart' = uaistart /\ uarx = uaarrived
      BY <1>1, <1>4
    <3> QED  BY <3>1, <3>2, <3>3, <3>4, Zenon
  <2>4. uain' \in [0 .. IBLEN - 1 -> Nat]
    BY <1>1, <1>4, <2>1 DEF UaTypes
  <2> HIDE DEF at, then
  <2>5. UaTypes'
    BY <1>1, <1>4, <1>6, <2>1, <2>4 DEF UaTypes, uaoutvars
  <2>6. UaSemas' /\ UaCounted'
    <3>1. UaSemas'
      BY <1>1, <1>2, <2>2 DEF UaSemas, uaoutvars
    <3>2. Cardinality(UaAt("read")) \in Nat
      <4>1. UaAt("read") \subseteq Procs
        BY DEF UaAt
      <4> QED  BY <4>1, SemasAssumption, FS_Subset, FS_CardinalityType
    <3>3. uaicount' = uaisema'.n + Cardinality(UaAt("read"))
      BY <1>1, <1>4, <2>1, <2>2, <3>2 DEF UaCounted
    <3> QED  BY <1>1, <1>2, <3>1, <3>3 DEF UaCounted, uaoutvars
  <2>7. \A i \in 0 .. uaicount' - 1 :
          /\ then(i) > uataken /\ then(i) <= uaarrived
          /\ \A j \in 0 .. i - 1 : then(j) < then(i)
    <3> TAKE i \in 0 .. uaicount' - 1
    <3>1. \A j \in 0 .. i - 1 : j \in 0 .. uaicount - 1
      BY <1>4, <2>1
    <3>2. CASE i = uaicount
      BY <1>4, <1>5, <2>3, <3>1, <3>2
    <3>3. CASE i # uaicount
      <4>1. i \in 0 .. uaicount - 1
        BY <1>4, <2>1, <3>3
      <4>2. /\ at(i) \in Nat /\ at(i) > uataken /\ at(i) < uaarrived
            /\ \A j \in 0 .. i - 1 : at(j) < at(i)
        BY <1>5, <4>1
      <4> QED  BY <1>4, <2>3, <3>1, <4>1, <4>2
    <3> QED  BY <3>2, <3>3
  <2>8. UaReceived'
    BY <1>1, <1>4, <2>7 DEF UaReceived, then
  <2> QED  BY <1>3, <2>5, <2>6, <2>8 DEF UaInv
<1>7. CASE ~(uaicount < IBLEN)
  <2>1. UNCHANGED <<uain, uaicount, uaisema>>
    BY <1>7 DEF UaReceive
  <2>2. UaTypes' /\ UaSemas' /\ UaCounted'
    BY <1>1, <1>2, <2>1 DEF UaTypes, UaSemas, UaCounted, uaoutvars
  <2>3. UaReceived'
    BY <1>1, <1>4, <1>5, <2>1 DEF UaReceived
  <2> QED  BY <1>3, <2>2, <2>3 DEF UaInv
<1> QED  BY <1>6, <1>7

\* There is a byte for whoever is let through to the input buffer (uartread.c).
LEMMA UaByteThere ==
  ASSUME UaInv
  PROVE  /\ ~Blocks(uaisema) => uaicount > 0
         /\ \A p \in Procs : UaRuns(p, "read") => uaicount > 0
         /\ uaicount = Available(uaisema) + Cardinality(UaAt("read") \ Waiters(uaisema))
<1> DEFINE S == UaAt("read")
           W == Waiters(uaisema)
<1>1. /\ SemaSound(uaisema) /\ W \subseteq S /\ S \subseteq Procs
      /\ uaicount = uaisema.n + Cardinality(S) /\ uaicount \in Nat
  BY UartAssumption DEF UaInv, UaSemas, UaCounted, UaTypes, UaAt
<1> HIDE DEF S, W
<1>2. /\ Available(uaisema) + Cardinality(S \ W) = uaisema.n + Cardinality(S)
      /\ Available(uaisema) \in Nat /\ Cardinality(S \ W) \in Nat /\ Cardinality(S) \in Nat
      /\ uaisema.n \in Int
  BY <1>1, SemaBalance DEF W
<1>3. uaicount = Available(uaisema) + Cardinality(S \ W)
  BY <1>1, <1>2
<1>4. ~Blocks(uaisema) => Available(uaisema) > 0
  BY <1>2 DEF Blocks, Available
<1>5. ASSUME NEW p \in Procs, UaRuns(p, "read")  PROVE uaicount > 0
  <2>1. p \in S \ W
    BY <1>5 DEF UaRuns, UaAt, S, W
  <2>2. PICK F : F = S \ W
    OBVIOUS
  <2>3. p \in F /\ F \subseteq Procs
    BY <1>1, <2>1, <2>2
  <2>4. Cardinality(F) > 0
    BY <2>3, OneMore
  <2> QED  BY <1>2, <1>3, <2>2, <2>4
<1>6. ~Blocks(uaisema) => uaicount > 0
  BY <1>2, <1>3, <1>4
<1> QED  BY <1>3, <1>5, <1>6 DEF S, W

\* The echo of a byte that has just been read is new (uartread.c).
LEMMA UaEchoFresh ==
  ASSUME UaTypes, UaWrites, NEW p \in Procs, NEW n \in Nat, n > uataken
  PROVE  /\ <<UaByte(p, -n)>> \in Seq(UaCodes) /\ <<UaByte(p, -n)>> # <<>>
         /\ UaFresh(p, <<UaByte(p, -n)>>, uagiven, n)
<1>1. PICK b \in UaCodes : b = UaByte(p, -n) /\ b[1] = p /\ b[2] = -n
  <2>1. UaByte(p, -n) = <<p, -n>> /\ <<p, -n>> \in UaCodes /\ <<p, -n>>[1] = p /\ <<p, -n>>[2] = -n
    BY DEF UaByte, UaCodes
  <2> QED  BY <2>1
<1>2. b \notin uagiven
  <2>1. \A c \in uagiven : c[2] >= -uataken
    BY DEF UaWrites
  <2>2. -n < -uataken
    BY DEF UaTypes
  <2>3. b \in uagiven => -n >= -uataken
    BY <1>1, <2>1
  <2>4. -n \in Int /\ -uataken \in Int
    BY DEF UaTypes
  <2> QED  BY <2>2, <2>3, <2>4
<1>3. /\ <<b>> \in Seq(UaCodes) /\ <<b>> # <<>> /\ Len(<<b>>) = 1 /\ <<b>>[1] = b
  OBVIOUS
<1>4. b[2] >= -n /\ ~(b[2] > 1)
  BY <1>1
<1>5. UaFresh(p, <<b>>, uagiven, n)
  <2>1. \A k \in 1 .. Len(<<b>>) : k = 1
    BY <1>3
  <2> QED  BY <1>1, <1>2, <1>3, <1>4, <2>1 DEF UaFresh
<1> QED  BY <1>1, <1>3, <1>5

\* uartRead takes the first byte of the input buffer (uartread.c).
LEMMA UaTakeKeeps ==
  ASSUME UaInv, NEW p \in Procs, NEW from \in {"user", "read"}, UaRuns(p, from), UaTake(p),
         uaicount > 0, UNCHANGED <<uain, uarx, uaarrived>>, UNCHANGED uaoutvars,
         SemaSound(uaisema'), Waiters(uaisema') \subseteq Waiters(uaisema),
         uaisema'.n = uaisema.n - (IF from = "user" THEN 1 ELSE 0)
  PROVE  UaInv'
<1>1. /\ UaTypes /\ UaSemas /\ UaCounted /\ UaPlaced /\ UaWrites /\ UaReceived
      /\ uataken' = uain[uaistart] /\ uaicount' = uaicount - 1
      /\ uaistart' = (uaistart + 1) % IBLEN /\ UaEcho(p)
  BY DEF UaInv, UaTake
<1>2. /\ uaarrived \in Nat /\ uataken \in Nat /\ uaicount \in 1 .. IBLEN /\ IBLEN \in Nat \ {0}
      /\ uaistart \in 0 .. IBLEN - 1 /\ uaisema.n \in Int
  BY <1>1, UartAssumption DEF UaTypes, UaSemas, SemaSound
<1> DEFINE at(i) == uain[(uaistart + i) % IBLEN]
           then(i) == uain'[(uaistart' + i) % IBLEN]
<1>3. \A i \in 0 .. uaicount - 1 :
        /\ at(i) \in Nat /\ at(i) > uataken /\ at(i) <= uaarrived /\ (uarx # 0 => at(i) < uaarrived)
        /\ \A j \in 0 .. i - 1 : at(j) < at(i)
  BY <1>1, UaIn DEF UaReceived
<1>4. uaistart' \in 0 .. IBLEN - 1 /\ \A i \in Int : then(i) = at(i + 1)
  <2>1. PICK s \in Int : s = uaistart
    BY <1>2
  <2>2. /\ (s + 1) % IBLEN \in 0 .. IBLEN - 1
        /\ \A i \in Int : (((s + 1) % IBLEN) + i) % IBLEN = (s + (i + 1)) % IBLEN
    BY <1>2, <2>1, RingStep
  <2> QED  BY <1>1, <2>1, <2>2
<1>5. at(0) = uataken'
  <2>1. uaistart + 0 = uaistart /\ uaistart % IBLEN = uaistart
    BY <1>2, ModIs
  <2> QED  BY <1>1, <2>1
<1> HIDE DEF at, then
<1>6. /\ uataken' \in Nat /\ uataken' > uataken /\ uataken' <= uaarrived
      /\ (uarx # 0 => uataken' < uaarrived)
  <2>1. 0 \in 0 .. uaicount - 1
    BY <1>2
  <2> QED  BY <1>3, <1>5, <2>1
<1>7. PICK goes \in {"user", "write"}, t \in Seq(UaCodes) :
        /\ UaGoto(p, goes, t)
        /\ goes = "write" => t # <<>> /\ UaFresh(p, t, uagiven, uataken')
  <2>1. UaEcho(p) => \/ UaGoto(p, "write", <<UaByte(p, -uataken')>>)
                     \/ UaGoto(p, "user", <<>>)
    BY <1>1 DEF UaEcho, UaReturn
  <2>2. PICK n \in Nat : n = uataken' /\ n > uataken
    BY <1>6
  <2>3. /\ <<UaByte(p, -n)>> \in Seq(UaCodes) /\ <<UaByte(p, -n)>> # <<>>
        /\ UaFresh(p, <<UaByte(p, -n)>>, uagiven, n)
    BY <1>1, <2>2, UaEchoFresh
  <2>4. <<>> \in Seq(UaCodes)
    OBVIOUS
  <2>5. CASE UaGoto(p, "write", <<UaByte(p, -uataken')>>)
    BY <2>2, <2>3, <2>5
  <2>6. CASE UaGoto(p, "user", <<>>)
    BY <2>4, <2>6
  <2> QED  BY <1>1, <2>1, <2>5, <2>6
<1>8. /\ uaproc' \in [Procs -> UaCalls] /\ uaproc'[p].at = goes /\ uaproc'[p].todo = t
      /\ \A q \in Procs : q # p => uaproc'[q] = uaproc[q]
      /\ \A q \in Procs : uaproc'[q].at = "write" => uainside' = q
      /\ \A x : UaAt(x)' = IF x = goes THEN UaAt(x) \cup {p} ELSE UaAt(x) \ {p}
      /\ \A x : /\ Cardinality(UaAt(x)) \in Nat /\ Cardinality(UaAt(x)') \in Nat
                /\ Cardinality(UaAt(x)')
                     = Cardinality(UaAt(x)) + (IF x = goes THEN 1 ELSE 0) - (IF x = from THEN 1 ELSE 0)
  <2>1. /\ UaTypes /\ UaSemas /\ UaGoto(p, goes, t) /\ UaRuns(p, from)
        /\ goes \in {"user", "write", "store", "read"} /\ t \in Seq(UaCodes)
    BY <1>1, <1>7
  <2> QED  BY <2>1, UaMoves
<1>9. UNCHANGED <<uaout, uaostart, uaocount, uaosema, uaoidle, uahold, uatxirq, ualine, uagiven>>
  BY DEF uaoutvars
<1>10. UaTypes'
  <2>1. uaicount' \in 0 .. IBLEN
    BY <1>1, <1>2
  <2> QED  BY <1>1, <1>4, <1>6, <1>8, <1>9, <2>1 DEF UaTypes
<1>11. UaSemas'
  <2>1. uaproc[p].at = from /\ p \notin Waiters(uaosema) /\ p \notin Waiters(uaisema)
    BY DEF UaRuns
  <2>2. Waiters(uaosema) \subseteq UaAt("store")' /\ Waiters(uaisema') \subseteq UaAt("read")'
    BY <1>1, <1>8, <2>1 DEF UaSemas
  <2> QED  BY <1>1, <1>8, <1>9, <2>2 DEF UaSemas
<1>12. UaCounted'
  <2>1. Cardinality(UaAt("store")') = Cardinality(UaAt("store"))
    BY <1>8
  <2>2. /\ Cardinality(UaAt("read")') = Cardinality(UaAt("read")) - (IF from = "read" THEN 1 ELSE 0)
        /\ Cardinality(UaAt("read")) \in Nat
    BY <1>8
  <2>3. uaicount = uaisema.n + Cardinality(UaAt("read"))
    BY <1>1 DEF UaCounted
  <2>4. uaicount' = uaisema'.n + Cardinality(UaAt("read")')
    <3>1. CASE from = "read"
      BY <1>1, <1>2, <2>2, <2>3, <3>1
    <3>2. CASE from = "user"
      BY <1>1, <1>2, <2>2, <2>3, <3>2
    <3> QED  BY <3>1, <3>2
  <2> QED  BY <1>1, <1>9, <2>1, <2>4 DEF UaCounted
<1>13. UaPlaced'
  BY <1>1, <1>9 DEF UaPlaced
<1>14. UaWrites'
  <2>1. uagiven' = uagiven /\ uataken' \in Nat /\ uataken' >= uataken
    BY <1>2, <1>6, <1>9
  <2>2. uaproc'[p].at \in {"write", "store"} =>
          uaproc'[p].todo # <<>> /\ UaFresh(p, uaproc'[p].todo, uagiven, uataken')
    BY <1>7, <1>8
  <2> QED  BY <1>1, <1>8, <2>1, <2>2, UaKeepsBytes
<1>15. UaReceived'
  <2>1. \A i \in 0 .. uaicount' - 1 :
          /\ then(i) > uataken' /\ then(i) <= uaarrived /\ (uarx # 0 => then(i) < uaarrived)
          /\ \A j \in 0 .. i - 1 : then(j) < then(i)
    <3> TAKE i \in 0 .. uaicount' - 1
    <3>1. i + 1 \in 0 .. uaicount - 1 /\ then(i) = at(i + 1) /\ 0 \in 0 .. (i + 1) - 1
      BY <1>1, <1>2, <1>4
    <3>2. \A j \in 0 .. i - 1 : j + 1 \in 0 .. (i + 1) - 1 /\ then(j) = at(j + 1)
      BY <1>1, <1>2, <1>4
    <3> QED  BY <1>3, <1>5, <3>1, <3>2
  <2>2. uarx' = uarx /\ uaarrived' = uaarrived
    OBVIOUS
  <2> QED  BY <1>1, <1>6, <2>1, <2>2 DEF UaReceived, then
<1> QED  BY <1>10, <1>11, <1>12, <1>13, <1>14, <1>15 DEF UaInv

\* uartRead, with a byte there or without (uartread.c).
LEMMA UaReadKeeps ==
  ASSUME UaInv, NEW p \in Procs, UaRead(p)
  PROVE  UaInv'
<1>1. /\ UaTypes /\ UaSemas /\ UaCounted /\ UaPlaced /\ UaWrites /\ UaReceived /\ UaRuns(p, "user")
      /\ uaisema' = Down(uaisema, p) /\ UNCHANGED <<uain, uarx, uaarrived>> /\ UNCHANGED uaoutvars
  BY DEF UaInv, UaRead
<1>2. /\ SemaSound(uaisema) /\ uaisema.n \in Int /\ p \notin Waiters(uaosema) /\ p \notin Waiters(uaisema)
      /\ uaproc[p].at = "user"
  BY <1>1 DEF UaSemas, SemaSound, UaRuns
<1>3. /\ SemaSound(uaisema') /\ uaisema'.n = uaisema.n - 1
      /\ Waiters(uaisema') = IF Blocks(uaisema) THEN Waiters(uaisema) \cup {p} ELSE Waiters(uaisema)
  BY <1>1, <1>2, DownIs
<1>4. CASE ~Blocks(uaisema)
  <2>1. UaTake(p)
    BY <1>4 DEF UaRead
  <2>2. uaicount > 0
    BY <1>4, UaByteThere
  <2>3. /\ SemaSound(uaisema') /\ Waiters(uaisema') \subseteq Waiters(uaisema)
        /\ uaisema'.n = uaisema.n - (IF "user" = "user" THEN 1 ELSE 0)
    BY <1>3, <1>4
  <2> QED  BY <1>1, <2>1, <2>2, <2>3, UaTakeKeeps
<1>5. CASE Blocks(uaisema)
  <2>1. UaGoto(p, "read", <<>>) /\ UNCHANGED <<uaistart, uaicount, uataken>> /\ <<>> \in Seq(UaCodes)
    BY <1>5 DEF UaRead
  <2>2. /\ uaproc' \in [Procs -> UaCalls] /\ uaproc'[p].at = "read"
        /\ \A q \in Procs : q # p => uaproc'[q] = uaproc[q]
        /\ \A q \in Procs : uaproc'[q].at = "write" => uainside' = q
        /\ \A x : UaAt(x)' = IF x = "read" THEN UaAt(x) \cup {p} ELSE UaAt(x) \ {p}
        /\ \A x : /\ Cardinality(UaAt(x)) \in Nat /\ Cardinality(UaAt(x)') \in Nat
                  /\ Cardinality(UaAt(x)')
                       = Cardinality(UaAt(x)) + (IF x = "read" THEN 1 ELSE 0) - (IF x = "user" THEN 1 ELSE 0)
    BY <1>1, <2>1, UaMoves
  <2>3. UNCHANGED <<uaout, uaostart, uaocount, uaosema, uaoidle, uahold, uatxirq, ualine, uagiven>>
    BY <1>1 DEF uaoutvars
  <2>4. UaTypes'
    BY <1>1, <2>1, <2>2, <2>3 DEF UaTypes
  <2>5. UaSemas'
    <3>1. Waiters(uaosema) \subseteq UaAt("store")' /\ Waiters(uaisema') \subseteq UaAt("read")'
      BY <1>1, <1>2, <1>3, <2>2 DEF UaSemas
    <3> QED  BY <1>1, <1>3, <2>2, <2>3, <3>1 DEF UaSemas
  <2>6. UaCounted'
    <3>1. Cardinality(UaAt("store")') = Cardinality(UaAt("store"))
      BY <2>2
    <3>2. /\ Cardinality(UaAt("read")') = Cardinality(UaAt("read")) + 1
          /\ Cardinality(UaAt("read")) \in Nat
      BY <2>2
    <3>3. uaicount = uaisema.n + Cardinality(UaAt("read"))
      BY <1>1 DEF UaCounted
    <3>4. uaicount = uaisema'.n + Cardinality(UaAt("read")')
      BY <1>2, <1>3, <3>2, <3>3
    <3> QED  BY <1>1, <2>1, <2>3, <3>1, <3>4 DEF UaCounted
  <2>7. UaPlaced'
    BY <1>1, <2>3 DEF UaPlaced
  <2>8. UaWrites'
    <3>1. uagiven' = uagiven /\ uataken' \in Nat /\ uataken' >= uataken
      BY <1>1, <2>1, <2>3 DEF UaTypes
    <3>2. uaproc'[p].at \in {"write", "store"} =>
            uaproc'[p].todo # <<>> /\ UaFresh(p, uaproc'[p].todo, uagiven, uataken')
      BY <2>2
    <3> QED  BY <1>1, <2>2, <3>1, <3>2, UaKeepsBytes
  <2>9. UaReceived'
    BY <1>1, <2>1 DEF UaReceived
  <2> QED  BY <2>4, <2>5, <2>6, <2>7, <2>8, <2>9 DEF UaInv
<1> QED  BY <1>4, <1>5

\* A reader that was released (uartread.c).
LEMMA UaReadResumeKeeps ==
  ASSUME UaInv, NEW p \in Procs, UaReadResume(p)
  PROVE  UaInv'
<1>1. /\ UaRuns(p, "read") /\ UaTake(p) /\ UNCHANGED <<uain, uarx, uaarrived>> /\ UNCHANGED uaoutvars
      /\ uaisema' = uaisema
  BY DEF UaReadResume
<1>2. uaicount > 0
  BY <1>1, UaByteThere
<1>3. /\ SemaSound(uaisema') /\ Waiters(uaisema') \subseteq Waiters(uaisema)
      /\ uaisema'.n = uaisema.n - (IF "read" = "user" THEN 1 ELSE 0)
  BY <1>1 DEF UaInv, UaSemas, SemaSound
<1> QED  BY <1>1, <1>2, <1>3, UaTakeKeeps

\* What does not touch the buffers and the callers keeps the invariant (uartcontrol.c).
LEMMA UaRest ==
  ASSUME UaInv, UNCHANGED <<uaoutvars, uainvars, uaproc, uainside>>
  PROVE  UaInv'
<1>1. \A x : UaAt(x)' = UaAt(x)
  BY UaStill
<1>2. UNCHANGED uaoutvars /\ UNCHANGED uainvars /\ uaproc' = uaproc /\ uainside' = uainside
  OBVIOUS
<1>3. UaTypes' /\ UaSemas' /\ UaCounted'
  BY <1>1, <1>2 DEF UaInv, UaTypes, UaSemas, UaCounted, uaoutvars, uainvars
<1>4. UaPlaced'
  BY <1>2 DEF UaInv, UaPlaced, uaoutvars
<1>5. UaWrites'
  BY <1>2 DEF UaInv, UaWrites, uaoutvars, uainvars
<1> QED  BY <1>2, <1>3, <1>4, <1>5, UaInputRests DEF UaOutKept

LEMMA UaStep == UaInv /\ [UaNext]_uavars => UaInv'
<1> SUFFICES ASSUME UaInv, [UaNext]_uavars  PROVE UaInv'
  OBVIOUS
<1>1. ASSUME NEW p \in Procs, \/ UaWriteStart(p) \/ UaWriteDirect(p) \/ UaWriteBuffer(p)
                              \/ UaWriteResume(p) \/ UaRead(p) \/ UaReadResume(p)
      PROVE  UaInv'
  BY <1>1, UaWriteStartKeeps, UaWriteDirectKeeps, UaWriteBufferKeeps, UaWriteResumeKeeps, UaReadKeeps,
     UaReadResumeKeeps
<1>2. CASE UaTransmit \/ UaShift \/ UaArrive \/ UaReceive
  BY <1>2, UaTransmitKeeps, UaShiftKeeps, UaArriveKeeps, UaReceiveKeeps
<1>3. ASSUME NEW f, UaControl({f})  PROVE UaInv'
  BY <1>3, UaRest DEF UaControl
<1>4. CASE UNCHANGED uavars
  BY <1>4, UaRest DEF uavars
<1> QED  BY <1>1, <1>2, <1>3, <1>4 DEF UaNext

\* What is counted in the buffer are different bytes (uartwrite.c).
LEMMA UaAllDifferent ==
  ASSUME UaInv
  PROVE  Cardinality(UaBuffered) = uaocount
<1> DEFINE f == [i \in 0 .. uaocount - 1 |-> uaout[(uaostart + i) % OBLEN]]
<1>1. f \in Bijection(0 .. uaocount - 1, UaBuffered)
  <2>1. \A i, j \in 0 .. uaocount - 1 : f[i] = f[j] => i = j
    BY DEF UaInv, UaPlaced
  <2>2. f \in [0 .. uaocount - 1 -> UaBuffered]
    BY DEF UaBuffered
  <2>3. \A b \in UaBuffered : \E i \in 0 .. uaocount - 1 : f[i] = b
    BY DEF UaBuffered
  <2> HIDE DEF f
  <2> QED  BY <2>1, <2>2, <2>3 DEF Bijection, Injection, Surjection, IsInjective
<1>2. uaocount \in Nat /\ 0 \in Int /\ uaocount - 1 \in Int
  BY DEF UaInv, UaTypes
<1>3. /\ IsFiniteSet(0 .. uaocount - 1)
      /\ Cardinality(0 .. uaocount - 1) = (IF 0 > uaocount - 1 THEN 0 ELSE (uaocount - 1) - 0 + 1)
  BY <1>2, FS_Interval
<1>4. Cardinality(0 .. uaocount - 1) = uaocount
  BY <1>2, <1>3
<1> HIDE DEF f
<1>5. ExistsBijection(0 .. uaocount - 1, UaBuffered)
  BY <1>1 DEF ExistsBijection
<1> QED  BY <1>3, <1>4, <1>5, FS_Bijection

LEMMA UaLostNothing == UaInv => UaNothingLost
<1> SUFFICES ASSUME UaInv  PROVE UaNothingLost
  OBVIOUS
<1>1. UaTypes /\ UaPlaced
  BY DEF UaInv
<1>2. \A b \in UaBuffered : b \in UaCodes
  BY <1>1 DEF UaBuffered, UaPlaced
<1>3. uagiven \subseteq UaCodes /\ ualine \subseteq UaCodes /\ uahold \in UaCodes \cup {NoByte}
  BY <1>1 DEF UaTypes
<1>4. \A b \in UaCodes : b \in uagiven <=> b \in ualine \/ b = uahold \/ b \in UaBuffered
  BY <1>1 DEF UaPlaced, UaBuffered
<1>5. uagiven = (ualine \cup {uahold} \cup UaBuffered) \ {NoByte}
  BY <1>2, <1>3, <1>4, CodeIsByte
<1>6. uaoidle => uahold = NoByte /\ ~uatxirq
  BY <1>1 DEF UaPlaced
<1> QED  BY <1>5, <1>6, UaAllDifferent DEF UaNothingLost

LEMMA UaOrderKept == UaInv => UaInputInOrder
<1> SUFFICES ASSUME UaInv  PROVE UaInputInOrder
  OBVIOUS
<1>1. UaTypes /\ UaReceived
  BY DEF UaInv
<1>2. ASSUME NEW i \in 0 .. uaicount - 1
      PROVE  uain[(uaistart + i) % IBLEN] >
               (IF i = 0 THEN uataken ELSE uain[(uaistart + i - 1) % IBLEN])
  <2>1. /\ uain[(uaistart + i) % IBLEN] > uataken
        /\ \A j \in 0 .. i - 1 : uain[(uaistart + j) % IBLEN] < uain[(uaistart + i) % IBLEN]
    BY <1>1 DEF UaReceived
  <2>2. CASE i # 0
    <3>1. PICK j \in 0 .. i - 1 : j = i - 1
      BY <2>2
    <3>2. uaistart + i - 1 = uaistart + j
      BY <1>1, <3>1 DEF UaTypes
    <3>3. uain[(uaistart + j) % IBLEN] \in Nat /\ uain[(uaistart + i) % IBLEN] \in Nat
      BY <1>1, UaIn
    <3> QED  BY <2>1, <2>2, <3>1, <3>2, <3>3
  <2>3. CASE i = 0
    BY <2>1, <2>3
  <2> QED  BY <2>2, <2>3
<1>3. UaAt("read") \ Waiters(uaisema) = {p \in Procs \ Waiters(uaisema) : uaproc[p].at = "read"}
  BY DEF UaAt
<1> QED  BY <1>2, <1>3, UaByteThere DEF UaInputInOrder

-----------------------------------------------------------------------------
(* The terminal driver (device/tty) *)

(* The tail of a ring is as far ahead of its head as it holds elements. *)
RingHolds(L, h, t, n) == h \in 0 .. L - 1 /\ t = (h + n) % L

\* An element is stored at the tail, taken from the head, or taken back from the tail.
LEMMA RingMoves ==
  ASSUME NEW L \in Nat \ {0}, NEW h, NEW t, NEW n \in Int, RingHolds(L, h, t, n)
  PROVE  /\ t \in 0 .. L - 1
         /\ \A k \in Nat : RingHolds(L, (h + k) % L, t, n - k)
         /\ \A k \in Nat : RingHolds(L, h, (t + k) % L, n + k)
         /\ t + 1 < L => RingHolds(L, h, t + 1, n + 1)
         /\ RingHolds(L, h, (t - 1 + L) % L, n - 1)
         /\ \A k \in Nat : t - k >= 0 => RingHolds(L, h, t - k, n - k)
<1>1. h \in 0 .. L - 1 /\ t = (h + n) % L
  BY DEF RingHolds
<1>2. t \in 0 .. L - 1
  <2>1. h + n \in Int
    BY <1>1
  <2> QED  BY <1>1, <2>1, ModDef
<1>3. \A x, y \in Int : /\ ((x % L) + y) % L = (x + y) % L /\ (x + L) % L = x % L
                        /\ x % L \in 0 .. L - 1
  BY ModPlus, ModDef
<1>4. \A r \in 0 .. L - 1 : r % L = r
  BY ModIs
<1>5. ASSUME NEW k \in Int  PROVE (t + k) % L = (h + (n + k)) % L
  <2>1. (((h + n) % L) + k) % L = ((h + n) + k) % L
    <3>1. h + n \in Int
      BY <1>1
    <3> QED  BY <1>3, <3>1
  <2>2. (h + n) + k = h + (n + k)
    BY <1>1
  <2> QED  BY <1>1, <2>1, <2>2
<1>6. ASSUME NEW k \in Nat  PROVE RingHolds(L, (h + k) % L, t, n - k)
  <2>1. h + k \in Int /\ n - k \in Int
    BY <1>1
  <2>2. (h + k) % L \in 0 .. L - 1 /\ (((h + k) % L) + (n - k)) % L = ((h + k) + (n - k)) % L
    BY <1>3, <2>1
  <2>3. (h + k) + (n - k) = h + n
    BY <1>1
  <2> QED  BY <1>1, <2>2, <2>3 DEF RingHolds
<1>7. ASSUME NEW k \in Nat  PROVE RingHolds(L, h, (t + k) % L, n + k)
  <2>1. (t + k) % L = (h + (n + k)) % L
    BY <1>5
  <2> QED  BY <1>1, <2>1 DEF RingHolds
<1>8. t + 1 < L => RingHolds(L, h, t + 1, n + 1)
  <2> SUFFICES ASSUME t + 1 < L  PROVE RingHolds(L, h, t + 1, n + 1)
    OBVIOUS
  <2>1. t + 1 \in 0 .. L - 1
    BY <1>2
  <2>2. (t + 1) % L = t + 1
    BY <1>4, <2>1
  <2>3. (t + 1) % L = (h + (n + 1)) % L
    BY <1>5
  <2> QED  BY <1>1, <2>2, <2>3 DEF RingHolds
<1>9. RingHolds(L, h, (t - 1 + L) % L, n - 1)
  <2>1. (t + (-1)) % L = (h + (n + (-1))) % L
    BY <1>5
  <2>2. n + (-1) = n - 1 /\ t - 1 + L = (t + (-1)) + L /\ t + (-1) \in Int
    BY <1>2
  <2>3. ((t + (-1)) + L) % L = (t + (-1)) % L
    BY <1>3, <2>2
  <2>4. (t - 1 + L) % L = (h + (n - 1)) % L
    BY <2>1, <2>2, <2>3
  <2> QED  BY <1>1, <2>4 DEF RingHolds
<1>10. ASSUME NEW k \in Nat, t - k >= 0  PROVE RingHolds(L, h, t - k, n - k)
  <2>1. (t + (-k)) % L = (h + (n + (-k))) % L
    BY <1>5
  <2>2. n + (-k) = n - k /\ t + (-k) = t - k /\ t - k \in 0 .. L - 1
    BY <1>2, <1>10
  <2>3. (t - k) % L = t - k
    BY <1>4, <2>2
  <2> QED  BY <1>1, <2>1, <2>2, <2>3 DEF RingHolds
<1> QED  BY <1>2, <1>6, <1>7, <1>8, <1>9, <1>10

TyCalls == [at : {"user", "get", "got", "put", "room"}, left : Int, line : BOOLEAN, first : BOOLEAN]
TyAt(at) == {p \in Procs : typroc[p].at = at}

(* what lies in the rings, those who were let through and have not moved   *)
(* the pointer counted *)
TyFill == tyisem.n + Cardinality(TyAt("got")) + tyicursor
TyUsed == TY_OBUFLEN - tyosem.n - Cardinality(TyAt("room"))

TyTypes ==
  /\ typroc \in [Procs -> TyCalls] /\ tyicursor \in Nat /\ tyechoed \in Nat
  /\ tyimode \in {"raw", "cooked"} /\ tystray \in BOOLEAN
TySemas ==
  /\ SemaSound(tyisem) /\ Waiters(tyisem) \subseteq TyAt("got")
  /\ SemaSound(tyosem) /\ Waiters(tyosem) \subseteq TyAt("room") /\ tyosem.n <= TY_OBUFLEN
TyInv == /\ TyTypes /\ TySemas
         /\ ~tystray => RingHolds(TY_IBUFLEN, tyihead, tyitail, TyFill)
         /\ RingHolds(TY_OBUFLEN, tyohead, tyotail, TyUsed)

\* How many processes are at a point of their call (ttygetc.c, ttyputc.c).
LEMMA TyCountIs == \A x : Cardinality(TyAt(x)) \in Nat /\ TyAt(x) \subseteq Procs
<1> SUFFICES ASSUME NEW x  PROVE Cardinality(TyAt(x)) \in Nat /\ TyAt(x) \subseteq Procs
  OBVIOUS
<1>1. TyAt(x) \subseteq Procs
  BY DEF TyAt
<1>2. PICK F : F = TyAt(x)
  OBVIOUS
<1>3. Cardinality(F) \in Nat
  BY <1>1, <1>2, SemasAssumption, FS_Subset, FS_CardinalityType
<1> QED  BY <1>1, <1>2, <1>3

\* A process goes on at another point of its call (ttygetc.c, ttyputc.c).
LEMMA TyMoves ==
  ASSUME TyTypes, NEW p \in Procs, NEW to \in TyCalls, TyGoto(p, to)
  PROVE  /\ typroc' \in [Procs -> TyCalls]
         /\ \A x : TyAt(x)' = IF x = to.at THEN TyAt(x) \cup {p} ELSE TyAt(x) \ {p}
         /\ \A x : /\ Cardinality(TyAt(x)) \in Nat
                   /\ Cardinality(TyAt(x)') = Cardinality(TyAt(x)) + (IF x = to.at THEN 1 ELSE 0)
                                              - (IF x = typroc[p].at THEN 1 ELSE 0)
<1>1. /\ typroc' \in [Procs -> TyCalls] /\ typroc'[p] = to
      /\ \A q \in Procs : q # p => typroc'[q] = typroc[q]
  BY DEF TyTypes, TyGoto
<1>2. \A x : TyAt(x)' = IF x = to.at THEN TyAt(x) \cup {p} ELSE TyAt(x) \ {p}
  BY <1>1 DEF TyAt
<1>3. ASSUME NEW x
      PROVE  /\ Cardinality(TyAt(x)) \in Nat
             /\ Cardinality(TyAt(x)') = Cardinality(TyAt(x)) + (IF x = to.at THEN 1 ELSE 0)
                                        - (IF x = typroc[p].at THEN 1 ELSE 0)
  <2>1. PICK F : F = TyAt(x)
    OBVIOUS
  <2>2. PICK G : G = TyAt(x)'
    OBVIOUS
  <2>3. /\ F \subseteq Procs /\ G \subseteq Procs
        /\ (p \in F <=> x = typroc[p].at) /\ (p \in G <=> x = to.at)
        /\ \A q \in Procs : q # p => (q \in F <=> q \in G)
    BY <1>1, <2>1, <2>2 DEF TyAt
  <2>4. /\ Cardinality(F) \in Nat /\ Cardinality(G) \in Nat
        /\ Cardinality(G) = Cardinality(F) + (IF p \in G THEN 1 ELSE 0) - (IF p \in F THEN 1 ELSE 0)
    BY <2>3, CountMoves
  <2> QED  BY <2>1, <2>2, <2>3, <2>4
<1> QED  BY <1>1, <1>2, <1>3

\* What is put in the rings at the start (ttyinit.c).
LEMMA TyInitially == TyInit => TyInv
<1> SUFFICES ASSUME TyInit  PROVE TyInv
  OBVIOUS
<1>1. TY_IBUFLEN \in Nat \ {0} /\ TY_OBUFLEN \in Nat \ {0}
  BY TtyAssumption
<1>2. TyTypes
  <2>1. TyUser \in TyCalls
    BY DEF TyUser, TyCalls
  <2>2. typroc \in [Procs -> TyCalls]
    BY <2>1 DEF TyInit
  <2> QED  BY <2>2 DEF TyInit, TyTypes
<1>3. TyAt("got") = {} /\ TyAt("room") = {}
  BY DEF TyAt, TyInit, TyUser
<1>4. Cardinality(TyAt("got")) = 0 /\ Cardinality(TyAt("room")) = 0
  BY <1>3, FS_EmptySet
<1>5. /\ SemaSound(tyisem) /\ Waiters(tyisem) = {} /\ tyisem.n = 0
      /\ SemaSound(tyosem) /\ Waiters(tyosem) = {} /\ tyosem.n = TY_OBUFLEN
  BY <1>1, SemaIsSound DEF TyInit
<1>6. TyFill = 0 /\ TyUsed = 0 /\ tyihead = 0 /\ tyitail = 0 /\ tyohead = 0 /\ tyotail = 0
  BY <1>1, <1>4, <1>5 DEF TyFill, TyUsed, TyInit
<1>7. \A L \in Nat \ {0} : RingHolds(L, 0, 0, 0)
  <2> TAKE L \in Nat \ {0}
  <2>1. 0 \in 0 .. L - 1 /\ 0 + 0 = 0
    OBVIOUS
  <2>2. 0 % L = 0
    BY <2>1, ModIs
  <2> QED  BY <2>1, <2>2 DEF RingHolds
<1>8. RingHolds(TY_IBUFLEN, tyihead, tyitail, TyFill) /\ RingHolds(TY_OBUFLEN, tyohead, tyotail, TyUsed)
  BY <1>1, <1>6, <1>7
<1> QED  BY <1>1, <1>2, <1>3, <1>5, <1>8 DEF TyInv, TySemas

\* A reader moves the head by one place or none, and the semaphore or its own place agrees
\* (ttygetc.c, ttyread.c).
LEMMA TyReaderKeeps ==
  ASSUME TyInv, NEW p \in Procs, NEW to \in TyCalls, NEW from \in {"user", "get", "got"},
         to.at \in {"user", "get", "got", "put"}, TyRuns(p, from), TyGoto(p, to),
         UNCHANGED <<tyitail, tyicursor, tyimode, tyout, tystray>>, SemaSound(tyisem'),
         Waiters(tyisem') \subseteq Waiters(tyisem) \cup (IF to.at = "got" THEN {p} ELSE {}),
         NEW k \in {0, 1}, tyihead' = (IF k = 0 THEN tyihead ELSE (tyihead + 1) % TY_IBUFLEN),
         tyisem'.n = tyisem.n - k + (IF from = "got" THEN 1 ELSE 0) - (IF to.at = "got" THEN 1 ELSE 0)
  PROVE  TyInv'
<1>1. /\ TyTypes /\ TySemas /\ typroc[p].at = from /\ ~tystray
      /\ p \notin Waiters(tyisem) /\ p \notin Waiters(tyosem)
  BY DEF TyInv, TyRuns
<1>2. /\ typroc' \in [Procs -> TyCalls]
      /\ \A x : TyAt(x)' = IF x = to.at THEN TyAt(x) \cup {p} ELSE TyAt(x) \ {p}
      /\ \A x : /\ Cardinality(TyAt(x)) \in Nat
                /\ Cardinality(TyAt(x)') = Cardinality(TyAt(x)) + (IF x = to.at THEN 1 ELSE 0)
                                           - (IF x = typroc[p].at THEN 1 ELSE 0)
  BY <1>1, TyMoves
<1>3. UNCHANGED <<tyohead, tyotail, tyosem, tyoheld, tyechoed, tyier>>
  BY DEF tyout
<1>4. TyTypes'
  BY <1>1, <1>2, <1>3 DEF TyTypes
<1>5. TySemas'
  <2>1. Waiters(tyisem') \subseteq TyAt("got")'
    BY <1>1, <1>2 DEF TySemas
  <2>2. Waiters(tyosem) \subseteq TyAt("room")'
    BY <1>1, <1>2 DEF TySemas
  <2> QED  BY <1>1, <1>3, <2>1, <2>2 DEF TySemas
<1>6. tyisem.n \in Int /\ tyicursor \in Nat /\ tyosem.n \in Int
  BY <1>1 DEF TySemas, SemaSound, TyTypes
<1>7. TyUsed' = TyUsed
  <2>1. Cardinality(TyAt("room")') = Cardinality(TyAt("room"))
    BY <1>1, <1>2
  <2> QED  BY <1>3, <2>1 DEF TyUsed
<1>8. TyFill' = TyFill - k /\ TyFill \in Int
  <2>1. /\ Cardinality(TyAt("got")) \in Nat
        /\ Cardinality(TyAt("got")') = Cardinality(TyAt("got")) + (IF to.at = "got" THEN 1 ELSE 0)
                                       - (IF from = "got" THEN 1 ELSE 0)
    BY <1>1, <1>2
  <2>2. TyFill' = tyisem'.n + Cardinality(TyAt("got")') + tyicursor
    BY DEF TyFill
  <2>3. TyFill = tyisem.n + Cardinality(TyAt("got")) + tyicursor
    BY DEF TyFill
  <2>4. CASE to.at = "got"
    BY <1>6, <2>1, <2>2, <2>3, <2>4
  <2>5. CASE to.at # "got"
    BY <1>6, <2>1, <2>2, <2>3, <2>5
  <2> QED  BY <2>4, <2>5
<1>9. RingHolds(TY_IBUFLEN, tyihead, tyitail, TyFill) /\ TY_IBUFLEN \in Nat \ {0}
  BY <1>1, TtyAssumption DEF TyInv
<1>10. RingHolds(TY_IBUFLEN, tyihead', tyitail', TyFill')
  <2>1. CASE k = 0
    BY <1>8, <1>9, <2>1
  <2>2. CASE k = 1
    <3>1. RingHolds(TY_IBUFLEN, (tyihead + 1) % TY_IBUFLEN, tyitail, TyFill - 1)
      BY <1>8, <1>9, RingMoves
    <3> QED  BY <1>8, <2>2, <3>1
  <2> QED  BY <2>1, <2>2
<1>11. RingHolds(TY_OBUFLEN, tyohead', tyotail', TyUsed')
  BY <1>3, <1>7 DEF TyInv
<1> QED  BY <1>4, <1>5, <1>10, <1>11 DEF TyInv

\* A writer moves the tail by one place or none (ttyputc.c, ttywrite.c).
LEMMA TyWriterKeeps ==
  ASSUME TyInv, NEW p \in Procs, NEW to \in TyCalls, NEW from \in {"put", "room"},
         to.at \in {"user", "put", "room"}, TyRuns(p, from), TyGoto(p, to),
         UNCHANGED tyin, UNCHANGED <<tyohead, tyechoed, tystray>>, SemaSound(tyosem'),
         Waiters(tyosem') \subseteq Waiters(tyosem) \cup (IF to.at = "room" THEN {p} ELSE {}),
         tyosem'.n <= tyosem.n,
         NEW k \in {0, 1}, tyotail' = (IF k = 0 THEN tyotail ELSE (tyotail + 1) % TY_OBUFLEN),
         tyosem'.n = tyosem.n - k + (IF from = "room" THEN 1 ELSE 0) - (IF to.at = "room" THEN 1 ELSE 0)
  PROVE  TyInv'
<1>1. /\ TyTypes /\ TySemas /\ typroc[p].at = from /\ ~tystray
      /\ p \notin Waiters(tyisem) /\ p \notin Waiters(tyosem)
  BY DEF TyInv, TyRuns
<1>2. /\ typroc' \in [Procs -> TyCalls]
      /\ \A x : TyAt(x)' = IF x = to.at THEN TyAt(x) \cup {p} ELSE TyAt(x) \ {p}
      /\ \A x : /\ Cardinality(TyAt(x)) \in Nat
                /\ Cardinality(TyAt(x)') = Cardinality(TyAt(x)) + (IF x = to.at THEN 1 ELSE 0)
                                           - (IF x = typroc[p].at THEN 1 ELSE 0)
  BY <1>1, TyMoves
<1>3. UNCHANGED <<tyihead, tyitail, tyisem, tyicursor, tyimode>>
  BY DEF tyin
<1>4. TyTypes'
  BY <1>1, <1>2, <1>3 DEF TyTypes
<1>5. tyosem.n \in Int /\ TY_OBUFLEN \in Nat \ {0} /\ tyosem'.n \in Int
  BY <1>1, TtyAssumption DEF TySemas, SemaSound
<1>6. TySemas'
  <2>1. Waiters(tyosem') \subseteq TyAt("room")'
    BY <1>1, <1>2 DEF TySemas
  <2>2. Waiters(tyisem) \subseteq TyAt("got")'
    BY <1>1, <1>2 DEF TySemas
  <2>3. tyosem'.n <= TY_OBUFLEN
    BY <1>1, <1>5 DEF TySemas
  <2> QED  BY <1>1, <1>3, <2>1, <2>2, <2>3 DEF TySemas
<1>7. TyFill' = TyFill
  <2>1. Cardinality(TyAt("got")') = Cardinality(TyAt("got"))
    BY <1>1, <1>2
  <2> QED  BY <1>3, <2>1 DEF TyFill
<1>8. TyUsed' = TyUsed + k /\ TyUsed \in Int
  <2>1. /\ Cardinality(TyAt("room")) \in Nat
        /\ Cardinality(TyAt("room")') = Cardinality(TyAt("room")) + (IF to.at = "room" THEN 1 ELSE 0)
                                        - (IF from = "room" THEN 1 ELSE 0)
    BY <1>1, <1>2
  <2>2. TyUsed' = TY_OBUFLEN - tyosem'.n - Cardinality(TyAt("room")')
    BY DEF TyUsed
  <2>3. TyUsed = TY_OBUFLEN - tyosem.n - Cardinality(TyAt("room"))
    BY DEF TyUsed
  <2>4. CASE to.at = "room"
    BY <1>5, <2>1, <2>2, <2>3, <2>4
  <2>5. CASE to.at # "room"
    BY <1>5, <2>1, <2>2, <2>3, <2>5
  <2> QED  BY <2>4, <2>5
<1>9. RingHolds(TY_OBUFLEN, tyohead, tyotail, TyUsed)
  BY DEF TyInv
<1>10. RingHolds(TY_OBUFLEN, tyohead', tyotail', TyUsed')
  <2>1. CASE k = 0
    BY <1>8, <1>9, <2>1
  <2>2. CASE k = 1
    <3>1. RingHolds(TY_OBUFLEN, tyohead, (tyotail + 1) % TY_OBUFLEN, TyUsed + 1)
      BY <1>5, <1>8, <1>9, RingMoves
    <3> QED  BY <1>8, <2>2, <3>1
  <2> QED  BY <2>1, <2>2
<1>11. ~tystray' => RingHolds(TY_IBUFLEN, tyihead', tyitail', TyFill')
  BY <1>1, <1>3, <1>7 DEF TyInv
<1> QED  BY <1>4, <1>6, <1>10, <1>11 DEF TyInv

\* ttyread and ttywrite up to their first character (ttyread.c, ttywrite.c).
LEMMA TyCallKeeps ==
  ASSUME TyInv, NEW p \in Procs, NEW n \in TyCounts, TyRead(p, n) \/ TyWrite(p, n)
  PROVE  TyInv'
<1>1. n \in Int /\ SemaSound(tyisem) /\ tyisem.n \in Int /\ Available(tyisem) \in Int
  BY TtyAssumption DEF TyInv, TySemas, SemaSound, Available
<1>2. PICK to \in TyCalls : /\ to.at \in {"get", "put"} /\ TyRuns(p, "user") /\ TyGoto(p, to)
                            /\ UNCHANGED <<tyin, tyout, tystray, tytyped>>
  <2>1. CASE TyRead(p, n)
    <3> DEFINE all == n = 0 /\ tyimode # "cooked"
               m == IF all THEN Available(tyisem) ELSE n
               to == [TyUser EXCEPT !.at = "get", !.left = m, !.line = (tyimode = "cooked")]
    <3>1. TyRuns(p, "user") /\ TyGoto(p, to) /\ UNCHANGED <<tyin, tyout, tystray, tytyped>>
      BY <2>1 DEF TyRead
    <3>2. m \in Int /\ (tyimode = "cooked") \in BOOLEAN
      BY <1>1
    <3> HIDE DEF m
    <3>3. to \in TyCalls /\ to.at = "get"
      BY <3>2 DEF TyUser, TyCalls
    <3> QED  BY <3>1, <3>3
  <2>2. CASE TyWrite(p, n)
    <3> DEFINE to == [TyUser EXCEPT !.at = "put", !.left = n]
    <3>1. TyRuns(p, "user") /\ TyGoto(p, to) /\ UNCHANGED <<tyin, tyout, tystray, tytyped>>
      BY <2>2 DEF TyWrite
    <3>2. to \in TyCalls /\ to.at = "put"
      BY <1>1 DEF TyUser, TyCalls
    <3> QED  BY <3>1, <3>2
  <2> QED  BY <2>1, <2>2
<1>3. UNCHANGED <<tyihead, tyitail, tyisem, tyicursor, tyimode, tyout, tystray>>
  BY <1>2 DEF tyin
<1>4. /\ SemaSound(tyisem') /\ to.at # "got"
      /\ Waiters(tyisem') \subseteq Waiters(tyisem) \cup (IF to.at = "got" THEN {p} ELSE {})
      /\ tyihead' = (IF 0 = 0 THEN tyihead ELSE (tyihead + 1) % TY_IBUFLEN)
      /\ tyisem'.n = tyisem.n - 0 + (IF "user" = "got" THEN 1 ELSE 0) - (IF to.at = "got" THEN 1 ELSE 0)
  BY <1>1, <1>2, <1>3
<1> QED  BY <1>2, <1>3, <1>4, TyReaderKeeps

\* Where a reader goes on when it has its character (ttyread.c).
LEMMA TyTakes ==
  ASSUME TyTypes, NEW p \in Procs, TyTake(p)
  PROVE  \E to \in TyCalls : to.at \in {"user", "get"} /\ TyGoto(p, to)
<1> DEFINE next == [typroc[p] EXCEPT !.at = "get", !.left = @ - 1, !.first = FALSE]
<1>1. TyUser \in TyCalls /\ TyUser.at = "user" /\ next \in TyCalls /\ next.at = "get"
  <2>1. PICK c \in TyCalls : c = typroc[p]
    BY DEF TyTypes
  <2>2. PICK m \in Int : m = c.left - 1
    BY DEF TyCalls
  <2>3. [c EXCEPT !.at = "get", !.left = m, !.first = FALSE] \in TyCalls /\ [c EXCEPT !.at = "get", !.left = m, !.first = FALSE].at = "get"
    BY DEF TyCalls
  <2>4. TyUser \in TyCalls /\ TyUser.at = "user"
    BY DEF TyUser, TyCalls
  <2> QED  BY <2>1, <2>2, <2>3, <2>4
<1>2. TyGoto(p, TyUser) \/ TyGoto(p, next)
  BY DEF TyTake
<1> HIDE DEF next
<1> QED  BY <1>1, <1>2

LEMMA TyGetKeeps ==
  ASSUME TyInv, NEW p \in Procs, TyGet(p)
  PROVE  TyInv'
<1>1. /\ TyTypes /\ TyRuns(p, "get") /\ tyisem' = Down(tyisem, p) /\ UNCHANGED <<tyitail, tyicursor, tyimode, tyout, tystray>>
      /\ SemaSound(tyisem) /\ tyisem.n \in Int /\ p \notin Waiters(tyisem)
  BY DEF TyInv, TySemas, TyGet, TyRuns, SemaSound
<1>2. /\ SemaSound(tyisem') /\ tyisem'.n = tyisem.n - 1
      /\ Waiters(tyisem') = IF Blocks(tyisem) THEN Waiters(tyisem) \cup {p} ELSE Waiters(tyisem)
  BY <1>1, DownIs
<1>3. CASE Blocks(tyisem)
  <2> DEFINE to == [typroc[p] EXCEPT !.at = "got"]
  <2>1. to \in TyCalls /\ to.at = "got"
    BY <1>1 DEF TyTypes, TyCalls
  <2>2. TyGoto(p, to) /\ tyihead' = tyihead
    BY <1>3 DEF TyGet
  <2> HIDE DEF to
  <2>3. /\ to.at \in {"user", "get", "got", "put"}
        /\ Waiters(tyisem') \subseteq Waiters(tyisem) \cup (IF to.at = "got" THEN {p} ELSE {})
        /\ tyihead' = (IF 0 = 0 THEN tyihead ELSE (tyihead + 1) % TY_IBUFLEN)
        /\ tyisem'.n = tyisem.n - 0 + (IF "get" = "got" THEN 1 ELSE 0) - (IF to.at = "got" THEN 1 ELSE 0)
    BY <1>1, <1>2, <1>3, <2>1, <2>2
  <2> QED  BY <1>1, <1>2, <2>1, <2>2, <2>3, TyReaderKeeps
<1>4. CASE ~Blocks(tyisem)
  <2>1. TyTake(p)
    BY <1>4 DEF TyGet
  <2>2. PICK to \in TyCalls : to.at \in {"user", "get"} /\ TyGoto(p, to)
    BY <1>1, <2>1, TyTakes
  <2>3. /\ to.at \in {"user", "get", "got", "put"}
        /\ Waiters(tyisem') \subseteq Waiters(tyisem) \cup (IF to.at = "got" THEN {p} ELSE {})
        /\ tyihead' = (IF 1 = 0 THEN tyihead ELSE (tyihead + 1) % TY_IBUFLEN)
        /\ tyisem'.n = tyisem.n - 1 + (IF "get" = "got" THEN 1 ELSE 0) - (IF to.at = "got" THEN 1 ELSE 0)
    BY <1>1, <1>2, <1>4, <2>1, <2>2 DEF TyTake
  <2> QED  BY <1>1, <1>2, <2>2, <2>3, TyReaderKeeps
<1> QED  BY <1>3, <1>4

LEMMA TyGotKeeps ==
  ASSUME TyInv, NEW p \in Procs, TyGot(p)
  PROVE  TyInv'
<1>1. /\ TyTypes /\ TyRuns(p, "got") /\ tyisem' = tyisem /\ UNCHANGED <<tyitail, tyicursor, tyimode, tyout, tystray>>
      /\ SemaSound(tyisem) /\ tyisem.n \in Int /\ TyTake(p)
  BY DEF TyInv, TySemas, TyGot, SemaSound
<1>2. PICK to \in TyCalls : to.at \in {"user", "get"} /\ TyGoto(p, to)
  BY <1>1, TyTakes
<1>3. /\ to.at \in {"user", "get", "got", "put"} /\ SemaSound(tyisem')
      /\ Waiters(tyisem') \subseteq Waiters(tyisem) \cup (IF to.at = "got" THEN {p} ELSE {})
      /\ tyihead' = (IF 1 = 0 THEN tyihead ELSE (tyihead + 1) % TY_IBUFLEN)
      /\ tyisem'.n = tyisem.n - 1 + (IF "got" = "got" THEN 1 ELSE 0) - (IF to.at = "got" THEN 1 ELSE 0)
  BY <1>1, <1>2 DEF TyTake
<1> QED  BY <1>1, <1>2, <1>3, TyReaderKeeps

\* Where a writer goes on when it has stored its character (ttywrite.c).
LEMMA TyStores ==
  ASSUME TyTypes, NEW p \in Procs, TyStore(p)
  PROVE  \E to \in TyCalls : to.at \in {"user", "put"} /\ TyGoto(p, to)
<1> DEFINE next == [typroc[p] EXCEPT !.at = "put", !.left = @ - 1]
<1>1. TyUser \in TyCalls /\ TyUser.at = "user" /\ next \in TyCalls /\ next.at = "put"
  <2>1. PICK c \in TyCalls : c = typroc[p]
    BY DEF TyTypes
  <2>2. PICK m \in Int : m = c.left - 1
    BY DEF TyCalls
  <2>3. [c EXCEPT !.at = "put", !.left = m] \in TyCalls /\ [c EXCEPT !.at = "put", !.left = m].at = "put"
    BY DEF TyCalls
  <2>4. TyUser \in TyCalls /\ TyUser.at = "user"
    BY DEF TyUser, TyCalls
  <2> QED  BY <2>1, <2>2, <2>3, <2>4
<1>2. TyGoto(p, TyUser) \/ TyGoto(p, next)
  BY DEF TyStore
<1> HIDE DEF next
<1> QED  BY <1>1, <1>2

LEMMA TyPutKeeps ==
  ASSUME TyInv, NEW p \in Procs, TyPut(p)
  PROVE  TyInv'
<1>1. /\ TyTypes /\ TyRuns(p, "put") /\ tyosem' = Down(tyosem, p) /\ UNCHANGED tyin
      /\ UNCHANGED <<tyohead, tyechoed, tystray>>
      /\ SemaSound(tyosem) /\ tyosem.n \in Int /\ p \notin Waiters(tyosem)
  BY DEF TyInv, TySemas, TyPut, TyRuns, SemaSound
<1>2. /\ SemaSound(tyosem') /\ tyosem'.n = tyosem.n - 1
      /\ Waiters(tyosem') = IF Blocks(tyosem) THEN Waiters(tyosem) \cup {p} ELSE Waiters(tyosem)
  BY <1>1, DownIs
<1>3. CASE Blocks(tyosem)
  <2> DEFINE to == [typroc[p] EXCEPT !.at = "room"]
  <2>1. to \in TyCalls /\ to.at = "room"
    BY <1>1 DEF TyTypes, TyCalls
  <2>2. TyGoto(p, to) /\ tyotail' = tyotail
    BY <1>3 DEF TyPut
  <2> HIDE DEF to
  <2>3. /\ to.at \in {"user", "put", "room"} /\ tyosem'.n <= tyosem.n
        /\ Waiters(tyosem') \subseteq Waiters(tyosem) \cup (IF to.at = "room" THEN {p} ELSE {})
        /\ tyotail' = (IF 0 = 0 THEN tyotail ELSE (tyotail + 1) % TY_OBUFLEN)
        /\ tyosem'.n = tyosem.n - 0 + (IF "put" = "room" THEN 1 ELSE 0) - (IF to.at = "room" THEN 1 ELSE 0)
    BY <1>1, <1>2, <1>3, <2>1, <2>2
  <2> QED  BY <1>1, <1>2, <2>1, <2>2, <2>3, TyWriterKeeps
<1>4. CASE ~Blocks(tyosem)
  <2>1. TyStore(p)
    BY <1>4 DEF TyPut
  <2>2. PICK to \in TyCalls : to.at \in {"user", "put"} /\ TyGoto(p, to)
    BY <1>1, <2>1, TyStores
  <2>3. /\ to.at \in {"user", "put", "room"} /\ tyosem'.n <= tyosem.n
        /\ Waiters(tyosem') \subseteq Waiters(tyosem) \cup (IF to.at = "room" THEN {p} ELSE {})
        /\ tyotail' = (IF 1 = 0 THEN tyotail ELSE (tyotail + 1) % TY_OBUFLEN)
        /\ tyosem'.n = tyosem.n - 1 + (IF "put" = "room" THEN 1 ELSE 0) - (IF to.at = "room" THEN 1 ELSE 0)
    BY <1>1, <1>2, <1>4, <2>1, <2>2 DEF TyStore
  <2> QED  BY <1>1, <1>2, <2>2, <2>3, TyWriterKeeps
<1> QED  BY <1>3, <1>4

LEMMA TyRoomKeeps ==
  ASSUME TyInv, NEW p \in Procs, TyRoom(p)
  PROVE  TyInv'
<1>1. /\ TyTypes /\ TyRuns(p, "room") /\ tyosem' = tyosem /\ UNCHANGED tyin
      /\ UNCHANGED <<tyohead, tyechoed, tystray>>
      /\ SemaSound(tyosem) /\ tyosem.n \in Int /\ TyStore(p)
  BY DEF TyInv, TySemas, TyRoom, SemaSound
<1>2. PICK to \in TyCalls : to.at \in {"user", "put"} /\ TyGoto(p, to)
  BY <1>1, TyStores
<1>3. /\ to.at \in {"user", "put", "room"} /\ tyosem'.n <= tyosem.n /\ SemaSound(tyosem')
      /\ Waiters(tyosem') \subseteq Waiters(tyosem) \cup (IF to.at = "room" THEN {p} ELSE {})
      /\ tyotail' = (IF 1 = 0 THEN tyotail ELSE (tyotail + 1) % TY_OBUFLEN)
      /\ tyosem'.n = tyosem.n - 1 + (IF "room" = "room" THEN 1 ELSE 0) - (IF to.at = "room" THEN 1 ELSE 0)
  BY <1>1, <1>2 DEF TyStore
<1> QED  BY <1>1, <1>2, <1>3, TyWriterKeeps

\* The input interrupt keeps tail, head, semaphore and cursor together (ttyhandle_in.c).
LEMMA TyInputKeeps ==
  ASSUME TyInv, UNCHANGED <<typroc, tyohead, tyotail, tyosem, tyimode>>, tyechoed' \in Nat,
         tyicursor' \in Nat, tystray' \in BOOLEAN,
         SemaSound(tyisem'), Waiters(tyisem') \subseteq Waiters(tyisem),
         NEW n, n = tyisem'.n + Cardinality(TyAt("got")) + tyicursor',
         ~tystray' => RingHolds(TY_IBUFLEN, tyihead', tyitail', n)
  PROVE  TyInv'
<1>1. \A x : TyAt(x)' = TyAt(x)
  BY DEF TyAt
<1>2. TyFill' = n /\ TyUsed' = TyUsed
  BY <1>1 DEF TyFill, TyUsed
<1>3. TyTypes'
  BY DEF TyInv, TyTypes
<1>4. TySemas'
  BY <1>1 DEF TyInv, TySemas
<1>5. RingHolds(TY_OBUFLEN, tyohead', tyotail', TyUsed')
  BY <1>2 DEF TyInv
<1> QED  BY <1>2, <1>3, <1>4, <1>5 DEF TyInv

\* eputc and echoch leave a number of characters in the echo buffer (ttyhandle_in.c).
LEMMA TyEchoes ==
  ASSUME TyTypes, NEW n \in Nat, TyEcho(n)
  PROVE  tyechoed' \in Nat
<1>1. TY_EBUFLEN \in Nat \ {0} /\ tyechoed + n \in Int
  BY TtyAssumption DEF TyTypes
<1>2. (tyechoed + n) % TY_EBUFLEN \in 0 .. TY_EBUFLEN - 1
  <2>1. \A x \in Int : x % TY_EBUFLEN \in 0 .. TY_EBUFLEN - 1
    BY <1>1, ModDef
  <2> QED  BY <1>1, <2>1
<1> QED  BY <1>1, <1>2 DEF TyEcho

LEMMA TyEchochs ==
  ASSUME TyTypes, NEW ch, TyEchoch(ch)
  PROVE  tyechoed' \in Nat
<1>1. PICK n \in Nat : TyEcho(n)
  BY DEF TyEchoch
<1> QED  BY <1>1, TyEchoes

\* The input interrupt in the cooked and in the raw mode (ttyhandle_in.c).
LEMMA TyTypedKeeps ==
  ASSUME TyInv, NEW ch, ~tystray, UNCHANGED <<typroc, tyohead, tyotail, tyosem, tyimode>>,
         TyRaw(ch) \/ TyCooked(ch)
  PROVE  TyInv'
<1>1. /\ TyTypes /\ TySemas /\ SemaSound(tyisem) /\ tyisem.n \in Int /\ tyicursor \in Nat
      /\ TY_IBUFLEN \in Nat \ {0} /\ Cardinality(TyAt("got")) \in Nat
      /\ RingHolds(TY_IBUFLEN, tyihead, tyitail, TyFill) /\ tystray = FALSE
  BY TyCountIs, TtyAssumption DEF TyInv, TyTypes, TySemas, SemaSound
<1>2. TyFill \in Int /\ TyFill = tyisem.n + Cardinality(TyAt("got")) + tyicursor
  BY <1>1 DEF TyFill
<1>3. /\ tyitail \in 0 .. TY_IBUFLEN - 1
      /\ RingHolds(TY_IBUFLEN, tyihead, (tyitail + 1) % TY_IBUFLEN, TyFill + 1)
      /\ tyitail + 1 < TY_IBUFLEN => RingHolds(TY_IBUFLEN, tyihead, tyitail + 1, TyFill + 1)
      /\ RingHolds(TY_IBUFLEN, tyihead, (tyitail - 1 + TY_IBUFLEN) % TY_IBUFLEN, TyFill - 1)
      /\ \A k \in Nat : tyitail - k >= 0 => RingHolds(TY_IBUFLEN, tyihead, tyitail - k, TyFill - k)
  BY <1>1, <1>2, RingMoves
<1>4. \A k \in Nat : /\ SemaSound(UpN(tyisem, k)) /\ UpN(tyisem, k).n = tyisem.n + k
                     /\ Waiters(UpN(tyisem, k)) \subseteq Waiters(tyisem)
  BY <1>1, UpNIs
<1>5. CASE TyKeep /\ tyechoed' \in Nat
  <2>1. /\ tyihead' = tyihead /\ tyitail' = tyitail /\ tyisem' = tyisem /\ tyicursor' = tyicursor
        /\ tystray' = tystray /\ TyFill = tyisem'.n + Cardinality(TyAt("got")) + tyicursor'
    BY <1>2, <1>5 DEF TyKeep
  <2> QED  BY <1>1, <1>5, <2>1, TyInputKeeps
<1>6. ASSUME NEW c, NEW wrap \in BOOLEAN, TyDeposit(c, wrap), tyechoed' \in Nat, tyicursor' \in Nat,
             tyihead' = tyihead, SemaSound(tyisem'), Waiters(tyisem') \subseteq Waiters(tyisem),
             tyisem'.n + tyicursor' = tyisem.n + tyicursor + 1, tyisem'.n \in Int
      PROVE  TyInv'
  <2>1. TyFill + 1 = tyisem'.n + Cardinality(TyAt("got")) + tyicursor'
    BY <1>1, <1>2, <1>6
  <2>2. /\ tyitail' = IF wrap THEN (tyitail + 1) % TY_IBUFLEN ELSE tyitail + 1
        /\ tystray' = (~wrap /\ tyitail + 1 = TY_IBUFLEN)
    BY <1>6 DEF TyDeposit
  <2>3. tystray' \in BOOLEAN /\ (~tystray' => wrap \/ tyitail + 1 < TY_IBUFLEN)
    <3>1. tyitail + 1 < TY_IBUFLEN \/ tyitail + 1 = TY_IBUFLEN
      BY <1>1, <1>3
    <3> QED  BY <2>2, <3>1, Zenon
  <2>4. ~tystray' => RingHolds(TY_IBUFLEN, tyihead', tyitail', TyFill + 1)
    BY <1>3, <1>6, <2>2, <2>3
  <2> QED  BY <1>6, <2>1, <2>3, <2>4, TyInputKeeps
<1>7. CASE TyRaw(ch)
  <2>1. tyechoed' \in Nat
    BY <1>1, <1>7, TyEchoes DEF TyRaw
  <2>2. CASE TyKeep
    BY <1>5, <2>1, <2>2
  <2>3. CASE TyDeposit(ch, FALSE) /\ tyisem' = UpN(tyisem, 1) /\ UNCHANGED <<tyihead, tyicursor>>
    <3>1. /\ SemaSound(tyisem') /\ Waiters(tyisem') \subseteq Waiters(tyisem)
          /\ tyisem'.n = tyisem.n + 1
      BY <1>4, <2>3
    <3>2. tyisem'.n + tyicursor' = tyisem.n + tyicursor + 1 /\ tyisem'.n \in Int /\ tyicursor' \in Nat
      BY <1>1, <2>3, <3>1
    <3> QED  BY <1>6, <2>1, <2>3, <3>1, <3>2
  <2> QED  BY <1>7, <2>2, <2>3 DEF TyRaw
<1>8. CASE TyKill
  <2>1. /\ tyitail' = tyitail - tyicursor /\ tystray' = (tyitail' < 0) /\ tyicursor' = 0
        /\ tyihead' = (IF tyitail' < 0 THEN tyihead + TY_IBUFLEN ELSE tyihead)
        /\ tyisem' = tyisem /\ tyechoed' \in Nat
    <3>1. TyEcho(2)
      BY <1>8 DEF TyKill
    <3>2. tyechoed' \in Nat
      BY <1>1, <3>1, TyEchoes
    <3> QED  BY <1>8, <3>2 DEF TyKill
  <2>2. TyFill - tyicursor = tyisem'.n + Cardinality(TyAt("got")) + tyicursor'
    BY <1>1, <1>2, <2>1
  <2>3. ~tystray' => RingHolds(TY_IBUFLEN, tyihead', tyitail', TyFill - tyicursor)
    <3>1. ~tystray' => tyitail - tyicursor >= 0 /\ tyihead' = tyihead
      <4>1. tyitail - tyicursor < 0 \/ tyitail - tyicursor >= 0
        BY <1>1, <1>3
      <4>2. ~tystray' => ~(tyitail - tyicursor < 0)
        BY <2>1, Zenon
      <4> QED  BY <2>1, <4>1, <4>2, Zenon
    <3> QED  BY <1>1, <1>3, <2>1, <3>1
  <2>4. tystray' \in BOOLEAN /\ tyicursor' \in Nat /\ SemaSound(tyisem')
        /\ Waiters(tyisem') \subseteq Waiters(tyisem)
    BY <1>1, <2>1
  <2> QED  BY <2>1, <2>2, <2>3, <2>4, TyInputKeeps
<1>9. CASE TyErase
  <2>1. CASE tyicursor = 0
    <3>1. TyEcho(0) /\ TyKeep
      BY <1>9, <2>1 DEF TyErase
    <3>2. tyechoed' \in Nat
      BY <1>1, <3>1, TyEchoes
    <3> QED  BY <1>5, <3>1, <3>2
  <2>2. CASE tyicursor # 0
    <3>1. PICK n \in Nat : TyEcho(n)
      BY <1>9, <2>2 DEF TyErase
    <3>2. tyechoed' \in Nat
      BY <1>1, <3>1, TyEchoes
    <3>3. /\ tyicursor' = tyicursor - 1 /\ tyitail' = (tyitail - 1 + TY_IBUFLEN) % TY_IBUFLEN
          /\ tyihead' = tyihead /\ tyisem' = tyisem /\ tystray' = tystray
      BY <1>9, <2>2 DEF TyErase
    <3>4. tyicursor' \in Nat /\ TyFill - 1 = tyisem'.n + Cardinality(TyAt("got")) + tyicursor'
      BY <1>1, <1>2, <2>2, <3>3
    <3>5. /\ RingHolds(TY_IBUFLEN, tyihead', tyitail', TyFill - 1) /\ tystray' \in BOOLEAN
          /\ SemaSound(tyisem') /\ Waiters(tyisem') \subseteq Waiters(tyisem)
      BY <1>1, <1>3, <3>3
    <3> QED  BY <3>2, <3>4, <3>5, TyInputKeeps
  <2> QED  BY <2>1, <2>2
<1>10. CASE TyNewline
  <2>1. /\ TyEchoch("newline") /\ TyDeposit("newline", TRUE) /\ tyisem' = UpN(tyisem, tyicursor + 1)
        /\ tyicursor' = 0 /\ tyihead' = tyihead
    BY <1>10 DEF TyNewline
  <2>2. tyicursor + 1 \in Nat
    BY <1>1
  <2>3. /\ SemaSound(tyisem') /\ Waiters(tyisem') \subseteq Waiters(tyisem)
        /\ tyisem'.n = tyisem.n + (tyicursor + 1)
    BY <1>4, <2>1, <2>2
  <2>4. tyisem'.n + tyicursor' = tyisem.n + tyicursor + 1 /\ tyisem'.n \in Int /\ tyicursor' \in Nat
    BY <1>1, <2>1, <2>3
  <2>5. tyechoed' \in Nat
    BY <1>1, <2>1, TyEchochs
  <2> QED  BY <1>6, <2>1, <2>3, <2>4, <2>5
<1>11. CASE TyEcho(1) /\ TyKeep
  <2>1. tyechoed' \in Nat
    BY <1>1, <1>11, TyEchoes
  <2> QED  BY <1>5, <1>11, <2>1
<1>12. CASE TyEchoch(ch) /\ TyKeep
  <2>1. tyechoed' \in Nat
    BY <1>1, <1>12, TyEchochs
  <2> QED  BY <1>5, <1>12, <2>1
<1>13. CASE TyEchoch(ch) /\ TyDeposit(ch, FALSE) /\ tyisem' = UpN(tyisem, 1) /\ UNCHANGED <<tyihead, tyicursor>>
  <2>1. /\ SemaSound(tyisem') /\ Waiters(tyisem') \subseteq Waiters(tyisem)
        /\ tyisem'.n = tyisem.n + 1
    BY <1>4, <1>13
  <2>2. tyisem'.n + tyicursor' = tyisem.n + tyicursor + 1 /\ tyisem'.n \in Int /\ tyicursor' \in Nat
    BY <1>1, <1>13, <2>1
  <2>3. tyechoed' \in Nat
    BY <1>1, <1>13, TyEchochs
  <2> QED  BY <1>6, <1>13, <2>1, <2>2, <2>3
<1>14. CASE TyEchoch(ch) /\ TyDeposit(ch, TRUE) /\ tyicursor' = tyicursor + 1 /\ UNCHANGED <<tyihead, tyisem>>
  <2>1. /\ SemaSound(tyisem') /\ Waiters(tyisem') \subseteq Waiters(tyisem)
        /\ tyisem'.n + tyicursor' = tyisem.n + tyicursor + 1 /\ tyisem'.n \in Int /\ tyicursor' \in Nat
    BY <1>1, <1>14
  <2>2. tyechoed' \in Nat
    BY <1>1, <1>14, TyEchochs
  <2> QED  BY <1>6, <1>14, <2>1, <2>2
<1>15. TyCooked(ch) =>
         \/ TyKill \/ TyErase \/ TyNewline \/ (TyEcho(1) /\ TyKeep) \/ (TyEchoch(ch) /\ TyKeep)
         \/ (TyEchoch(ch) /\ TyDeposit(ch, FALSE) /\ tyisem' = UpN(tyisem, 1) /\ UNCHANGED <<tyihead, tyicursor>>)
         \/ (TyEchoch(ch) /\ TyDeposit(ch, TRUE) /\ tyicursor' = tyicursor + 1 /\ UNCHANGED <<tyihead, tyisem>>)
  BY DEF TyCooked
<1> QED  BY <1>7, <1>8, <1>9, <1>10, <1>11, <1>12, <1>13, <1>14, <1>15

\* The output interrupt sends echo and output (ttyhandle_out.c).
LEMMA TyTransmitKeeps ==
  ASSUME TyInv, NEW space \in 1 .. UART_FIFO_SIZE, TyTransmit(space)
  PROVE  TyInv'
<1>1. /\ TyTypes /\ TySemas /\ SemaSound(tyosem) /\ tyosem.n \in Int /\ tyechoed \in Nat
      /\ TY_OBUFLEN \in Nat \ {0} /\ Cardinality(TyAt("room")) \in Nat /\ tyosem.n <= TY_OBUFLEN
      /\ RingHolds(TY_OBUFLEN, tyohead, tyotail, TyUsed) /\ space \in Nat
  BY TyCountIs, TtyAssumption DEF TyInv, TyTypes, TySemas, SemaSound
<1> DEFINE echo == TySmaller(space, tyechoed)
           ochars == TySmaller(space - echo, TY_OBUFLEN - tyosem.n)
<1>2. echo \in Nat /\ echo <= space /\ echo <= tyechoed
  BY <1>1 DEF TySmaller
<1>3. /\ tyechoed' = tyechoed - echo /\ tyohead' = (tyohead + ochars) % TY_OBUFLEN
      /\ tyosem' = UpN(tyosem, ochars)
      /\ UNCHANGED <<tyin, tyotail, typroc, tystray>>
  BY DEF TyTransmit
<1> HIDE DEF echo
<1>4. ochars \in Nat /\ ochars <= TY_OBUFLEN - tyosem.n
  BY <1>1, <1>2 DEF TySmaller
<1> HIDE DEF ochars
<1>5. /\ SemaSound(tyosem') /\ tyosem'.n = tyosem.n + ochars /\ Waiters(tyosem') \subseteq Waiters(tyosem)
  BY <1>1, <1>3, <1>4, UpNIs
<1>6. \A x : TyAt(x)' = TyAt(x)
  BY <1>3 DEF TyAt
<1>7. UNCHANGED <<tyihead, tyitail, tyisem, tyicursor, tyimode, tystray>>
  BY <1>3 DEF tyin
<1>8. TyTypes'
  <2>1. tyechoed' \in Nat
    BY <1>1, <1>2, <1>3
  <2> QED  BY <1>1, <1>3, <1>7, <2>1 DEF TyTypes
<1>9. TySemas'
  <2>1. tyosem'.n <= TY_OBUFLEN
    BY <1>1, <1>4, <1>5
  <2> QED  BY <1>1, <1>5, <1>6, <1>7, <2>1 DEF TySemas
<1>10. TyFill' = TyFill /\ TyUsed \in Int /\ TyUsed' = TyUsed - ochars
  BY <1>1, <1>4, <1>5, <1>6, <1>7 DEF TyFill, TyUsed
<1>11. RingHolds(TY_OBUFLEN, tyohead', tyotail', TyUsed')
  <2>1. RingHolds(TY_OBUFLEN, (tyohead + ochars) % TY_OBUFLEN, tyotail, TyUsed - ochars)
    BY <1>1, <1>4, <1>10, RingMoves
  <2> QED  BY <1>3, <1>10, <2>1
<1>12. ~tystray' => RingHolds(TY_IBUFLEN, tyihead', tyitail', TyFill')
  BY <1>7, <1>10 DEF TyInv
<1> QED  BY <1>8, <1>9, <1>11, <1>12 DEF TyInv

LEMMA TyStep ==
  ASSUME "cbreak" \notin TyModes, TyInv, [TyNext]_tyvars
  PROVE  TyInv'
<1>1. ASSUME NEW p \in Procs, NEW n \in TyCounts, TyRead(p, n) \/ TyWrite(p, n)  PROVE TyInv'
  BY <1>1, TyCallKeeps
<1>2. ASSUME NEW p \in Procs, TyGet(p) \/ TyGot(p) \/ TyPut(p) \/ TyRoom(p)  PROVE TyInv'
  BY <1>2, TyGetKeeps, TyGotKeeps, TyPutKeeps, TyRoomKeeps
<1>3. ASSUME NEW ch \in TyChars, TyReceive(ch)  PROVE TyInv'
  <2>1. /\ ~tystray /\ UNCHANGED <<typroc, tyohead, tyotail, tyosem, tyimode>>
        /\ tyimode \in {"raw", "cooked"} /\ tyechoed \in Nat /\ tyicursor \in Nat /\ SemaSound(tyisem)
    BY <1>3 DEF TyReceive, TyInv, TyTypes, TySemas
  <2>2. CASE TyRaw(ch) \/ TyCooked(ch)
    BY <2>1, <2>2, TyTypedKeeps
  <2>3. CASE TyKeep /\ UNCHANGED tyechoed
    <3>1. /\ tyihead' = tyihead /\ tyitail' = tyitail /\ tyisem' = tyisem /\ tyicursor' = tyicursor
          /\ tystray' = tystray /\ TyFill = tyisem'.n + Cardinality(TyAt("got")) + tyicursor'
          /\ tystray \in BOOLEAN
      BY <2>3 DEF TyKeep, TyFill, TyInv, TyTypes
    <3>2. ~tystray' => RingHolds(TY_IBUFLEN, tyihead', tyitail', TyFill)
      BY <3>1 DEF TyInv
    <3> QED  BY <2>1, <2>3, <3>1, <3>2, TyInputKeeps
  <2> QED  BY <1>3, <2>1, <2>2, <2>3 DEF TyReceive
<1>4. CASE TyControl
  <2>1. /\ UNCHANGED <<typroc, tyicursor, tyisem, tyosem, tyihead, tyitail, tyohead, tyotail, tyechoed, tystray>>
        /\ tyimode' = tyimode \/ tyimode' \in TyModes
    BY <1>4 DEF TyControl, tyout
  <2>2. tyimode' \in {"raw", "cooked"}
    BY <2>1, TtyAssumption DEF TyInv, TyTypes
  <2>3. \A x : TyAt(x)' = TyAt(x)
    BY <2>1 DEF TyAt
  <2>4. TyFill' = TyFill /\ TyUsed' = TyUsed
    BY <2>1, <2>3 DEF TyFill, TyUsed
  <2>5. TyTypes' /\ TySemas'
    BY <2>1, <2>2, <2>3 DEF TyInv, TyTypes, TySemas
  <2> QED  BY <2>1, <2>4, <2>5 DEF TyInv
<1>5. ASSUME NEW space \in 1 .. UART_FIFO_SIZE, TyTransmit(space)  PROVE TyInv'
  BY <1>5, TyTransmitKeeps
<1>6. CASE UNCHANGED tyvars
  <2>1. UNCHANGED <<typroc, tyicursor, tyisem, tyosem, tyihead, tyitail, tyohead, tyotail, tyechoed, tystray, tyimode>>
    BY <1>6 DEF tyvars, tyin, tyout
  <2>2. \A x : TyAt(x)' = TyAt(x)
    BY <2>1 DEF TyAt
  <2>3. TyFill' = TyFill /\ TyUsed' = TyUsed
    BY <2>1, <2>2 DEF TyFill, TyUsed
  <2>4. TyTypes' /\ TySemas'
    BY <2>1, <2>2 DEF TyInv, TyTypes, TySemas
  <2> QED  BY <2>1, <2>3, <2>4 DEF TyInv
<1> QED  BY <1>1, <1>2, <1>3, <1>4, <1>5, <1>6 DEF TyNext

\* What the semaphores promise and those who were let through are what the counts are.
LEMMA TyAgrees == TyInv => TyRingsAgree
<1> SUFFICES ASSUME TyInv  PROVE TyRingsAgree
  OBVIOUS
<1>1. /\ SemaSound(tyisem) /\ Waiters(tyisem) \subseteq TyAt("got")
      /\ SemaSound(tyosem) /\ Waiters(tyosem) \subseteq TyAt("room")
      /\ TyAt("got") \subseteq Procs /\ TyAt("room") \subseteq Procs
      /\ tyicursor \in Nat /\ TY_OBUFLEN \in Nat
  BY TyCountIs, TtyAssumption DEF TyInv, TySemas, TyTypes
<1>2. \A s, at : TyReleased(s, at) = Cardinality(TyAt(at) \ Waiters(s))
  <2>1. \A s, at : {p \in Procs \ Waiters(s) : typroc[p].at = at} = TyAt(at) \ Waiters(s)
    BY DEF TyAt
  <2> QED  BY <2>1 DEF TyReleased
<1>3. /\ Available(tyisem) + TyReleased(tyisem, "got") = tyisem.n + Cardinality(TyAt("got"))
      /\ Available(tyisem) \in Nat /\ TyReleased(tyisem, "got") \in Nat
      /\ Cardinality(TyAt("got")) \in Nat /\ tyisem.n \in Int
  <2>1. PICK P : P = TyAt("got")
    OBVIOUS
  <2>2. /\ Available(tyisem) + Cardinality(P \ Waiters(tyisem)) = tyisem.n + Cardinality(P)
        /\ Available(tyisem) \in Nat /\ Cardinality(P \ Waiters(tyisem)) \in Nat
        /\ Cardinality(P) \in Nat /\ tyisem.n \in Int
    BY <1>1, <2>1, SemaBalance
  <2> QED  BY <1>2, <2>1, <2>2
<1>4. /\ Available(tyosem) + TyReleased(tyosem, "room") = tyosem.n + Cardinality(TyAt("room"))
      /\ Available(tyosem) \in Nat /\ TyReleased(tyosem, "room") \in Nat
      /\ Cardinality(TyAt("room")) \in Nat /\ tyosem.n \in Int
  <2>1. PICK P : P = TyAt("room")
    OBVIOUS
  <2>2. /\ Available(tyosem) + Cardinality(P \ Waiters(tyosem)) = tyosem.n + Cardinality(P)
        /\ Available(tyosem) \in Nat /\ Cardinality(P \ Waiters(tyosem)) \in Nat
        /\ Cardinality(P) \in Nat /\ tyosem.n \in Int
    BY <1>1, <2>1, SemaBalance
  <2> QED  BY <1>2, <2>1, <2>2
<1>5. ASSUME ~tystray
      PROVE  tyitail = (tyihead + Available(tyisem) + TyReleased(tyisem, "got") + tyicursor) % TY_IBUFLEN
  <2>1. tyihead \in Int /\ tyitail = (tyihead + TyFill) % TY_IBUFLEN
    BY <1>5, TtyAssumption DEF TyInv, RingHolds
  <2>2. tyihead + TyFill = tyihead + Available(tyisem) + TyReleased(tyisem, "got") + tyicursor
    BY <1>1, <1>3, <2>1 DEF TyFill
  <2> QED  BY <2>1, <2>2
<1>6. tyotail = (tyohead + TY_OBUFLEN - Available(tyosem) - TyReleased(tyosem, "room")) % TY_OBUFLEN
  <2>1. tyohead \in Int /\ tyotail = (tyohead + TyUsed) % TY_OBUFLEN
    BY TtyAssumption DEF TyInv, RingHolds
  <2>2. tyohead + TyUsed = tyohead + TY_OBUFLEN - Available(tyosem) - TyReleased(tyosem, "room")
    BY <1>1, <1>4, <2>1 DEF TyUsed
  <2> QED  BY <2>1, <2>2
<1> QED  BY <1>5, <1>6 DEF TyRingsAgree

-----------------------------------------------------------------------------
(* The loopback device (device/loopback) *)

LbCalls == [at : {"user", "read", "write", "got"}, left : Int]

LbTypes ==
  /\ lbstate \in {"free", "alloc"} /\ lbindex \in LbCells /\ lbbuffer \in [LbCells -> Nat]
  /\ lbgiven \in Nat /\ lbtaken \in Nat /\ lbwaited \in BOOLEAN
  /\ lbproc \in [Procs -> LbCalls]
  /\ SemaSound(lbsem)

(* Until a reader has to wait nobody was let through; then the count is    *)
(* what is in the buffer                                                   *)
LbFilled ==
  /\ lbsem.n \in 0 .. LOOP_BUFFER /\ lbgiven = lbtaken + lbsem.n
  /\ \A i \in 1 .. lbsem.n : lbbuffer[(lbindex + i - 1) % LOOP_BUFFER] = lbtaken + i
LbInv ==
  /\ LbTypes
  /\ ~lbwaited => /\ \A p \in Procs : lbproc[p].at # "got"
                  /\ lbstate = "alloc" => LbFilled

\* A place in the buffer (loopbackgetc.c, loopbackputc.c).
LEMMA LbPlace ==
  /\ LOOP_BUFFER \in Nat \ {0} /\ LbCells = 0 .. LOOP_BUFFER - 1
  /\ \A x \in Int : x % LOOP_BUFFER \in LbCells
<1>1. LOOP_BUFFER \in Nat \ {0} /\ LbCells = 0 .. LOOP_BUFFER - 1
  BY LoopbackAssumption DEF LbCells
<1>2. \A L \in Nat \ {0} : \A x \in Int : x % L \in 0 .. L - 1
  BY ModDef
<1> QED  BY <1>1, <1>2

\* A process goes on with its call or is done (loopbackread.c, loopbackwrite.c).
LEMMA LbGoesOn ==
  ASSUME LbTypes, NEW p \in Procs, LbMore(p) \/ LbLeave(p)
  PROVE  /\ lbproc' \in [Procs -> LbCalls] /\ lbproc'[p].at # "got"
         /\ \A q \in Procs : q # p => lbproc'[q] = lbproc[q]
<1>1. PICK c \in LbCalls : c = lbproc[p]
  BY DEF LbTypes
<1>2. LbIdle \in LbCalls /\ LbIdle.at = "user"
  BY DEF LbIdle, LbCalls
<1>3. PICK m \in Int : m = c.left - 1
  BY DEF LbCalls
<1>4. PICK x \in {"read", "write"} : x = IF c.at = "write" THEN "write" ELSE "read"
  OBVIOUS
<1>5. [at |-> x, left |-> m] \in LbCalls /\ [at |-> x, left |-> m].at # "got"
  BY DEF LbCalls
<1>6. PICK d \in LbCalls : lbproc' = [lbproc EXCEPT ![p] = d] /\ d.at # "got"
  <2>1. CASE LbLeave(p)
    BY <1>2, <2>1 DEF LbLeave
  <2>2. CASE LbMore(p) /\ c.left = 1
    BY <1>1, <1>2, <2>2 DEF LbMore
  <2>3. CASE LbMore(p) /\ c.left # 1
    BY <1>1, <1>3, <1>4, <1>5, <2>3 DEF LbMore
  <2> QED  BY <2>1, <2>2, <2>3
<1> QED  BY <1>6 DEF LbTypes

LEMMA LbInitially == LbInit => LbInv
<1> SUFFICES ASSUME LbInit  PROVE LbInv
  OBVIOUS
<1>1. 0 \in LbCells /\ LbIdle \in LbCalls /\ LbIdle.at = "user"
  BY LbPlace DEF LbIdle, LbCalls
<1>2. lbproc \in [Procs -> LbCalls] /\ lbbuffer \in [LbCells -> Nat]
  BY <1>1 DEF LbInit
<1>3. SemaSound(lbsem)
  BY SemaIsSound DEF LbInit
<1> QED  BY <1>1, <1>2, <1>3 DEF LbInit, LbInv, LbTypes

\* The first character leaves the buffer (loopbackgetc.c).
LEMMA LbTaken ==
  ASSUME LbTypes, lbtaken' = lbbuffer[lbindex], lbindex' = (lbindex + 1) % LOOP_BUFFER
  PROVE  /\ lbtaken' \in Nat /\ lbindex' \in LbCells
         /\ LbFilled /\ lbsem.n > 0 /\ lbsem'.n = lbsem.n - 1 /\ UNCHANGED <<lbbuffer, lbgiven>> => LbFilled'
<1>1. /\ lbindex \in 0 .. LOOP_BUFFER - 1 /\ LOOP_BUFFER \in Nat \ {0} /\ lbtaken \in Nat
      /\ lbgiven \in Nat
  BY LbPlace DEF LbTypes
<1>2. lbtaken' \in Nat /\ lbindex' \in LbCells
  <2>1. lbindex + 1 \in Int
    BY <1>1
  <2>2. lbindex' \in LbCells
    BY <2>1, LbPlace
  <2> QED  BY <2>2 DEF LbTypes
<1>3. ASSUME LbFilled, lbsem.n > 0, lbsem'.n = lbsem.n - 1, UNCHANGED <<lbbuffer, lbgiven>>
      PROVE  LbFilled'
  <2>1. /\ lbsem.n \in 1 .. LOOP_BUFFER /\ lbgiven = lbtaken + lbsem.n
        /\ \A i \in 1 .. lbsem.n : lbbuffer[(lbindex + i - 1) % LOOP_BUFFER] = lbtaken + i
    BY <1>1, <1>3 DEF LbFilled
  <2>2. lbtaken' = lbtaken + 1
    <3>1. 1 \in 1 .. lbsem.n /\ lbindex + 1 - 1 = lbindex
      BY <1>1, <2>1
    <3>2. lbindex % LOOP_BUFFER = lbindex
      BY <1>1, ModIs
    <3> QED  BY <2>1, <3>1, <3>2
  <2>3. ASSUME NEW i \in 1 .. lbsem'.n
        PROVE  lbbuffer[(lbindex' + i - 1) % LOOP_BUFFER] = lbtaken' + i
    <3>1. i + 1 \in 1 .. lbsem.n /\ i - 1 \in Int
      BY <1>3, <2>1
    <3>2. PICK s \in Int : s = lbindex
      BY <1>1
    <3>3. (((s + 1) % LOOP_BUFFER) + (i - 1)) % LOOP_BUFFER = (s + ((i - 1) + 1)) % LOOP_BUFFER
      BY <1>1, <3>1, <3>2, RingStep
    <3>4. (s + 1) % LOOP_BUFFER \in Int
      BY <1>1, <3>2, ModDef
    <3>5. /\ ((s + 1) % LOOP_BUFFER) + (i - 1) = lbindex' + i - 1
          /\ s + ((i - 1) + 1) = lbindex + (i + 1) - 1
      BY <1>1, <3>1, <3>2, <3>4
    <3>6. (lbindex' + i - 1) % LOOP_BUFFER = (lbindex + (i + 1) - 1) % LOOP_BUFFER
      BY <3>3, <3>5
    <3>7. lbbuffer[(lbindex + (i + 1) - 1) % LOOP_BUFFER] = lbtaken + (i + 1)
      BY <2>1, <3>1
    <3>8. lbtaken + (i + 1) = lbtaken' + i
      BY <1>1, <2>2, <3>1
    <3> QED  BY <3>6, <3>7, <3>8
  <2>4. lbsem'.n \in 0 .. LOOP_BUFFER /\ lbgiven' = lbtaken' + lbsem'.n
    BY <1>1, <1>3, <2>1, <2>2
  <2> QED  BY <1>3, <2>3, <2>4 DEF LbFilled
<1> QED  BY <1>2, <1>3

\* A character is stored behind those that were not read (loopbackputc.c).
LEMMA LbStored ==
  ASSUME LbTypes, LbFilled, ~LbFull, lbgiven' = lbgiven + 1,
         lbbuffer' = [lbbuffer EXCEPT ![(lbindex + lbsem.n) % LOOP_BUFFER] = lbgiven'],
         lbsem'.n = lbsem.n + 1, UNCHANGED <<lbindex, lbtaken>>
  PROVE  LbFilled'
<1>1. /\ lbindex \in 0 .. LOOP_BUFFER - 1 /\ LOOP_BUFFER \in Nat \ {0} /\ lbtaken \in Nat
      /\ lbgiven \in Nat /\ lbsem.n \in 0 .. LOOP_BUFFER - 1 /\ lbgiven = lbtaken + lbsem.n
      /\ \A i \in 1 .. lbsem.n : lbbuffer[(lbindex + i - 1) % LOOP_BUFFER] = lbtaken + i
  <2>1. /\ lbindex \in 0 .. LOOP_BUFFER - 1 /\ LOOP_BUFFER \in Nat \ {0} /\ lbtaken \in Nat
        /\ lbgiven \in Nat
    BY LbPlace DEF LbTypes
  <2>2. lbsem.n \in 0 .. LOOP_BUFFER /\ ~(lbsem.n >= LOOP_BUFFER)
    BY DEF LbFilled, LbFull
  <2>3. lbsem.n \in 0 .. LOOP_BUFFER - 1
    BY <2>1, <2>2
  <2> QED  BY <2>1, <2>3 DEF LbFilled
<1>2. PICK s \in Int, n \in 0 .. LOOP_BUFFER - 1 : s = lbindex /\ n = lbsem.n
  BY <1>1
<1>3. PICK m : m = (s + n) % LOOP_BUFFER
  OBVIOUS
<1>4. /\ m \in 0 .. LOOP_BUFFER - 1
      /\ \A i \in 0 .. n - 1 :
           (s + i) % LOOP_BUFFER \in 0 .. LOOP_BUFFER - 1 /\ (s + i) % LOOP_BUFFER # m
  BY <1>1, <1>3, RingPut
<1>5. lbbuffer'[m] = lbgiven' /\ \A k \in 0 .. LOOP_BUFFER - 1 : k # m => lbbuffer'[k] = lbbuffer[k]
  BY <1>2, <1>3, <1>4 DEF LbTypes, LbCells
<1>6. ASSUME NEW i \in 1 .. lbsem'.n
      PROVE  lbbuffer'[(lbindex' + i - 1) % LOOP_BUFFER] = lbtaken' + i
  <2>1. CASE i = n + 1
    <3>1. lbindex' + i - 1 = s + n /\ lbgiven' = lbtaken' + i
      BY <1>1, <1>2, <2>1
    <3> QED  BY <1>3, <1>5, <3>1
  <2>2. CASE i # n + 1
    <3>1. i \in 1 .. n /\ lbindex' + i - 1 = s + (i - 1) /\ i - 1 \in 0 .. n - 1
          /\ lbindex + i - 1 = s + (i - 1)
      BY <1>1, <1>2, <2>2
    <3>2. PICK k : k = (s + (i - 1)) % LOOP_BUFFER
      OBVIOUS
    <3>3. k \in 0 .. LOOP_BUFFER - 1 /\ k # m
      BY <1>4, <3>1, <3>2
    <3>4. lbbuffer'[k] = lbbuffer[k]
      BY <1>5, <3>3
    <3>5. lbbuffer[k] = lbtaken + i
      BY <1>1, <1>2, <3>1, <3>2
    <3> QED  BY <3>1, <3>2, <3>4, <3>5
  <2> QED  BY <2>1, <2>2
<1>7. lbsem'.n \in 0 .. LOOP_BUFFER /\ lbgiven' = lbtaken' + lbsem'.n
  BY <1>1
<1> QED  BY <1>6, <1>7 DEF LbFilled

LEMMA LbGetcKeeps ==
  ASSUME LbInv, NEW p \in Procs, LbGetc(p)
  PROVE  LbInv'
<1>1. /\ LbTypes /\ UNCHANGED <<lbstate, lbnonblock, lbbuffer, lbgiven>> /\ LbAt(p, "read")
      /\ SemaSound(lbsem) /\ lbsem.n \in Int /\ p \notin Waiters(lbsem)
  BY DEF LbInv, LbTypes, LbGetc, LbAt, SemaSound
<1>2. CASE LbLeave(p) /\ UNCHANGED <<lbsem, lbindex, lbtaken, lbwaited>>
  <2>1. /\ lbproc' \in [Procs -> LbCalls] /\ lbproc'[p].at # "got"
        /\ \A q \in Procs : q # p => lbproc'[q] = lbproc[q]
    BY <1>1, <1>2, LbGoesOn
  <2> QED  BY <1>1, <1>2, <2>1 DEF LbInv, LbTypes, LbFilled
<1>3. CASE lbstate = "free" /\ LbTake(p) /\ UNCHANGED <<lbsem, lbwaited>>
  <2>1. /\ lbproc' \in [Procs -> LbCalls] /\ lbproc'[p].at # "got"
        /\ \A q \in Procs : q # p => lbproc'[q] = lbproc[q]
    BY <1>1, <1>3, LbGoesOn DEF LbTake
  <2>2. lbtaken' \in Nat /\ lbindex' \in LbCells
    BY <1>1, <1>3, LbTaken DEF LbTake
  <2>3. lbstate' # "alloc"
    BY <1>1, <1>3
  <2> QED  BY <1>1, <1>3, <2>1, <2>2, <2>3 DEF LbInv, LbTypes
<1>4. CASE lbsem' = Down(lbsem, p) /\ lbwaited' = (lbwaited \/ Blocks(lbsem)) /\ ~Blocks(lbsem) /\ LbTake(p)
  <2>1. /\ lbproc' \in [Procs -> LbCalls] /\ lbproc'[p].at # "got"
        /\ \A q \in Procs : q # p => lbproc'[q] = lbproc[q]
    BY <1>1, <1>4, LbGoesOn DEF LbTake
  <2>2. lbtaken' = lbbuffer[lbindex] /\ lbindex' = (lbindex + 1) % LOOP_BUFFER
    BY <1>4 DEF LbTake
  <2>3. SemaSound(lbsem') /\ lbsem'.n = lbsem.n - 1 /\ lbsem.n > 0 /\ lbwaited' = lbwaited
    <3>1. SemaSound(lbsem') /\ lbsem'.n = lbsem.n - 1 /\ lbsem.n > 0
      BY <1>1, <1>4, DownIs DEF Blocks
    <3>2. lbwaited' = lbwaited
      BY <1>1, <1>4, Zenon DEF LbTypes
    <3> QED  BY <3>1, <3>2
  <2>4. /\ lbtaken' \in Nat /\ lbindex' \in LbCells /\ (LbFilled => LbFilled')
    BY <1>1, <2>2, <2>3, LbTaken
  <2>5. LbTypes'
    BY <1>1, <2>1, <2>3, <2>4 DEF LbTypes
  <2> QED  BY <1>1, <2>1, <2>3, <2>4, <2>5 DEF LbInv
<1>5. CASE lbsem' = Down(lbsem, p) /\ lbwaited' = (lbwaited \/ Blocks(lbsem)) /\ Blocks(lbsem)
           /\ lbproc' = [lbproc EXCEPT ![p].at = "got"] /\ UNCHANGED <<lbindex, lbtaken>>
  <2>1. lbwaited' = TRUE
    BY <1>5
  <2>2. lbproc' \in [Procs -> LbCalls]
    BY <1>1, <1>5 DEF LbTypes, LbCalls
  <2>3. SemaSound(lbsem')
    BY <1>1, <1>5, DownIs
  <2> QED  BY <1>1, <1>5, <2>1, <2>2, <2>3 DEF LbInv, LbTypes
<1> QED  BY <1>2, <1>3, <1>4, <1>5 DEF LbGetc

LEMMA LbPutcKeeps ==
  ASSUME LbInv, NEW p \in Procs, LbPutc(p)
  PROVE  LbInv'
<1> DEFINE i == lbindex + IF lbstate = "free" THEN -1 ELSE lbsem.n
<1>1. /\ LbTypes /\ UNCHANGED <<lbstate, lbindex, lbnonblock, lbtaken, lbwaited>>
      /\ SemaSound(lbsem) /\ lbsem.n \in Int /\ lbindex \in LbCells
      /\ LOOP_BUFFER \in Nat \ {0} /\ LbCells = 0 .. LOOP_BUFFER - 1
  BY LbPlace DEF LbInv, LbTypes, LbPutc, SemaSound
<1>2. /\ lbproc' \in [Procs -> LbCalls] /\ lbproc'[p].at # "got"
      /\ \A q \in Procs : q # p => lbproc'[q] = lbproc[q]
  BY <1>1, LbGoesOn DEF LbPutc
<1>3. CASE LbFull
  <2>1. UNCHANGED <<lbbuffer, lbsem, lbgiven>>
    BY <1>3 DEF LbPutc
  <2> QED  BY <1>1, <1>2, <2>1 DEF LbInv, LbTypes, LbFilled
<1>4. CASE ~LbFull
  <2>1. /\ lbgiven' = lbgiven + 1
        /\ lbbuffer' = IF i < 0 THEN lbbuffer ELSE [lbbuffer EXCEPT ![i % LOOP_BUFFER] = lbgiven']
        /\ lbsem' = IF lbstate = "free" THEN lbsem ELSE Up(lbsem)
    BY <1>4 DEF LbPutc
  <2>2. lbgiven' \in Nat /\ SemaSound(lbsem')
    BY <1>1, <2>1, UpIs DEF LbTypes
  <2>3. i \in Int
    BY <1>1
  <2>4. i % LOOP_BUFFER \in LbCells
    BY <2>3, LbPlace
  <2> HIDE DEF i
  <2>5. lbbuffer' \in [LbCells -> Nat]
    BY <1>1, <2>1, <2>2, <2>4 DEF LbTypes
  <2>6. LbTypes'
    BY <1>1, <1>2, <2>2, <2>5 DEF LbTypes
  <2>7. LbFilled /\ lbstate = "alloc" => LbFilled'
    <3> SUFFICES ASSUME LbFilled, lbstate = "alloc"  PROVE LbFilled'
      OBVIOUS
    <3>1. i = lbindex + lbsem.n /\ ~(i < 0) /\ lbsem' = Up(lbsem)
      BY <1>1, <2>1 DEF LbFilled, i
    <3>2. lbsem'.n = lbsem.n + 1
      BY <1>1, <3>1, UpIs
    <3>3. lbbuffer' = [lbbuffer EXCEPT ![(lbindex + lbsem.n) % LOOP_BUFFER] = lbgiven']
      BY <2>1, <3>1
    <3> QED  BY <1>1, <1>4, <2>1, <3>2, <3>3, LbStored
  <2> QED  BY <1>1, <1>2, <2>6, <2>7 DEF LbInv
<1> QED  BY <1>3, <1>4

\* The calls that do not move characters (loopbackopen.c, loopbackclose.c, loopbackcontrol.c).
LEMMA LbOtherKeeps ==
  ASSUME LbInv, NEW p \in Procs,
         LbOpen(p) \/ LbClose(p) \/ LbControl(p) \/ LbGot(p)
           \/ \E at \in {"read", "write"}, len \in LbLens : LbCall(p, at, len)
  PROVE  LbInv'
<1>1. LbTypes
  BY DEF LbInv
<1>2. SemaSound(Sema(0)) /\ Sema(0).n = 0
  BY SemaIsSound
<1>3. CASE LbOpen(p)
  <2>1. /\ lbstate' = "alloc" /\ lbsem' = Sema(0) /\ lbtaken' = lbgiven
        /\ lbbuffer' = [i \in LbCells |-> 0] /\ UNCHANGED <<lbindex, lbproc, lbgiven, lbwaited>>
    BY <1>3 DEF LbOpen
  <2>2. LbTypes'
    BY <1>1, <1>2, <2>1 DEF LbTypes
  <2>3. LbFilled'
    <3>1. lbsem'.n = 0 /\ lbgiven' = lbtaken' + 0
      BY <1>1, <1>2, <2>1 DEF LbTypes
    <3>2. 0 \in 0 .. LOOP_BUFFER /\ \A i \in 1 .. 0 : FALSE
      BY LoopbackAssumption
    <3> QED  BY <3>1, <3>2 DEF LbFilled
  <2> QED  BY <2>1, <2>2, <2>3 DEF LbInv
<1>4. CASE LbClose(p)
  <2>1. /\ lbstate' = "free" /\ lbsem' = Sema(0)
        /\ UNCHANGED <<lbindex, lbbuffer, lbproc, lbgiven, lbtaken, lbwaited>>
    BY <1>4 DEF LbClose
  <2> QED  BY <1>1, <1>2, <2>1 DEF LbInv, LbTypes
<1>5. CASE LbControl(p)
  BY <1>5 DEF LbControl, LbInv, LbTypes, LbFilled
<1>6. CASE LbGot(p)
  <2>1. /\ lbproc[p].at = "got" /\ LbTake(p) /\ UNCHANGED <<lbstate, lbsem, lbbuffer, lbgiven, lbwaited>>
    BY <1>6 DEF LbGot, LbAt
  <2>2. lbwaited /\ lbwaited'
    BY <2>1 DEF LbInv
  <2>3. lbproc' \in [Procs -> LbCalls]
    BY <1>1, <2>1, LbGoesOn DEF LbTake
  <2>4. lbtaken' \in Nat /\ lbindex' \in LbCells
    BY <1>1, <2>1, LbTaken DEF LbTake
  <2> QED  BY <1>1, <2>1, <2>2, <2>3, <2>4 DEF LbInv, LbTypes
<1>7. ASSUME NEW at \in {"read", "write"}, NEW len \in LbLens, LbCall(p, at, len)
      PROVE  LbInv'
  <2>1. lbproc' = [lbproc EXCEPT ![p] = [at |-> at, left |-> len]] /\ UNCHANGED <<lbdev, lbgiven, lbtaken, lbwaited>>
    BY <1>7 DEF LbCall
  <2>2. [at |-> at, left |-> len] \in LbCalls /\ [at |-> at, left |-> len].at # "got"
    BY LoopbackAssumption DEF LbCalls
  <2>3. lbproc' \in [Procs -> LbCalls] /\ lbproc'[p].at # "got" /\ \A q \in Procs : q # p => lbproc'[q] = lbproc[q]
    BY <1>1, <2>1, <2>2 DEF LbTypes
  <2> QED  BY <1>1, <2>1, <2>3 DEF LbInv, LbTypes, LbFilled, lbdev
<1> QED  BY <1>3, <1>4, <1>5, <1>6, <1>7

LEMMA LbStep == LbInv /\ [LbNext]_lbvars => LbInv'
<1> SUFFICES ASSUME LbInv, [LbNext]_lbvars  PROVE LbInv'
  OBVIOUS
<1>1. CASE LbNext
  BY <1>1, LbGetcKeeps, LbPutcKeeps, LbOtherKeeps DEF LbNext
<1>2. CASE UNCHANGED lbvars
  BY <1>2 DEF lbvars, lbdev, LbInv, LbTypes, LbFilled
<1> QED  BY <1>1, <1>2

LEMMA LbQueueIs == LbInv => LbIsQueue
<1> SUFFICES ASSUME LbInv, lbstate = "alloc", ~lbwaited
             PROVE  /\ lbsem.n = lbgiven - lbtaken
                    /\ \A i \in 1 .. lbsem.n : lbbuffer[(lbindex + i - 1) % LOOP_BUFFER] = lbtaken + i
  BY DEF LbIsQueue
<1>1. LbFilled /\ lbtaken \in Nat
  BY DEF LbInv, LbTypes
<1> QED  BY <1>1 DEF LbFilled

(* What the drivers of characters promise (uart, tty, loopback device):    *)
(* bytes are delivered once and in their order, the pointers of the        *)
(* terminal's rings agree with its semaphores, and the loopback device is  *)
(* a queue until a reader has had to wait, for rings and buffers of any    *)
(* size, any number of callers and any input, as long as the terminal is   *)
(* not switched to cbreak mode.                                            *)
THEOREM CharactersAreKept ==
  ASSUME "cbreak" \notin TyModes
  PROVE  UaSpec /\ TySpec /\ LbSpec => []CharactersKept
<1>1. UaInit /\ TyInit /\ LbInit => UaInv /\ TyInv /\ LbInv
  BY UaInitially, TyInitially, LbInitially
<1>2. /\ UaInv /\ [UaNext]_uavars => UaInv'
      /\ TyInv /\ [TyNext]_tyvars => TyInv'
      /\ LbInv /\ [LbNext]_lbvars => LbInv'
  BY UaStep, TyStep, LbStep
<1>3. UaInv /\ TyInv /\ LbInv => CharactersKept
  BY UaLostNothing, UaOrderKept, TyAgrees, LbQueueIs DEF CharactersKept
<1> QED  BY <1>1, <1>2, <1>3, PTL DEF UaSpec, TySpec, LbSpec

-----------------------------------------------------------------------------
(* Packets in rings of descriptors *)

\* Two positions less than a turn apart are different.
LEMMA SpotsApart ==
  ASSUME NEW L \in Nat \ {0}, NEW j \in Int, NEW k \in Int, j % L = k % L, j < k + L, k < j + L
  PROVE  j = k
<1>1. CASE j <= k
  <2>1. 0 \in 0 .. L - 1 /\ k - j \in 0 .. L - 1 /\ j + 0 = j /\ j + (k - j) = k
    BY <1>1
  <2>2. 0 = k - j
    <3>1. PICK d \in 0 .. L - 1 : d = k - j
      BY <2>1
    <3>2. (j + 0) % L = (j + d) % L
      BY <2>1, <3>1
    <3>3. 0 = d
      BY <2>1, <3>2, ModApart
    <3> QED  BY <3>1, <3>3
  <2> QED  BY <2>2
<1>2. CASE k < j
  <2>1. 0 \in 0 .. L - 1 /\ j - k \in 0 .. L - 1 /\ k + 0 = k /\ k + (j - k) = j
    BY <1>2
  <2>2. 0 = j - k
    <3>1. PICK d \in 0 .. L - 1 : d = j - k
      BY <2>1
    <3>2. (k + 0) % L = (k + d) % L
      BY <2>1, <3>1
    <3>3. 0 = d
      BY <2>1, <3>2, ModApart
    <3> QED  BY <3>1, <3>3
  <2> QED  BY <2>2
<1> QED  BY <1>1, <1>2

\* The next position.
LEMMA SpotNext ==
  ASSUME NEW L \in Nat \ {0}, NEW x \in Int
  PROVE  ((x % L) + 1) % L = (x + 1) % L /\ x % L \in 0 .. L - 1
<1>1. 1 \in Int
  OBVIOUS
<1> QED  BY <1>1, ModPlus, ModDef

\* How far apart two positions are, when the whole ring cannot be told from nothing.
LEMMA SpotsBetween ==
  ASSUME NEW L \in Nat \ {0}, NEW w \in Int, NEW u \in 0 .. L
  PROVE  ((w % L) - ((w - u) % L) + L) % L = IF u = L THEN 0 ELSE u
<1>1. PICK a \in 0 .. L - 1, x \in Int : a = w % L /\ w = L * x + a
  BY ModDef
<1>2. PICK v \in Int : v = w - u
  OBVIOUS
<1>3. PICK b \in 0 .. L - 1, y \in Int : b = v % L /\ v = L * y + b
  BY ModDef
<1>4. PICK z \in Int : z = 1 - x + y
  OBVIOUS
<1>5. L * z = L - L * x + L * y
  BY <1>4
<1>6. a - b + L = u + L * z
  <2>1. PICK p \in Int, q \in Int, t \in Int : p = L * x /\ q = L * y /\ t = L * z
    OBVIOUS
  <2>2. w = p + a /\ w - u = q + b /\ t = L - p + q
    BY <1>1, <1>2, <1>3, <1>5, <2>1
  <2>3. a - b + L = u + t
    BY <2>2
  <2> QED  BY <2>1, <2>3
<1>7. CASE u = L
  <2>1. L * (z + 1) = L * z + L
    OBVIOUS
  <2>2. a - b + L = 0 + L * (z + 1)
    BY <1>6, <1>7, <2>1
  <2>3. (0 + L * (z + 1)) % L = 0
    <3>1. 0 \in 0 .. L - 1 /\ z + 1 \in Int
      OBVIOUS
    <3> QED  BY <3>1, ModIs
  <2> QED  BY <1>1, <1>2, <1>3, <1>7, <2>2, <2>3
<1>8. CASE u # L
  <2>1. u \in 0 .. L - 1
    BY <1>8
  <2>2. (u + L * z) % L = u
    BY <2>1, ModIs
  <2> QED  BY <1>1, <1>2, <1>3, <1>6, <1>8, <2>2
<1> QED  BY <1>7, <1>8

\* A scan that goes on while places are in B, room places at most, comes to an end.
LEMMA Furthest ==
  ASSUME NEW room \in Nat, NEW B
  PROVE  \E k \in 0 .. room : /\ \A j \in 0 .. k - 1 : j \in B
                              /\ k = room \/ k \notin B
<1> DEFINE M == {k \in 0 .. room : k = room \/ k \notin B}
<1>1. M \subseteq Nat /\ room \in M
  OBVIOUS
<1>2. PICK k \in M : \A m \in M : k <= m
  <2> HIDE DEF M
  <2> QED  BY <1>1, LeastNat
<1>3. ASSUME NEW j \in 0 .. k - 1  PROVE j \in B
  <2>1. j \in 0 .. room /\ j # room /\ ~(k <= j)
    OBVIOUS
  <2> QED  BY <1>2, <2>1
<1> QED  BY <1>2, <1>3

(* f tells which packet is in each place of a ring, 0 for none: packets s + 1 *)
(* to w are there, each where its number says.                               *)
InRing(L, f, s, w) ==
  /\ f \in [0 .. L - 1 -> Int]
  /\ \A k \in s + 1 .. w : f[(k - 1) % L] = k
  /\ \A i \in 0 .. L - 1 : f[i] # 0 => f[i] \in s + 1 .. w /\ i = (f[i] - 1) % L

\* A packet goes behind the last, and the first one is taken out.
LEMMA RingMoved ==
  ASSUME NEW L \in Nat \ {0}, NEW f, NEW s \in Nat, NEW w \in Nat, s <= w, InRing(L, f, s, w)
  PROVE  /\ w - s < L => /\ w % L \in 0 .. L - 1 /\ f[w % L] = 0
                         /\ InRing(L, [f EXCEPT ![w % L] = w + 1], s, w + 1)
         /\ s < w /\ w - s <= L => /\ s % L \in 0 .. L - 1 /\ f[s % L] = s + 1
                                   /\ InRing(L, [f EXCEPT ![s % L] = 0], s + 1, w)
         /\ s = w => \A i \in 0 .. L - 1 : f[i] = 0
<1>1. \A x \in Int : x % L \in 0 .. L - 1
  BY ModDef
<1>2. ASSUME w - s < L
      PROVE  /\ w % L \in 0 .. L - 1 /\ f[w % L] = 0
             /\ InRing(L, [f EXCEPT ![w % L] = w + 1], s, w + 1)
  <2>1. PICK m \in 0 .. L - 1 : m = w % L
    BY <1>1
  <2>2. ASSUME NEW k \in s + 1 .. w  PROVE (k - 1) % L # m
    <3>1. k - 1 \in Int /\ w \in Int /\ k - 1 # w /\ k - 1 < w + L /\ w < (k - 1) + L
      BY <1>2
    <3> QED  BY <2>1, <3>1, SpotsApart
  <2>3. f[m] = 0
    <3> SUFFICES ASSUME f[m] # 0  PROVE FALSE
      OBVIOUS
    <3>1. f[m] \in s + 1 .. w /\ m = (f[m] - 1) % L
      BY DEF InRing
    <3> QED  BY <2>2, <3>1
  <2>4. PICK g : g = [f EXCEPT ![m] = w + 1]
    OBVIOUS
  <2>5. g \in [0 .. L - 1 -> Int] /\ g[m] = w + 1 /\ \A i \in 0 .. L - 1 : i # m => g[i] = f[i]
    BY <2>4 DEF InRing
  <2>6. ASSUME NEW k \in s + 1 .. w + 1  PROVE g[(k - 1) % L] = k
    <3>1. CASE k = w + 1
      <4>1. k - 1 = w
        BY <3>1
      <4> QED  BY <2>1, <2>5, <3>1, <4>1
    <3>2. CASE k # w + 1
      <4>1. k \in s + 1 .. w /\ k - 1 \in Int
        BY <3>2
      <4> QED  BY <1>1, <2>2, <2>5, <4>1 DEF InRing
    <3> QED  BY <3>1, <3>2
  <2>7. ASSUME NEW i \in 0 .. L - 1, g[i] # 0
        PROVE  g[i] \in s + 1 .. w + 1 /\ i = (g[i] - 1) % L
    <3>1. CASE i = m
      <4>1. g[i] = w + 1 /\ (w + 1) - 1 = w /\ w + 1 \in s + 1 .. w + 1
        BY <2>5, <3>1
      <4> QED  BY <2>1, <3>1, <4>1
    <3>2. CASE i # m
      <4>1. f[i] \in s + 1 .. w /\ i = (f[i] - 1) % L /\ g[i] = f[i]
        BY <2>5, <2>7, <3>2 DEF InRing
      <4> QED  BY <4>1
    <3> QED  BY <3>1, <3>2
  <2>8. InRing(L, g, s, w + 1)
    BY <2>5, <2>6, <2>7 DEF InRing
  <2> QED  BY <2>1, <2>3, <2>4, <2>8
<1>3. ASSUME s < w, w - s <= L
      PROVE  /\ s % L \in 0 .. L - 1 /\ f[s % L] = s + 1
             /\ InRing(L, [f EXCEPT ![s % L] = 0], s + 1, w)
  <2>1. PICK m \in 0 .. L - 1 : m = s % L
    BY <1>1
  <2>2. f[m] = s + 1
    <3>1. s + 1 \in s + 1 .. w /\ (s + 1) - 1 = s
      BY <1>3
    <3> QED  BY <2>1, <3>1 DEF InRing
  <2>3. PICK g : g = [f EXCEPT ![m] = 0]
    OBVIOUS
  <2>4. g \in [0 .. L - 1 -> Int] /\ g[m] = 0 /\ \A i \in 0 .. L - 1 : i # m => g[i] = f[i]
    BY <2>3 DEF InRing
  <2>5. ASSUME NEW k \in (s + 1) + 1 .. w  PROVE g[(k - 1) % L] = k
    <3>1. k \in s + 1 .. w /\ k - 1 \in Int /\ s \in Int /\ k - 1 # s /\ k - 1 < s + L /\ s < (k - 1) + L
      BY <1>3
    <3>2. (k - 1) % L # m
      BY <2>1, <3>1, SpotsApart
    <3> QED  BY <1>1, <2>4, <3>1, <3>2 DEF InRing
  <2>6. ASSUME NEW i \in 0 .. L - 1, g[i] # 0
        PROVE  g[i] \in (s + 1) + 1 .. w /\ i = (g[i] - 1) % L
    <3>1. i # m
      BY <2>4, <2>6
    <3>2. g[i] = f[i] /\ f[i] \in s + 1 .. w /\ i = (f[i] - 1) % L
      BY <2>4, <2>6, <3>1 DEF InRing
    <3>3. f[i] # s + 1
      <4>1. (s + 1) - 1 = s
        OBVIOUS
      <4> QED  BY <2>1, <3>1, <3>2, <4>1
    <3> QED  BY <3>2, <3>3
  <2>7. InRing(L, g, s + 1, w)
    BY <2>4, <2>5, <2>6 DEF InRing
  <2> QED  BY <2>1, <2>2, <2>3, <2>7
<1>4. ASSUME s = w, NEW i \in 0 .. L - 1  PROVE f[i] = 0
  <2>1. s + 1 .. w = {}
    BY <1>4
  <2> QED  BY <2>1 DEF InRing
<1> QED  BY <1>2, <1>3, <1>4

PlacesUsed(L, f) == {i \in 0 .. L - 1 : f[i] # 0}
PacketsIn(L, f) == {f[i] : i \in PlacesUsed(L, f)}

\* As many places are in use as packets are in the ring.
LEMMA RingCount ==
  ASSUME NEW L \in Nat \ {0}, NEW f, NEW s \in Nat, NEW w \in Nat, s <= w, InRing(L, f, s, w)
  PROVE  Cardinality(PlacesUsed(L, f)) = w - s
<1> DEFINE P == PlacesUsed(L, f)
<1>0. \A i : i \in P <=> i \in 0 .. L - 1 /\ f[i] # 0
  BY DEF PlacesUsed
<1> HIDE DEF P
<1>1. \A k \in s + 1 .. w : (k - 1) % L \in P /\ f[(k - 1) % L] = k
  <2> TAKE k \in s + 1 .. w
  <2>1. k - 1 \in Int /\ k # 0
    OBVIOUS
  <2>2. (k - 1) % L \in 0 .. L - 1
    BY <2>1, ModDef
  <2> QED  BY <1>0, <2>1, <2>2 DEF InRing
<1>2. \A i \in P : f[i] \in s + 1 .. w /\ i = (f[i] - 1) % L
  BY <1>0 DEF InRing
<1>4. ExistsBijection(s + 1 .. w, P)
  <2> DEFINE h == [k \in s + 1 .. w |-> (k - 1) % L]
  <2>1. h \in [s + 1 .. w -> P]
    BY <1>1
  <2>2. \A a, b \in s + 1 .. w : h[a] = h[b] => a = b
    BY <1>1
  <2>3. \A i \in P : \E k \in s + 1 .. w : h[k] = i
    BY <1>2
  <2> HIDE DEF h
  <2>4. h \in Bijection(s + 1 .. w, P)
    BY <2>1, <2>2, <2>3 DEF Bijection, Injection, Surjection, IsInjective
  <2> QED  BY <2>4 DEF ExistsBijection
<1>5. IsFiniteSet(s + 1 .. w) /\ Cardinality(s + 1 .. w) = w - s
  <2>1. s + 1 \in Int /\ w \in Int
    OBVIOUS
  <2>2. IsFiniteSet(s + 1 .. w) /\ Cardinality(s + 1 .. w) = IF s + 1 > w THEN 0 ELSE w - (s + 1) + 1
    BY <2>1, FS_Interval
  <2> QED  BY <2>2
<1>6. Cardinality(P) = Cardinality(s + 1 .. w)
  BY <1>4, <1>5, FS_Bijection
<1> QED  BY <1>5, <1>6 DEF P

\* The packets in the ring.
LEMMA RingPackets ==
  ASSUME NEW L \in Nat \ {0}, NEW f, NEW s \in Nat, NEW w \in Nat, s <= w, InRing(L, f, s, w)
  PROVE  PacketsIn(L, f) = s + 1 .. w
<1>1. ASSUME NEW k \in s + 1 .. w  PROVE k \in PacketsIn(L, f)
  <2>1. k - 1 \in Int /\ k # 0
    OBVIOUS
  <2>2. (k - 1) % L \in 0 .. L - 1
    BY <2>1, ModDef
  <2>3. (k - 1) % L \in PlacesUsed(L, f) /\ f[(k - 1) % L] = k
    BY <2>1, <2>2 DEF InRing, PlacesUsed
  <2> QED  BY <2>3 DEF PacketsIn
<1>2. ASSUME NEW i \in PlacesUsed(L, f)  PROVE f[i] \in s + 1 .. w
  BY DEF InRing, PlacesUsed
<1> QED  BY <1>1, <1>2 DEF PacketsIn

-----------------------------------------------------------------------------
(* The Galileo board's Ethernet driver (device/x86-galileo/eth) *)

QeTxF == [i \in 0 .. QeTxRing - 1 |-> IF qetx[i].own THEN qetx[i].packet ELSE 0]
QeInUse == QeTxRing - Available(qeosem)

QeDescs == {d \in [packet : Nat, own : BOOLEAN] : d.own => d.packet # 0}

QeTxTypes ==
  /\ qetx \in [0 .. QeTxRing - 1 -> QeDescs]
  /\ SemaSound(qeosem) /\ qeosem.n <= QeTxRing
  /\ qewritten \in Nat /\ qesent \in Seq(Nat) /\ qetxon \in BOOLEAN

(* Packets go round by their numbers: those that were sent, those that wait *)
(* in descriptors, and between the head and the next to be sent those that  *)
(* the handler has not taken back                                           *)
QeTxInv ==
  /\ QeTxTypes
  /\ qewritten - Len(qesent) \in 0 .. QeInUse
  /\ qetxtail = qewritten % QeTxRing /\ qetxat = Len(qesent) % QeTxRing
  /\ qetxhead = (qewritten - QeInUse) % QeTxRing
  /\ \A k \in 1 .. Len(qesent) : qesent[k] = k
  /\ InRing(QeTxRing, QeTxF, Len(qesent), qewritten)
  /\ Len(qesent) < qewritten => qetxon \/ qecpu = "poke"

LEMMA QeTxInitially == QeInit => QeTxInv
<1> SUFFICES ASSUME QeInit  PROVE QeTxInv
  OBVIOUS
<1>1. /\ QeTxRing \in Nat \ {0} /\ qesent = <<>> /\ qewritten = 0 /\ Len(qesent) = 0
      /\ qetxhead = 0 /\ qetxtail = 0 /\ qetxat = 0 /\ qeosem = Sema(QeTxRing)
      /\ qetx = [i \in 0 .. QeTxRing - 1 |-> [packet |-> 0, own |-> FALSE]] /\ qetxon = FALSE
  BY QuarkEtherAssumption DEF QeInit
<1>2. SemaSound(qeosem) /\ qeosem.n = QeTxRing /\ QeInUse = 0
  BY <1>1, SemaIsSound DEF QeInUse, Available
<1>3. 0 % QeTxRing = 0
  BY <1>1, ModIs
<1>4. QeTxTypes
  <2>1. [packet |-> 0, own |-> FALSE] \in QeDescs
    BY DEF QeDescs
  <2>2. qetx \in [0 .. QeTxRing - 1 -> QeDescs]
    BY <1>1, <2>1
  <2>3. qesent \in Seq(Nat)
    BY <1>1
  <2>4. qeosem.n <= QeTxRing
    BY <1>1, <1>2
  <2>5. qewritten \in Nat /\ qetxon \in BOOLEAN
    BY <1>1
  <2> QED  BY <1>2, <2>2, <2>3, <2>4, <2>5 DEF QeTxTypes
<1>5. InRing(QeTxRing, QeTxF, 0, 0)
  <2>1. QeTxF = [i \in 0 .. QeTxRing - 1 |-> 0]
    BY <1>1 DEF QeTxF
  <2>2. 0 + 1 .. 0 = {}
    OBVIOUS
  <2> QED  BY <2>1, <2>2 DEF InRing
<1>6. qewritten - Len(qesent) \in 0 .. QeInUse /\ qewritten - QeInUse = 0 /\ ~(Len(qesent) < qewritten)
  <2>1. 0 - 0 \in 0 .. 0 /\ 0 - 0 = 0 /\ ~(0 < 0)
    OBVIOUS
  <2>2. Len(qesent) = 0 /\ qewritten = 0 /\ QeInUse = 0
    BY <1>1, <1>2
  <2> QED  BY <2>1, <2>2
<1>7. \A k \in 1 .. Len(qesent) : qesent[k] = k
  BY <1>1
<1> QED  BY <1>1, <1>3, <1>4, <1>5, <1>6, <1>7 DEF QeTxInv

\* Types that the invariant brings along (ethwrite.c).
LEMMA QeTxInvIs ==
  ASSUME QeTxInv
  PROVE  /\ QeTxTypes /\ QeTxRing \in Nat \ {0} /\ Len(qesent) \in Nat /\ Available(qeosem) \in Nat
         /\ qewritten \in Nat
<1>1. QeTxTypes /\ QeTxRing \in Nat \ {0}
  BY QuarkEtherAssumption DEF QeTxInv
<1>2. SemaSound(qeosem) /\ qewritten \in Nat /\ qesent \in Seq(Nat)
  BY <1>1 DEF QeTxTypes
<1>3. Available(qeosem) \in Nat
  BY <1>2 DEF SemaSound, Available
<1>4. Len(qesent) \in Nat
  BY <1>2
<1> QED  BY <1>1, <1>2, <1>3, <1>4

\* A writer fills the descriptor behind the last, or waits (ethwrite.c).
LEMMA QeWriteKeeps ==
  ASSUME QeTxInv, NEW p \in Procs, QeWrite(p)
  PROVE  QeTxInv'
<1>1. /\ QeTxTypes /\ QeTxRing \in Nat \ {0} /\ qewritten \in Nat /\ Len(qesent) \in Nat
      /\ SemaSound(qeosem) /\ p \notin Waiters(qeosem) /\ qeosem' = Down(qeosem, p)
      /\ UNCHANGED <<qetxhead, qetxat, qetxon, qesent>>
  BY QuarkEtherAssumption DEF QeTxInv, QeTxTypes, QeWrite
<1>2. /\ SemaSound(qeosem') /\ qeosem'.n = qeosem.n - 1 /\ qeosem'.n <= QeTxRing
      /\ Available(qeosem) \in Nat /\ Available(qeosem') \in Nat
      /\ Blocks(qeosem) => Available(qeosem) = 0 /\ Available(qeosem') = 0
      /\ ~Blocks(qeosem) => Available(qeosem) = Available(qeosem') + 1
  <2>1. SemaSound(qeosem') /\ qeosem'.n = qeosem.n - 1 /\ qeosem.n \in Int /\ qeosem.n <= QeTxRing
    BY <1>1, DownIs DEF QeTxTypes, SemaSound
  <2> QED  BY <1>1, <2>1, DownAvailable
<1>3. CASE Blocks(qeosem)
  <2>1. UNCHANGED <<qetx, qetxtail, qewritten, qecpu>>
    BY <1>3 DEF QeWrite
  <2>2. QeInUse' = QeInUse /\ QeTxF' = QeTxF
    BY <1>2, <1>3, <2>1 DEF QeInUse, QeTxF
  <2> QED  BY <1>1, <1>2, <2>1, <2>2 DEF QeTxInv, QeTxTypes
<1>4. CASE ~Blocks(qeosem)
  <2>1. /\ qewritten' = qewritten + 1 /\ qecpu' = "poke"
        /\ qetx' = [qetx EXCEPT ![qetxtail] = [packet |-> qewritten + 1, own |-> TRUE]]
        /\ qetxtail' = (qetxtail + 1) % QeTxRing
    BY <1>4 DEF QeWrite, QeFill
  <2>2. QeInUse' = QeInUse + 1 /\ QeInUse \in Int /\ QeInUse < QeTxRing
    BY <1>1, <1>2, <1>4 DEF QeInUse
  <2>3. PICK s \in Nat, w \in Nat, u \in Int : s = Len(qesent) /\ w = qewritten /\ u = QeInUse
    BY <1>1, <2>2
  <2>4. /\ w - s \in 0 .. u /\ u < QeTxRing /\ qetxtail = w % QeTxRing /\ qetxat = s % QeTxRing
        /\ qetxhead = (w - u) % QeTxRing /\ InRing(QeTxRing, QeTxF, s, w)
    BY <2>2, <2>3 DEF QeTxInv
  <2>5. s <= w /\ w - s < QeTxRing
    BY <1>1, <2>3, <2>4
  <2>6. /\ qetxtail \in 0 .. QeTxRing - 1
        /\ InRing(QeTxRing, [QeTxF EXCEPT ![qetxtail] = w + 1], s, w + 1)
    BY <1>1, <2>4, <2>5, RingMoved
  <2>7. /\ qetx' \in [0 .. QeTxRing - 1 -> QeDescs]
        /\ QeTxF' = [QeTxF EXCEPT ![qetxtail] = w + 1]
    <3>1. PICK d \in QeDescs : d.own /\ d.packet = w + 1 /\ d = [packet |-> w + 1, own |-> TRUE]
      <4>1. w + 1 \in Nat /\ w + 1 # 0
        OBVIOUS
      <4>2. PICK v \in Nat : v = w + 1 /\ v # 0
        BY <4>1
      <4>3. [packet |-> v, own |-> TRUE] \in QeDescs
        BY <4>2 DEF QeDescs
      <4> QED  BY <4>2, <4>3
    <3>2. qetx' = [qetx EXCEPT ![qetxtail] = d]
      BY <2>1, <2>3, <3>1
    <3>3. /\ qetx' \in [0 .. QeTxRing - 1 -> QeDescs]
          /\ qetx'[qetxtail] = d /\ \A i \in 0 .. QeTxRing - 1 : i # qetxtail => qetx'[i] = qetx[i]
      BY <1>1, <2>6, <3>2 DEF QeTxTypes
    <3> QED  BY <2>6, <3>1, <3>3 DEF QeTxF
  <2>8. qetxtail' = (w + 1) % QeTxRing /\ qetxhead' = ((w + 1) - (u + 1)) % QeTxRing
    <3>1. ((w % QeTxRing) + 1) % QeTxRing = (w + 1) % QeTxRing
      <4>1. w \in Int
        OBVIOUS
      <4> QED  BY <1>1, <4>1, SpotNext
    <3>2. (w + 1) - (u + 1) = w - u
      BY <2>3
    <3> QED  BY <1>1, <2>1, <2>4, <3>1, <3>2
  <2>9. (w + 1) - s \in 0 .. u + 1 /\ w + 1 \in Nat
    BY <2>3, <2>4
  <2>10. QeTxTypes'
    BY <1>1, <1>2, <2>1, <2>3, <2>7, <2>9 DEF QeTxTypes
  <2> QED  BY <1>1, <2>1, <2>2, <2>3, <2>4, <2>6, <2>7, <2>8, <2>9, <2>10 DEF QeTxInv
<1> QED  BY <1>3, <1>4

\* The engine sends the packet it is at, or finds that there is none and rests (ethwrite.c).
LEMMA QeSendKeeps ==
  ASSUME QeTxInv, QeSend
  PROVE  QeTxInv'
<1>1. /\ QeTxTypes /\ QeTxRing \in Nat \ {0} /\ Len(qesent) \in Nat
      /\ UNCHANGED <<qetxhead, qetxtail, qeosem, qewritten, qecpu>> /\ qetxon
  BY QuarkEtherAssumption DEF QeTxInv, QeTxTypes, QeSend
<1>2. QeInUse' = QeInUse /\ QeInUse \in Int /\ QeInUse <= QeTxRing
  <2>1. Available(qeosem) \in Nat
    BY <1>1, DownAvailable DEF QeTxTypes
  <2> QED  BY <1>1, <2>1 DEF QeInUse
<1>3. PICK s \in Nat, w \in Nat, u \in Int : s = Len(qesent) /\ w = qewritten /\ u = QeInUse
  BY <1>1, <1>2 DEF QeTxTypes
<1>4. /\ w - s \in 0 .. u /\ u <= QeTxRing /\ qetxtail = w % QeTxRing /\ qetxat = s % QeTxRing
      /\ qetxhead = (w - u) % QeTxRing /\ InRing(QeTxRing, QeTxF, s, w)
      /\ \A k \in 1 .. s : qesent[k] = k
  BY <1>2, <1>3 DEF QeTxInv
<1>5. s <= w /\ w - s <= QeTxRing /\ (s = w \/ s < w)
  BY <1>1, <1>3, <1>4
<1>6. qetxat \in 0 .. QeTxRing - 1
  BY <1>1, <1>4, SpotNext
<1>7. CASE s = w
  <2>1. QeTxF[qetxat] = 0
    BY <1>1, <1>4, <1>5, <1>6, <1>7, RingMoved
  <2>2. ~qetx[qetxat].own
    <3>1. PICK d \in QeDescs : d = qetx[qetxat]
      BY <1>1, <1>6 DEF QeTxTypes
    <3> QED  BY <1>6, <2>1, <3>1 DEF QeTxF, QeDescs
  <2>3. qetxon' = FALSE /\ UNCHANGED <<qetx, qetxat, qesent>>
    BY <2>2 DEF QeSend
  <2>4. QeTxF' = QeTxF /\ QeTxTypes'
    BY <1>1, <2>3 DEF QeTxF, QeTxTypes
  <2>5. ~(Len(qesent) < qewritten)
    BY <1>3, <1>7
  <2> QED  BY <1>1, <1>2, <2>3, <2>4, <2>5 DEF QeTxInv
<1>8. CASE s < w
  <2>1. QeTxF[qetxat] = s + 1 /\ InRing(QeTxRing, [QeTxF EXCEPT ![qetxat] = 0], s + 1, w)
    BY <1>1, <1>4, <1>5, <1>8, RingMoved
  <2>2. qetx[qetxat].own /\ qetx[qetxat].packet = s + 1
    BY <1>6, <2>1 DEF QeTxF
  <2>3. /\ qesent' = Append(qesent, s + 1) /\ UNCHANGED qetxon
        /\ qetx' = [qetx EXCEPT ![qetxat].own = FALSE] /\ qetxat' = (qetxat + 1) % QeTxRing
    BY <2>2 DEF QeSend
  <2>4. /\ qesent' \in Seq(Nat) /\ Len(qesent') = s + 1 /\ \A k \in 1 .. s + 1 : qesent'[k] = k
    <3>1. qesent \in Seq(Nat) /\ s + 1 \in Nat /\ DOMAIN qesent = 1 .. s /\ Len(qesent) = s
      BY <1>1, <1>3 DEF QeTxTypes
    <3>2. /\ qesent' \in Seq(Nat) /\ Len(qesent') = s + 1 /\ qesent'[s + 1] = s + 1
          /\ \A k \in 1 .. s : qesent'[k] = qesent[k]
      BY <2>3, <3>1, AppendProperties
    <3>3. \A k \in 1 .. s + 1 : k = s + 1 \/ k \in 1 .. s
      OBVIOUS
    <3> QED  BY <1>4, <3>2, <3>3
  <2>5. /\ qetx' \in [0 .. QeTxRing - 1 -> QeDescs]
        /\ QeTxF' = [QeTxF EXCEPT ![qetxat] = 0]
    <3>0. PICK c \in QeDescs : c = qetx[qetxat]
      BY <1>1, <1>6 DEF QeTxTypes
    <3>1. PICK d \in QeDescs : d = [c EXCEPT !.own = FALSE] /\ ~d.own
      <4>1. c \in [packet : Nat, own : BOOLEAN]
        BY DEF QeDescs
      <4>2. /\ [c EXCEPT !.own = FALSE] \in [packet : Nat, own : BOOLEAN]
            /\ [c EXCEPT !.own = FALSE].own = FALSE
        BY <4>1
      <4> QED  BY <4>2 DEF QeDescs
    <3>2. qetx' = [qetx EXCEPT ![qetxat] = d]
      BY <2>3, <3>0, <3>1
    <3>3. /\ qetx' \in [0 .. QeTxRing - 1 -> QeDescs]
          /\ qetx'[qetxat] = d /\ \A i \in 0 .. QeTxRing - 1 : i # qetxat => qetx'[i] = qetx[i]
      BY <1>1, <1>6, <3>2 DEF QeTxTypes
    <3> QED  BY <1>6, <3>1, <3>3 DEF QeTxF
  <2>6. qetxat' = (s + 1) % QeTxRing
    <3>1. ((s % QeTxRing) + 1) % QeTxRing = (s + 1) % QeTxRing
      <4>1. s \in Int
        OBVIOUS
      <4> QED  BY <1>1, <4>1, SpotNext
    <3> QED  BY <1>4, <2>3, <3>1
  <2>7. w - (s + 1) \in 0 .. u
    BY <1>3, <1>4, <1>8
  <2>8. QeTxTypes'
    BY <1>1, <2>3, <2>4, <2>5 DEF QeTxTypes
  <2> QED  BY <1>1, <1>2, <1>3, <1>4, <2>1, <2>3, <2>4, <2>5, <2>6, <2>7, <2>8 DEF QeTxInv
<1> QED  BY <1>5, <1>7, <1>8


\* What the handler takes back was sent, and it takes back nothing of a full ring (ethhandler.c).
LEMMA QeSentOffIs ==
  ASSUME QeTxInv
  PROVE  /\ QeSentOff \in 0 .. (IF QeInUse = QeTxRing THEN 0 ELSE QeInUse)
         /\ QeSentOff <= QeInUse - (qewritten - Len(qesent)) \/ QeInUse = QeTxRing
<1>1. /\ QeTxTypes /\ QeTxRing \in Nat \ {0} /\ Len(qesent) \in Nat /\ Available(qeosem) \in Nat
  BY QeTxInvIs
<1>2. QeInUse \in 0 .. QeTxRing
  BY <1>1 DEF QeInUse, QeTxTypes, Available, SemaSound
<1>3. PICK s \in Nat, w \in Nat, u \in 0 .. QeTxRing : s = Len(qesent) /\ w = qewritten /\ u = QeInUse
  BY <1>1, <1>2 DEF QeTxTypes
<1>4. /\ w - s \in 0 .. u /\ qetxtail = w % QeTxRing /\ qetxhead = (w - u) % QeTxRing
      /\ InRing(QeTxRing, QeTxF, s, w)
  BY <1>3 DEF QeTxInv
<1>5. (qetxtail - qetxhead + QeTxRing) % QeTxRing = IF u = QeTxRing THEN 0 ELSE u
  <2>1. w \in Int
    OBVIOUS
  <2> QED  BY <1>1, <1>4, <2>1, SpotsBetween
<1> DEFINE used == (qetxtail - qetxhead + QeTxRing) % QeTxRing
           off(k) == \A j \in 0 .. k - 1 : ~qetx[(qetxhead + j) % QeTxRing].own
           B == {j \in Nat : ~qetx[(qetxhead + j) % QeTxRing].own}
<1>6. used \in Nat /\ used \in 0 .. u
  BY <1>3, <1>5
<1>7. QeSentOff = CHOOSE k \in 0 .. used : off(k) /\ (k = used \/ ~off(k + 1))
  BY DEF QeSentOff
<1>8. \E k \in 0 .. used : off(k) /\ (k = used \/ ~off(k + 1))
  <2> HIDE DEF used, B
  <2>1. PICK k \in 0 .. used : (\A j \in 0 .. k - 1 : j \in B) /\ (k = used \/ k \notin B)
    BY <1>6, Furthest
  <2>2. off(k)
    BY <2>1 DEF B
  <2>3. k \notin B => ~off(k + 1)
    <3>1. k \in 0 .. (k + 1) - 1 /\ k \in Nat
      BY <1>6, <2>1
    <3> QED  BY <3>1 DEF B
  <2> QED  BY <2>1, <2>2, <2>3
<1>9. QeSentOff \in 0 .. used /\ off(QeSentOff)
  <2> HIDE DEF used, off
  <2> QED  BY <1>7, <1>8
<1> HIDE DEF used, off, B
<1>10. QeSentOff \in 0 .. (IF u = QeTxRing THEN 0 ELSE u)
  BY <1>5, <1>9 DEF used
<1>11. ASSUME u # QeTxRing  PROVE QeSentOff <= u - (w - s)
  <2> SUFFICES ASSUME ~(QeSentOff <= u - (w - s))  PROVE FALSE
    OBVIOUS
  <2>1. PICK j \in Nat, k \in Nat : j = u - (w - s) /\ k = QeSentOff /\ j \in 0 .. k - 1 /\ k <= u
    <3>1. PICK k \in Nat : k = QeSentOff /\ k <= u
      BY <1>10, <1>11
    <3> QED  BY <1>4, <3>1
  <2>2. s < w /\ s <= w /\ w - s <= QeTxRing
    BY <1>1, <1>4, <2>1
  <2>3. (qetxhead + j) % QeTxRing = s % QeTxRing
    <3>1. PICK b \in Int : b = w - u
      OBVIOUS
    <3>2. b + j = s /\ j \in Int
      BY <2>1, <3>1
    <3>3. ((b % QeTxRing) + j) % QeTxRing = (b + j) % QeTxRing
      BY <1>1, <3>2, ModPlus
    <3> QED  BY <1>4, <3>1, <3>2, <3>3
  <2>4. s % QeTxRing \in 0 .. QeTxRing - 1 /\ QeTxF[s % QeTxRing] = s + 1
    BY <1>1, <1>4, <2>2, RingMoved
  <2>5. qetx[s % QeTxRing].own
    BY <2>4 DEF QeTxF
  <2>6. ~qetx[(qetxhead + j) % QeTxRing].own
    BY <1>9, <2>1 DEF off
  <2> QED  BY <2>3, <2>5, <2>6
<1> QED  BY <1>3, <1>10, <1>11

\* The handler takes back descriptors and signals as many times (ethhandler.c).
LEMMA QeHandlerKeepsTx ==
  ASSUME QeTxInv, QeHandler
  PROVE  QeTxInv'
<1>1. /\ QeTxTypes /\ QeTxRing \in Nat \ {0} /\ Len(qesent) \in Nat /\ Available(qeosem) \in Nat
      /\ UNCHANGED <<qetx, qetxtail, qetxat, qetxon, qewritten, qesent>> /\ QeTxF' = QeTxF
      /\ qecpu = "free"
  <2>0. QeTxTypes
    BY DEF QeTxInv
  <2>1. /\ QeTxTypes /\ QeTxRing \in Nat \ {0} /\ Len(qesent) \in Nat /\ Available(qeosem) \in Nat
    BY <2>0, QuarkEtherAssumption, DownAvailable DEF QeTxTypes
  <2>2. UNCHANGED <<qetx, qetxtail, qetxat, qetxon, qewritten, qesent>> /\ qecpu = "free"
    BY DEF QeHandler
  <2>3. QeTxF' = QeTxF
    BY <2>2 DEF QeTxF
  <2> QED  BY <2>1, <2>2, <2>3
<1>2. Len(qesent) < qewritten => qetxon
  BY <1>1 DEF QeTxInv
<1>3. CASE UNCHANGED <<qetxhead, qeosem>>
  BY <1>1, <1>2, <1>3 DEF QeTxInv, QeTxTypes, QeInUse
<1>4. CASE qetxhead' = (qetxhead + QeSentOff) % QeTxRing /\ qeosem' = UpN(qeosem, QeSentOff)
  <2>1. QeInUse \in 0 .. QeTxRing
    BY <1>1 DEF QeInUse, QeTxTypes, Available, SemaSound
  <2>2. PICK k \in Nat, s \in Nat, w \in Nat, u \in 0 .. QeTxRing :
          k = QeSentOff /\ s = Len(qesent) /\ w = qewritten /\ u = QeInUse
    BY <1>1, <2>1, QeSentOffIs DEF QeTxTypes
  <2>3. k <= (IF u = QeTxRing THEN 0 ELSE u) /\ (k <= u - (w - s) \/ u = QeTxRing) /\ w - s \in 0 .. u
        /\ qetxhead = (w - u) % QeTxRing
    BY <2>2, QeSentOffIs DEF QeTxInv
  <2>4. SemaSound(qeosem') /\ qeosem'.n = qeosem.n + k /\ qeosem.n \in Int
    BY <1>1, <1>4, <2>2, UpNIs DEF QeTxTypes, SemaSound
  <2>5. /\ QeInUse' = u - k /\ w - s \in 0 .. u - k /\ qeosem'.n <= QeTxRing
    <3>1. CASE u = QeTxRing
      <4>1. k = 0 /\ qeosem'.n = qeosem.n
        BY <2>3, <2>4, <3>1
      <4>2. Available(qeosem') = Available(qeosem)
        BY <4>1 DEF Available
      <4>3. QeInUse' = u /\ qeosem'.n <= QeTxRing
        BY <1>1, <2>2, <4>1, <4>2 DEF QeInUse, QeTxTypes
      <4> QED  BY <2>3, <4>1, <4>3
    <3>2. CASE u # QeTxRing
      <4>1. qeosem.n > 0 /\ qeosem.n = QeTxRing - u
        BY <1>1, <2>2, <2>4, <3>2 DEF QeInUse, Available
      <4>2. qeosem'.n = QeTxRing - u + k /\ qeosem'.n > 0
        BY <2>4, <4>1
      <4>3. QeInUse' = QeTxRing - qeosem'.n
        BY <4>2 DEF QeInUse, Available
      <4>4. k <= u - (w - s) /\ w - s \in 0 .. u
        BY <2>3, <3>2
      <4> QED  BY <1>1, <4>2, <4>3, <4>4
    <3> QED  BY <3>1, <3>2
  <2>6. qetxhead' = (w - (u - k)) % QeTxRing
    <3>1. PICK b \in Int : b = w - u
      OBVIOUS
    <3>2. ((b % QeTxRing) + k) % QeTxRing = (b + k) % QeTxRing
      <4>1. k \in Int
        OBVIOUS
      <4> QED  BY <1>1, <3>1, <4>1, ModPlus
    <3>3. b + k = w - (u - k)
      BY <3>1
    <3> QED  BY <1>4, <2>2, <2>3, <3>1, <3>2, <3>3
  <2>7. QeTxTypes'
    BY <1>1, <2>4, <2>5 DEF QeTxTypes
  <2> QED  BY <1>1, <1>2, <2>2, <2>5, <2>6, <2>7 DEF QeTxInv
<1> QED  BY <1>3, <1>4 DEF QeHandler

LEMMA QeTxStep == QeTxInv /\ [QeStep]_qevars => QeTxInv'
<1> SUFFICES ASSUME QeTxInv, [QeStep]_qevars  PROVE QeTxInv'
  OBVIOUS
<1>1. CASE \E p \in Procs : QeWrite(p)
  BY <1>1, QeWriteKeeps
<1>2. CASE QeSend \/ QeHandler
  BY <1>2, QeSendKeeps, QeHandlerKeepsTx
<1>3. CASE /\ UNCHANGED <<qetx, qetxhead, qetxtail, qeosem, qetxat, qewritten, qesent>>
           /\ qetxon' \/ (qetxon' = qetxon /\ (qecpu = "poke" => qecpu' = "poke"))
           /\ qetxon' \in BOOLEAN
  BY <1>3 DEF QeTxInv, QeTxTypes, QeTxF, QeInUse
<1>4. CASE QePoke
  <2>1. UNCHANGED <<qetx, qetxhead, qetxtail, qeosem, qetxat, qewritten, qesent>> /\ qetxon' = TRUE
    BY <1>4 DEF QePoke
  <2> QED  BY <1>3, <2>1
<1>5. qetxon \in BOOLEAN
  BY DEF QeTxInv, QeTxTypes
<1>6. CASE \/ QeHandlerReceives \/ QeRead \/ QeCopy \/ QeGiveBack
           \/ \E to \in {QeUs} \cup QeGroups : QeArrive(to)
           \/ \E g \in QeGroups : QeMulticast(g)
  <2>1. UNCHANGED qetxvars /\ (qecpu' = qecpu \/ qecpu = "receive")
    BY <1>6 DEF QeHandlerReceives, QeRead, QeCopy, QeGiveBack, QeArrive, QeMulticast
  <2> QED  BY <1>3, <1>5, <2>1 DEF qetxvars
<1>7. CASE UNCHANGED qevars
  BY <1>3, <1>5, <1>7 DEF qevars, qetxvars
<1> QED  BY <1>1, <1>2, <1>4, <1>6, <1>7 DEF QeStep

\* What the invariant says of the packets that were written (ethwrite.c, ethhandler.c).
LEMMA QeSent == QeTxInv => QeAllSent
<1> SUFFICES ASSUME QeTxInv  PROVE QeAllSent
  OBVIOUS
<1>1. /\ QeTxTypes /\ QeTxRing \in Nat \ {0} /\ Len(qesent) \in Nat /\ Available(qeosem) \in Nat
      /\ qewritten \in Nat /\ DOMAIN qetx = 0 .. QeTxRing - 1
      /\ InRing(QeTxRing, QeTxF, Len(qesent), qewritten) /\ Len(qesent) <= qewritten
  <2>1. /\ QeTxTypes /\ QeTxRing \in Nat \ {0} /\ Len(qesent) \in Nat /\ Available(qeosem) \in Nat
        /\ qewritten \in Nat /\ InRing(QeTxRing, QeTxF, Len(qesent), qewritten)
        /\ qewritten - Len(qesent) \in 0 .. QeInUse
    BY QeTxInvIs DEF QeTxInv
  <2>2. DOMAIN qetx = 0 .. QeTxRing - 1
    BY <2>1 DEF QeTxTypes
  <2>3. Len(qesent) <= qewritten
    BY <2>1 DEF QeInUse
  <2> QED  BY <2>1, <2>2, <2>3
<1> DEFINE waiting == {i \in DOMAIN qetx : qetx[i].own}
<1>2. waiting = PlacesUsed(QeTxRing, QeTxF)
  BY <1>1 DEF QeTxTypes, QeTxF, QeDescs, PlacesUsed
<1>3. PacketsIn(QeTxRing, QeTxF) = Len(qesent) + 1 .. qewritten
  BY <1>1, RingPackets
<1>4. {qetx[i].packet : i \in waiting} = PacketsIn(QeTxRing, QeTxF)
  <2>1. \A i \in waiting : QeTxF[i] = qetx[i].packet
    BY <1>1 DEF QeTxF
  <2> HIDE DEF waiting
  <2> QED  BY <1>2, <2>1 DEF PacketsIn
<1>5. waiting # {} => qetxon \/ qecpu = "poke"
  <2>1. CASE Len(qesent) < qewritten
    BY <2>1 DEF QeTxInv
  <2>2. CASE Len(qesent) = qewritten
    <3>1. \A i \in 0 .. QeTxRing - 1 : QeTxF[i] = 0
      BY <1>1, <2>2, RingMoved
    <3> QED  BY <1>2, <3>1 DEF PlacesUsed
  <2> QED  BY <1>1, <2>1, <2>2
<1>6. qesent = [k \in 1 .. Len(qesent) |-> k]
  <2>1. qesent \in Seq(Nat) /\ \A k \in 1 .. Len(qesent) : qesent[k] = k
    BY <1>1 DEF QeTxInv, QeTxTypes
  <2>2. qesent = [k \in 1 .. Len(qesent) |-> qesent[k]]
    BY <2>1
  <2> QED  BY <2>1, <2>2
<1> QED  BY <1>3, <1>4, <1>5, <1>6 DEF QeAllSent

QeRxF == [i \in 0 .. QeRxRing - 1 |-> IF qerx[i].own THEN 0 ELSE qerx[i].packet]
QeRxDescs ==
  {d \in [packet : Nat, to : {QeUs} \cup QeGroups, own : BOOLEAN] : ~d.own => d.packet # 0}
QeHas == IF qereader \in {"through", "copied"} THEN 1 ELSE 0

QeRxTypes ==
  /\ qerx \in [0 .. QeRxRing - 1 -> QeRxDescs]
  /\ qearrived \in Nat /\ qereader \in {"out", "waiting", "through", "copied"}
  /\ IF qereader = "waiting" THEN qeisem = [n |-> -1, q |-> <<Netin>>]
     ELSE qeisem.n \in Nat /\ qeisem = [n |-> qeisem.n, q |-> <<>>]

(* Of the packets that arrived g have been given back; netin has been told *)
(* of the next ones, up to the tail                                        *)
QeRxHolds(g) ==
  /\ qearrived - g \in 0 .. QeRxRing /\ QeTold <= qearrived - g
  /\ qerxhead = g % QeRxRing /\ qerxat = qearrived % QeRxRing
  /\ qerxtail = (g + QeTold) % QeRxRing
  /\ qetaken = 1 .. g + (IF qereader = "copied" THEN 1 ELSE 0)
  /\ InRing(QeRxRing, QeRxF, g, qearrived)
  /\ QeTold < qearrived - g => "RI" \in qesr \/ qecpu = "receive"
QeRxInv == ~qelapped => QeRxTypes /\ \E g \in Nat : QeRxHolds(g)

LEMMA QeRxInitially == QeInit => QeRxInv
<1> SUFFICES ASSUME QeInit  PROVE QeRxTypes /\ QeRxHolds(0)
  BY DEF QeRxInv
<1>1. /\ QeRxRing \in Nat \ {0} /\ qeisem = [n |-> 0, q |-> <<>>] /\ qeisem.n = 0
      /\ qearrived = 0 /\ qereader = "out" /\ qerxhead = 0 /\ qerxtail = 0 /\ qerxat = 0
      /\ qetaken = {}
      /\ qerx = [i \in 0 .. QeRxRing - 1 |-> [packet |-> 0, to |-> QeUs, own |-> TRUE]]
  BY QuarkEtherAssumption DEF QeInit, Sema
<1>2. QeRxTypes
  <2>1. [packet |-> 0, to |-> QeUs, own |-> TRUE] \in QeRxDescs
    BY DEF QeRxDescs
  <2>2. qerx \in [0 .. QeRxRing - 1 -> QeRxDescs]
    BY <1>1, <2>1
  <2> QED  BY <1>1, <2>2 DEF QeRxTypes
<1>3. InRing(QeRxRing, QeRxF, 0, 0)
  <2>1. QeRxF = [i \in 0 .. QeRxRing - 1 |-> 0]
    BY <1>1 DEF QeRxF
  <2>2. 0 + 1 .. 0 = {}
    OBVIOUS
  <2> QED  BY <2>1, <2>2 DEF InRing
<1>4. QeTold = 0
  <2>1. Available(qeisem) = 0
    BY <1>1 DEF Available
  <2> QED  BY <1>1, <2>1 DEF QeTold
<1>5. 0 % QeRxRing = 0 /\ 0 + 0 = 0 /\ 0 - 0 = 0 /\ 0 \in 0 .. QeRxRing /\ 1 .. 0 = {}
  BY <1>1, ModIs
<1> QED  BY <1>1, <1>2, <1>3, <1>4, <1>5 DEF QeRxHolds

\* How many packets netin has been told of when it waits once more (ethread.c).
LEMMA QeAwaitIs ==
  ASSUME QeRxTypes, qereader # "waiting", QeAwait
  PROVE  /\ qereader' \in {"waiting", "through"}
         /\ IF qereader' = "waiting" THEN qeisem' = [n |-> -1, q |-> <<Netin>>]
            ELSE qeisem'.n \in Nat /\ qeisem' = [n |-> qeisem'.n, q |-> <<>>]
         /\ QeTold' = qeisem.n
<1>1. PICK n \in Nat : n = qeisem.n /\ qeisem.q = <<>>
  BY DEF QeRxTypes
<1>2. CASE n = 0
  <2>1. Blocks(qeisem) /\ qereader' = "waiting" /\ qeisem' = [n |-> 0 - 1, q |-> Append(<<>>, Netin)]
    BY <1>1, <1>2 DEF QeAwait, Blocks, Down
  <2>2. Append(<<>>, Netin) = <<Netin>> /\ 0 - 1 = -1
    OBVIOUS
  <2>3. Available(qeisem') = 0
    BY <2>1, <2>2 DEF Available
  <2> QED  BY <1>1, <1>2, <2>1, <2>2, <2>3 DEF QeTold
<1>3. CASE n # 0
  <2>1. PICK m \in Nat : m = n - 1
    BY <1>3
  <2>2. ~Blocks(qeisem) /\ qereader' = "through" /\ qeisem' = [n |-> m, q |-> <<>>]
    BY <1>1, <1>3, <2>1 DEF QeAwait, Blocks, Down
  <2>3. Available(qeisem') = m
    BY <2>2 DEF Available
  <2>4. m + 1 = n
    BY <2>1
  <2> QED  BY <1>1, <2>2, <2>3, <2>4 DEF QeTold
<1> QED  BY <1>2, <1>3

LEMMA QeReadKeeps ==
  ASSUME QeRxTypes, NEW g \in Nat, QeRxHolds(g), QeRead
  PROVE  QeRxTypes' /\ QeRxHolds(g)'
<1>1. /\ qereader = "out" /\ QeAwait
      /\ UNCHANGED <<qerx, qerxhead, qerxtail, qerxat, qearrived, qetaken, qesr, qecpu>>
  BY DEF QeRead
<1>2. /\ qereader' \in {"waiting", "through"} /\ QeTold' = qeisem.n
      /\ IF qereader' = "waiting" THEN qeisem' = [n |-> -1, q |-> <<Netin>>]
         ELSE qeisem'.n \in Nat /\ qeisem' = [n |-> qeisem'.n, q |-> <<>>]
  BY <1>1, QeAwaitIs
<1>3. QeTold' = QeTold /\ QeRxF' = QeRxF
  <2>1. qeisem.n \in Nat
    BY <1>1 DEF QeRxTypes
  <2>2. Available(qeisem) = qeisem.n
    BY <2>1 DEF Available
  <2> QED  BY <1>1, <1>2, <2>1, <2>2 DEF QeTold, QeRxF
<1>4. QeRxTypes'
  BY <1>1, <1>2 DEF QeRxTypes
<1> QED  BY <1>1, <1>2, <1>3, <1>4 DEF QeRxHolds

\* What netin has been told of is there (ethread.c).
LEMMA QeFirstIs ==
  ASSUME QeRxTypes, NEW g \in Nat, QeRxHolds(g)
  PROVE  /\ QeTold \in Nat
         /\ qereader \in {"through", "copied"} =>
              /\ QeTold = qeisem.n + 1 /\ qeisem.n \in Nat /\ g < qearrived /\ qerxhead \in 0 .. QeRxRing - 1
              /\ ~qerx[qerxhead].own /\ qerx[qerxhead].packet = g + 1
              /\ InRing(QeRxRing, [QeRxF EXCEPT ![qerxhead] = 0], g + 1, qearrived)
<1>1. QeTold \in Nat
  <2>1. qeisem.n \in Int
    BY DEF QeRxTypes
  <2> QED  BY <2>1 DEF QeTold, Available
<1>2. ASSUME qereader \in {"through", "copied"}
      PROVE  /\ QeTold = qeisem.n + 1 /\ qeisem.n \in Nat /\ g < qearrived /\ qerxhead \in 0 .. QeRxRing - 1
             /\ ~qerx[qerxhead].own /\ qerx[qerxhead].packet = g + 1
             /\ InRing(QeRxRing, [QeRxF EXCEPT ![qerxhead] = 0], g + 1, qearrived)
  <2>1. qeisem.n \in Nat
    BY <1>2 DEF QeRxTypes
  <2>2. QeTold = qeisem.n + 1
    BY <1>2, <2>1 DEF QeTold, Available
  <2>3. /\ QeRxRing \in Nat \ {0} /\ qearrived \in Nat /\ qearrived - g \in 0 .. QeRxRing
        /\ QeTold <= qearrived - g /\ qerxhead = g % QeRxRing /\ InRing(QeRxRing, QeRxF, g, qearrived)
    BY QuarkEtherAssumption DEF QeRxTypes, QeRxHolds
  <2>4. g < qearrived /\ g <= qearrived /\ qearrived - g <= QeRxRing
    BY <2>1, <2>2, <2>3
  <2>5. /\ qerxhead \in 0 .. QeRxRing - 1 /\ QeRxF[qerxhead] = g + 1
        /\ InRing(QeRxRing, [QeRxF EXCEPT ![qerxhead] = 0], g + 1, qearrived)
    BY <2>3, <2>4, RingMoved
  <2>6. ~qerx[qerxhead].own /\ qerx[qerxhead].packet = g + 1
    <3>1. g + 1 # 0
      OBVIOUS
    <3> QED  BY <2>5, <3>1 DEF QeRxF
  <2> QED  BY <2>1, <2>2, <2>4, <2>5, <2>6
<1> QED  BY <1>1, <1>2

LEMMA QeCopyKeeps ==
  ASSUME QeRxTypes, NEW g \in Nat, QeRxHolds(g), QeCopy
  PROVE  QeRxTypes' /\ QeRxHolds(g)'
<1>1. /\ qereader = "through" /\ qereader' = "copied" /\ qetaken' = qetaken \cup {qerx[qerxhead].packet}
      /\ UNCHANGED <<qerx, qerxhead, qerxtail, qeisem, qerxat, qearrived, qesr, qecpu>>
  BY DEF QeCopy
<1>2. qerx[qerxhead].packet = g + 1
  BY <1>1, QeFirstIs
<1>3. qetaken' = 1 .. g + 1
  <2>1. qetaken = 1 .. g + 0
    BY <1>1 DEF QeRxHolds
  <2>2. 1 .. g + 1 = (1 .. g + 0) \cup {g + 1}
    OBVIOUS
  <2> QED  BY <1>1, <1>2, <2>1, <2>2
<1>4. QeTold' = QeTold /\ QeRxF' = QeRxF
  BY <1>1 DEF QeTold, QeRxF
<1>5. QeRxTypes'
  BY <1>1 DEF QeRxTypes
<1> QED  BY <1>1, <1>3, <1>4, <1>5 DEF QeRxHolds

\* The descriptor that was copied is the engine's again (ethread.c).
LEMMA QeGiveBackKeeps ==
  ASSUME QeRxTypes, NEW g \in Nat, QeRxHolds(g), QeGiveBack
  PROVE  QeRxTypes' /\ QeRxHolds(g + 1)'
<1>1. /\ qereader = "copied" /\ qerxhead' = (qerxhead + 1) % QeRxRing
      /\ qerx' = [qerx EXCEPT ![qerxhead] = [packet |-> 0, to |-> QeUs, own |-> TRUE]]
      /\ (qereader' = "out" /\ UNCHANGED qeisem) \/ QeAwait
      /\ UNCHANGED <<qerxtail, qerxat, qearrived, qetaken, qesr, qecpu>>
  BY DEF QeGiveBack
<1>2. /\ QeTold = qeisem.n + 1 /\ qeisem.n \in Nat /\ g < qearrived /\ qerxhead \in 0 .. QeRxRing - 1
      /\ InRing(QeRxRing, [QeRxF EXCEPT ![qerxhead] = 0], g + 1, qearrived)
      /\ QeRxRing \in Nat \ {0} /\ qearrived \in Nat
  BY <1>1, QeFirstIs, QuarkEtherAssumption DEF QeRxTypes
<1>3. /\ qereader' \in {"out", "waiting", "through"}
      /\ IF qereader' = "waiting" THEN qeisem' = [n |-> -1, q |-> <<Netin>>]
         ELSE qeisem'.n \in Nat /\ qeisem' = [n |-> qeisem'.n, q |-> <<>>]
      /\ QeTold' = qeisem.n
  <2>1. CASE QeAwait
    BY <1>1, <2>1, QeAwaitIs
  <2>2. CASE qereader' = "out" /\ UNCHANGED qeisem
    <3>1. qeisem.n \in Nat /\ qeisem = [n |-> qeisem.n, q |-> <<>>]
      BY <1>1 DEF QeRxTypes
    <3>2. Available(qeisem') = qeisem.n
      BY <2>2, <3>1 DEF Available
    <3>3. QeTold' = qeisem.n
      BY <2>2, <3>1, <3>2 DEF QeTold
    <3> QED  BY <2>2, <3>1, <3>3
  <2> QED  BY <1>1, <2>1, <2>2
<1>4. /\ qerx' \in [0 .. QeRxRing - 1 -> QeRxDescs] /\ QeRxF' = [QeRxF EXCEPT ![qerxhead] = 0]
  <2>1. PICK d \in QeRxDescs : d = [packet |-> 0, to |-> QeUs, own |-> TRUE] /\ d.own
    <3>1. [packet |-> 0, to |-> QeUs, own |-> TRUE] \in QeRxDescs
      BY DEF QeRxDescs
    <3> QED  BY <3>1
  <2>2. qerx' = [qerx EXCEPT ![qerxhead] = d]
    BY <1>1, <2>1
  <2>3. /\ qerx' \in [0 .. QeRxRing - 1 -> QeRxDescs]
        /\ qerx'[qerxhead] = d /\ \A i \in 0 .. QeRxRing - 1 : i # qerxhead => qerx'[i] = qerx[i]
    BY <1>2, <2>2 DEF QeRxTypes
  <2> QED  BY <1>2, <2>1, <2>3 DEF QeRxF
<1>5. QeRxTypes'
  BY <1>1, <1>3, <1>4 DEF QeRxTypes
<1>6. PICK t \in Nat, a \in Nat : t = qeisem.n /\ a = qearrived
  BY <1>2
<1>7. /\ a - g \in 0 .. QeRxRing /\ t + 1 <= a - g /\ qerxhead = g % QeRxRing
      /\ qerxat = a % QeRxRing /\ qerxtail = (g + (t + 1)) % QeRxRing /\ qetaken = 1 .. g + 1
      /\ t + 1 < a - g => "RI" \in qesr \/ qecpu = "receive"
  BY <1>1, <1>2, <1>6 DEF QeRxHolds
<1>8. /\ a - (g + 1) \in 0 .. QeRxRing /\ t <= a - (g + 1) /\ (g + 1) + t = g + (t + 1)
      /\ t < a - (g + 1) => t + 1 < a - g
  <2>1. QeRxRing \in Nat /\ a - g \in 0 .. QeRxRing /\ t + 1 <= a - g
    BY <1>2, <1>7
  <2> QED  BY <2>1
<1>9. qerxhead' = (g + 1) % QeRxRing
  <2>1. g \in Int
    OBVIOUS
  <2> QED  BY <1>1, <1>2, <1>7, <2>1, SpotNext
<1>10. 1 .. (g + 1) + 0 = 1 .. g + 1 /\ g + 1 \in Nat
  OBVIOUS
<1>11. QeTold' = t /\ qearrived' = a /\ qereader' # "copied"
  BY <1>1, <1>3, <1>6
<1>12. InRing(QeRxRing, QeRxF', g + 1, a)
  BY <1>2, <1>4, <1>6
<1>13. qerxtail' = ((g + 1) + t) % QeRxRing /\ qetaken' = 1 .. (g + 1) + 0 /\ qerxat' = a % QeRxRing
  BY <1>1, <1>7, <1>8, <1>10
<1>14. t < a - (g + 1) => "RI" \in qesr' \/ qecpu' = "receive"
  BY <1>1, <1>7, <1>8
<1> QED  BY <1>5, <1>8, <1>9, <1>11, <1>12, <1>13, <1>14 DEF QeRxHolds

\* A packet goes to the descriptor behind the last (ethhandler.c: the engine).
LEMMA QeArriveKeeps ==
  ASSUME QeRxTypes, NEW g \in Nat, QeRxHolds(g), NEW to \in {QeUs} \cup QeGroups, QeArrive(to)
  PROVE  QeRxTypes' /\ QeRxHolds(g)'
<1>1. /\ qerx[qerxat].own /\ qearrived' = qearrived + 1 /\ qerxat' = (qerxat + 1) % QeRxRing
      /\ qerx' = [qerx EXCEPT ![qerxat] = [packet |-> qearrived + 1, to |-> to, own |-> FALSE]]
      /\ "RI" \in qesr'
      /\ UNCHANGED <<qerxhead, qerxtail, qeisem, qereader, qetaken, qecpu>>
  BY DEF QeArrive
<1>2. PICK a \in Nat, t \in Nat : a = qearrived /\ t = QeTold
  BY QeFirstIs DEF QeRxTypes
<1>3. /\ QeRxRing \in Nat \ {0} /\ a - g \in 0 .. QeRxRing /\ t <= a - g
      /\ qerxat = a % QeRxRing /\ InRing(QeRxRing, QeRxF, g, a)
  BY <1>2, QuarkEtherAssumption DEF QeRxHolds
<1>4. qerxat \in 0 .. QeRxRing - 1 /\ QeRxF[qerxat] = 0
  <2>1. qerxat \in 0 .. QeRxRing - 1
    <3>1. a \in Int
      OBVIOUS
    <3> QED  BY <1>3, <3>1, SpotNext
  <2> QED  BY <1>1, <2>1 DEF QeRxF
<1>5. a - g < QeRxRing
  <2> SUFFICES ASSUME ~(a - g < QeRxRing)  PROVE FALSE
    OBVIOUS
  <2>1. g < a /\ g <= a /\ a - g <= QeRxRing /\ g + QeRxRing = a
    BY <1>3
  <2>2. QeRxF[g % QeRxRing] = g + 1
    BY <1>3, <2>1, RingMoved
  <2>3. (g + QeRxRing) % QeRxRing = g % QeRxRing
    <3>1. g \in Int /\ 0 \in Int
      OBVIOUS
    <3> QED  BY <1>3, <3>1, ModPlus
  <2>4. QeRxF[qerxat] = g + 1 /\ g + 1 # 0
    BY <1>3, <2>1, <2>2, <2>3
  <2> QED  BY <1>4, <2>4
<1>6. InRing(QeRxRing, [QeRxF EXCEPT ![qerxat] = a + 1], g, a + 1)
  <2>1. g <= a
    BY <1>3
  <2> QED  BY <1>3, <1>5, <2>1, RingMoved
<1>7. qerx' \in [0 .. QeRxRing - 1 -> QeRxDescs] /\ QeRxF' = [QeRxF EXCEPT ![qerxat] = a + 1]
  <2>1. PICK d \in QeRxDescs : ~d.own /\ d.packet = a + 1 /\ d = [packet |-> a + 1, to |-> to, own |-> FALSE]
    <3>1. PICK v \in Nat : v = a + 1 /\ v # 0
      OBVIOUS
    <3>2. [packet |-> v, to |-> to, own |-> FALSE] \in QeRxDescs
      BY <3>1 DEF QeRxDescs
    <3> QED  BY <3>1, <3>2
  <2>2. qerx' = [qerx EXCEPT ![qerxat] = d]
    BY <1>1, <1>2, <2>1
  <2>3. /\ qerx' \in [0 .. QeRxRing - 1 -> QeRxDescs]
        /\ qerx'[qerxat] = d /\ \A i \in 0 .. QeRxRing - 1 : i # qerxat => qerx'[i] = qerx[i]
    BY <1>4, <2>2 DEF QeRxTypes
  <2> QED  BY <1>4, <2>1, <2>3 DEF QeRxF
<1>8. QeTold' = t
  BY <1>1, <1>2 DEF QeTold
<1>9. qerxat' = (a + 1) % QeRxRing
  <2>1. a \in Int
    OBVIOUS
  <2> QED  BY <1>1, <1>3, <2>1, SpotNext
<1>10. qearrived' = a + 1 /\ a + 1 \in Nat /\ (a + 1) - g \in 0 .. QeRxRing /\ t <= (a + 1) - g
  <2>1. QeRxRing \in Nat /\ a - g \in 0 .. QeRxRing /\ a - g < QeRxRing
    BY <1>3, <1>5
  <2> QED  BY <1>1, <1>2, <1>3, <2>1
<1>11. QeRxTypes'
  BY <1>1, <1>7, <1>10 DEF QeRxTypes
<1>12. /\ qerxhead' = g % QeRxRing /\ qerxtail' = (g + t) % QeRxRing
       /\ qetaken' = 1 .. g + (IF qereader' = "copied" THEN 1 ELSE 0)
  BY <1>1, <1>2 DEF QeRxHolds
<1> QED  BY <1>1, <1>6, <1>7, <1>8, <1>9, <1>10, <1>11, <1>12 DEF QeRxHolds

\* Descriptors that are not the engine's (ethhandler.c).
LEMMA QeFullIs ==
  ASSUME QeRxTypes
  PROVE  /\ QeFull = PlacesUsed(QeRxRing, QeRxF)
         /\ \A i \in 0 .. QeRxRing - 1 : i \in QeFull <=> QeRxF[i] # 0
         /\ {qerx[i].packet : i \in QeFull} = PacketsIn(QeRxRing, QeRxF)
<1>1. DOMAIN qerx = 0 .. QeRxRing - 1 /\ \A i \in 0 .. QeRxRing - 1 : qerx[i] \in QeRxDescs
  BY DEF QeRxTypes
<1>2. \A i \in 0 .. QeRxRing - 1 : ~qerx[i].own <=> QeRxF[i] # 0
  BY <1>1 DEF QeRxF, QeRxDescs
<1>3. \A i \in 0 .. QeRxRing - 1 : i \in QeFull <=> QeRxF[i] # 0
  BY <1>1, <1>2 DEF QeFull
<1>4. QeFull = PlacesUsed(QeRxRing, QeRxF)
  BY <1>1, <1>3 DEF QeFull, PlacesUsed
<1>5. {qerx[i].packet : i \in QeFull} = PacketsIn(QeRxRing, QeRxF)
  <2>1. \A i \in QeFull : QeRxF[i] = qerx[i].packet
    BY <1>1 DEF QeFull, QeRxF
  <2> QED  BY <1>4, <2>1 DEF PacketsIn
<1> QED  BY <1>3, <1>4, <1>5

\* What the handler counts when it does not go around: all that netin has not been
\* told of (ethhandler.c).
LEMMA QeReceivedIs ==
  ASSUME QeRxTypes, NEW g \in Nat, QeRxHolds(g)
  PROVE  /\ QeReceived \in Nat
         /\ QeTold + QeReceived <= Cardinality(QeFull) => QeTold + QeReceived = qearrived - g
<1>1. PICK a \in Nat, t \in Nat, L \in Nat \ {0} : a = qearrived /\ t = QeTold /\ L = QeRxRing
  BY QeFirstIs, QuarkEtherAssumption DEF QeRxTypes
<1>2. /\ a - g \in 0 .. L /\ t <= a - g /\ qerxtail = (g + t) % L /\ InRing(L, QeRxF, g, a)
  BY <1>1 DEF QeRxHolds
<1>3. Cardinality(QeFull) = a - g
  <2>1. g <= a
    BY <1>2
  <2> QED  BY <1>1, <1>2, <2>1, QeFullIs, RingCount
<1> DEFINE most == L + 1
           full(k) == \A j \in 0 .. k - 1 : (qerxtail + j) % QeRxRing \in QeFull
           B == {j \in Nat : (qerxtail + j) % QeRxRing \in QeFull}
<1>4. QeReceived = CHOOSE k \in 0 .. most : full(k) /\ (k = most \/ ~full(k + 1))
  BY <1>1 DEF QeReceived
<1>5. \E k \in 0 .. most : full(k) /\ (k = most \/ ~full(k + 1))
  <2>0. most \in Nat
    OBVIOUS
  <2> HIDE DEF most, B
  <2>1. PICK k \in 0 .. most : (\A j \in 0 .. k - 1 : j \in B) /\ (k = most \/ k \notin B)
    BY <2>0, Furthest
  <2>2. full(k)
    BY <2>1 DEF B
  <2>3. k \notin B => ~full(k + 1)
    <3>1. k \in 0 .. (k + 1) - 1 /\ k \in Nat
      BY <2>0, <2>1
    <3> QED  BY <3>1 DEF B
  <2> QED  BY <2>1, <2>2, <2>3
<1>6. QeReceived \in 0 .. most /\ (QeReceived = most \/ ~full(QeReceived + 1))
  <2> HIDE DEF most, full
  <2> QED  BY <1>4, <1>5
<1> HIDE DEF full, B
<1>7. PICK k \in Nat : k = QeReceived /\ (k = L + 1 \/ ~full(k + 1)) /\ full(k)
  <2>1. full(QeReceived)
    <3> HIDE DEF most
    <3> QED  BY <1>4, <1>5
  <2> QED  BY <1>6, <2>1
<1>8. ASSUME t + k <= a - g, t + k # a - g  PROVE FALSE
  <2>1. k <= L /\ k # L + 1
    <3>1. a - g <= L /\ L \in Int
      BY <1>2
    <3> QED  BY <1>8, <3>1
  <2>2. ASSUME NEW j \in 0 .. k  PROVE (qerxtail + j) % L \in QeFull
    <3>1. PICK m \in Nat : m = g + t + j + 1 /\ m \in g + 1 .. a
      <4>1. j <= k /\ j \in Nat
        OBVIOUS
      <4> QED  BY <1>8, <4>1
    <3>2. (qerxtail + j) % L = (m - 1) % L
      <4>1. PICK b \in Int : b = g + t
        OBVIOUS
      <4>2. ((b % L) + j) % L = (b + j) % L
        <5>1. j \in Int
          OBVIOUS
        <5> QED  BY <4>1, <5>1, ModPlus
      <4>3. b + j = m - 1
        BY <3>1, <4>1
      <4> QED  BY <1>2, <4>1, <4>2, <4>3
    <3>3. QeRxF[(m - 1) % L] = m /\ m # 0
      BY <1>2, <3>1 DEF InRing
    <3>4. (m - 1) % L \in 0 .. L - 1
      <4>1. m - 1 \in Int
        OBVIOUS
      <4> QED  BY <4>1, ModDef
    <3> QED  BY <1>1, <3>2, <3>3, <3>4, QeFullIs
  <2>3. full(k + 1)
    <3>1. 0 .. (k + 1) - 1 = 0 .. k
      OBVIOUS
    <3> QED  BY <1>1, <2>2, <3>1 DEF full
  <2> QED  BY <1>7, <2>1, <2>3
<1> QED  BY <1>1, <1>3, <1>7, <1>8

\* Netin is told of as many packets as the handler counts, and goes on if it waited (ethhandler.c).
LEMMA QeSignals ==
  ASSUME QeRxTypes, NEW k \in Nat, qeisem' = UpN(qeisem, k),
         qereader' = IF Waiters(qeisem) # Waiters(qeisem') THEN "through" ELSE qereader
  PROVE  /\ qereader' \in {"out", "waiting", "through", "copied"}
         /\ IF qereader' = "waiting" THEN qeisem' = [n |-> -1, q |-> <<Netin>>]
            ELSE qeisem'.n \in Nat /\ qeisem' = [n |-> qeisem'.n, q |-> <<>>]
         /\ QeTold' = QeTold + k
         /\ (qereader' = "copied") = (qereader = "copied")
<1>1. Len(<<>>) = 0 /\ SubSeq(<<>>, 1, 0) = <<>> /\ Waiters([n |-> 0, q |-> <<>>]) = {}
  BY DEF Waiters
<1>2. CASE qereader = "waiting"
  <2>1. qeisem = [n |-> -1, q |-> <<Netin>>] /\ qeisem.q = <<Netin>> /\ qeisem.n = -1 /\ Len(<<Netin>>) = 1
    BY <1>2 DEF QeRxTypes
  <2>2. Netin \in Waiters(qeisem)
    BY <2>1 DEF Waiters
  <2>3. QeTold = 0
    BY <1>2, <2>1 DEF QeTold, Available
  <2>4. CASE k = 0
    <3>1. qeisem' = [n |-> -1, q |-> SubSeq(<<Netin>>, 1, 1)] /\ SubSeq(<<Netin>>, 1, 1) = <<Netin>>
      <4>1. 1 + (IF k < 1 THEN k ELSE 1) = 1 /\ -1 + k = -1
        BY <2>4
      <4>2. SubSeq(<<Netin>>, 1, 1) = <<Netin>>
        <5>1. <<Netin>> \in Seq({Netin}) /\ Len(<<Netin>>) = 1
          OBVIOUS
        <5> QED  BY <5>1, SubSeqFull
      <4> QED  BY <2>1, <4>1, <4>2 DEF UpN
    <3>2. qeisem' = qeisem
      BY <2>1, <3>1
    <3>3. QeTold' = QeTold /\ qereader' = qereader
      BY <3>2 DEF QeTold
    <3> QED  BY <1>2, <2>1, <2>3, <2>4, <3>2, <3>3
  <2>5. CASE k # 0
    <3>1. PICK m \in Nat : m = k - 1
      BY <2>5
    <3>2. qeisem' = [n |-> m, q |-> <<>>]
      <4>1. 1 + (IF k < 1 THEN k ELSE 1) = 2 /\ -1 + k = m
        BY <2>5, <3>1
      <4>2. SubSeq(<<Netin>>, 2, 1) = <<>>
        OBVIOUS
      <4>3. qeisem' = [n |-> m, q |-> SubSeq(<<Netin>>, 2, 1)]
        BY <2>1, <4>1 DEF UpN
      <4> QED  BY <4>2, <4>3
    <3>3. Waiters(qeisem') = {}
      BY <3>2 DEF Waiters
    <3>4. qereader' = "through"
      BY <2>2, <3>3
    <3>5. Available(qeisem') = m
      BY <3>2 DEF Available
    <3>6. QeTold' = 0 + k
      <4>1. m + 1 = 0 + k
        BY <3>1
      <4> QED  BY <3>4, <3>5, <4>1 DEF QeTold
    <3> QED  BY <1>2, <2>3, <3>1, <3>2, <3>4, <3>6
  <2> QED  BY <2>4, <2>5
<1>3. CASE qereader # "waiting"
  <2>1. PICK n \in Nat : n = qeisem.n /\ qeisem = [n |-> n, q |-> <<>>]
    BY <1>3 DEF QeRxTypes
  <2>2. PICK m \in Nat : m = n + k
    BY <2>1
  <2>3. qeisem' = [n |-> m, q |-> <<>>]
    <3>1. 1 + (IF k < 0 THEN k ELSE 0) = 1
      OBVIOUS
    <3> QED  BY <1>1, <2>1, <2>2, <3>1 DEF UpN
  <2>4. Waiters(qeisem) = {} /\ Waiters(qeisem') = {}
    BY <2>1, <2>3 DEF Waiters
  <2>5. Available(qeisem') = m /\ Available(qeisem) = n
    BY <2>1, <2>3 DEF Available
  <2>6. qereader' = qereader /\ qereader \in {"out", "waiting", "through", "copied"}
    BY <2>4 DEF QeRxTypes
  <2>7. QeTold' = QeTold + k
    BY <2>2, <2>5, <2>6 DEF QeTold
  <2> QED  BY <1>3, <2>3, <2>6, <2>7
<1> QED  BY <1>2, <1>3

LEMMA QeHandlerReceivesKeeps ==
  ASSUME QeRxTypes, NEW g \in Nat, QeRxHolds(g), QeHandlerReceives, ~qelapped'
  PROVE  QeRxTypes' /\ QeRxHolds(g)'
<1>1. /\ qerxtail' = (qerxtail + QeReceived) % QeRxRing /\ qeisem' = UpN(qeisem, QeReceived)
      /\ qereader' = IF Waiters(qeisem) # Waiters(qeisem') THEN "through" ELSE qereader
      /\ ~(QeTold + QeReceived > Cardinality(QeFull))
      /\ UNCHANGED <<qerx, qerxhead, qerxat, qearrived, qetaken, qesr>>
  BY DEF QeHandlerReceives
<1>2. PICK k \in Nat, t \in Nat, a \in Nat, L \in Nat \ {0} :
        k = QeReceived /\ t = QeTold /\ a = qearrived /\ L = QeRxRing
  BY QeReceivedIs, QeFirstIs, QuarkEtherAssumption DEF QeRxTypes
<1>3. /\ a - g \in 0 .. L /\ t <= a - g /\ qerxhead = g % L /\ qerxat = a % L
      /\ qerxtail = (g + t) % L /\ qetaken = 1 .. g + (IF qereader = "copied" THEN 1 ELSE 0)
      /\ InRing(L, QeRxF, g, a)
  BY <1>2 DEF QeRxHolds
<1>4. Cardinality(QeFull) = a - g
  <2>1. g <= a
    BY <1>3
  <2> QED  BY <1>2, <1>3, <2>1, QeFullIs, RingCount
<1>5. t + k <= Cardinality(QeFull)
  BY <1>1, <1>2, <1>4
<1>6. t + k = a - g
  BY <1>2, <1>5, QeReceivedIs
<1>7. /\ qereader' \in {"out", "waiting", "through", "copied"}
      /\ IF qereader' = "waiting" THEN qeisem' = [n |-> -1, q |-> <<Netin>>]
         ELSE qeisem'.n \in Nat /\ qeisem' = [n |-> qeisem'.n, q |-> <<>>]
      /\ QeTold' = t + k
      /\ (qereader' = "copied") = (qereader = "copied")
  BY <1>1, <1>2, QeSignals
<1>8. qerxtail' = (g + (t + k)) % L
  <2>1. PICK b \in Int : b = g + t
    OBVIOUS
  <2>2. ((b % L) + k) % L = (b + k) % L
    <3>1. k \in Int
      OBVIOUS
    <3> QED  BY <2>1, <3>1, ModPlus
  <2>3. b + k = g + (t + k)
    BY <2>1
  <2> QED  BY <1>1, <1>2, <1>3, <2>1, <2>2, <2>3
<1>9. QeRxTypes'
  BY <1>1, <1>7 DEF QeRxTypes
<1>10. QeRxF' = QeRxF
  BY <1>1 DEF QeRxF
<1>11. t + k <= a - g /\ ~(t + k < a - g)
  BY <1>3, <1>6
<1>12. qetaken' = 1 .. g + (IF qereader' = "copied" THEN 1 ELSE 0)
  BY <1>1, <1>3, <1>7
<1> QED  BY <1>1, <1>2, <1>3, <1>7, <1>8, <1>9, <1>10, <1>11, <1>12 DEF QeRxHolds

LEMMA QeRxStep == QeRxInv /\ [QeStep]_qevars => QeRxInv'
<1> SUFFICES ASSUME QeRxInv, [QeStep]_qevars, ~qelapped'
             PROVE  QeRxTypes' /\ \E g \in Nat : QeRxHolds(g)'
  BY DEF QeRxInv
<1>1. CASE QeStep
  <2>1. ~qelapped
    BY <1>1 DEF QeStep
  <2>2. PICK g \in Nat : QeRxTypes /\ QeRxHolds(g)
    BY <2>1 DEF QeRxInv
  <2>3. CASE QeHandlerReceives \/ QeRead \/ QeCopy
    BY <2>2, <2>3, QeHandlerReceivesKeeps, QeReadKeeps, QeCopyKeeps
  <2>4. CASE QeGiveBack
    <3>1. g + 1 \in Nat
      OBVIOUS
    <3>2. QeRxTypes' /\ QeRxHolds(g + 1)'
      BY <2>2, <2>4, QeGiveBackKeeps
    <3> QED  BY <3>1, <3>2
  <2>5. CASE \E to \in {QeUs} \cup QeGroups : QeArrive(to)
    BY <2>2, <2>5, QeArriveKeeps
  <2>6. CASE \/ \E p \in Procs : QeWrite(p)
             \/ QePoke \/ QeSend \/ QeHandler
             \/ \E m \in QeGroups : QeMulticast(m)
    <3>1. /\ UNCHANGED <<qerx, qerxhead, qerxtail, qeisem, qerxat, qereader, qearrived, qetaken>>
          /\ "RI" \in qesr \/ qecpu = "receive" => "RI" \in qesr' \/ qecpu' = "receive"
      <4>1. CASE \E p \in Procs : QeWrite(p)
        BY <4>1 DEF QeWrite, QeFill, qerxvars
      <4>2. CASE QePoke \/ QeSend \/ QeHandler
        BY <4>2 DEF QePoke, QeSend, QeHandler, qerxvars
      <4>3. CASE \E m \in QeGroups : QeMulticast(m)
        BY <4>3 DEF QeMulticast
      <4> QED  BY <2>6, <4>1, <4>2, <4>3
    <3>2. QeTold' = QeTold /\ QeRxF' = QeRxF
      BY <3>1 DEF QeTold, QeRxF
    <3>3. QeRxTypes'
      BY <2>2, <3>1 DEF QeRxTypes
    <3>4. QeRxHolds(g)'
      BY <2>2, <3>1, <3>2 DEF QeRxHolds
    <3> QED  BY <3>3, <3>4
  <2> QED  BY <1>1, <2>3, <2>4, <2>5, <2>6 DEF QeStep
<1>2. CASE UNCHANGED qevars
  <2>1. /\ UNCHANGED <<qerx, qerxhead, qerxtail, qeisem, qerxat, qereader, qearrived, qetaken, qesr>>
        /\ UNCHANGED <<qecpu, qelapped>>
    BY <1>2 DEF qevars, qerxvars
  <2>2. QeTold' = QeTold /\ QeRxF' = QeRxF
    BY <2>1 DEF QeTold, QeRxF
  <2>3. PICK g \in Nat : QeRxTypes /\ QeRxHolds(g)
    BY <2>1 DEF QeRxInv
  <2>4. QeRxTypes'
    BY <2>1, <2>3 DEF QeRxTypes
  <2>5. QeRxHolds(g)'
    BY <2>1, <2>2, <2>3 DEF QeRxHolds
  <2> QED  BY <2>4, <2>5
<1> QED  BY <1>1, <1>2

\* What the invariant says of the packets that arrived (ethhandler.c, ethread.c).
LEMMA QeTaken == QeRxInv => QeAllTold
<1> SUFFICES ASSUME QeRxInv, ~qelapped
             PROVE  /\ qetaken \cup {qerx[i].packet : i \in QeFull} = 1 .. qearrived
                    /\ qereader \in {"through", "copied"} => qerxhead \in QeFull
                    /\ Cardinality(QeFull) > QeTold => "RI" \in qesr \/ qecpu = "receive"
  BY DEF QeAllTold
<1>1. PICK g \in Nat : QeRxTypes /\ QeRxHolds(g)
  BY DEF QeRxInv
<1>2. PICK a \in Nat, t \in Nat, L \in Nat \ {0} : a = qearrived /\ t = QeTold /\ L = QeRxRing
  BY <1>1, QeFirstIs, QuarkEtherAssumption DEF QeRxTypes
<1>3. /\ a - g \in 0 .. L /\ t <= a - g /\ InRing(L, QeRxF, g, a) /\ g <= a
      /\ qetaken = 1 .. g + (IF qereader = "copied" THEN 1 ELSE 0)
      /\ t < a - g => "RI" \in qesr \/ qecpu = "receive"
  <2>1. /\ a - g \in 0 .. L /\ t <= a - g /\ InRing(L, QeRxF, g, a)
        /\ qetaken = 1 .. g + (IF qereader = "copied" THEN 1 ELSE 0)
        /\ t < a - g => "RI" \in qesr \/ qecpu = "receive"
    BY <1>1, <1>2 DEF QeRxHolds
  <2> QED  BY <2>1
<1>4. Cardinality(QeFull) = a - g
  BY <1>1, <1>2, <1>3, QeFullIs, RingCount
<1>5. {qerx[i].packet : i \in QeFull} = g + 1 .. a
  <2>1. PacketsIn(L, QeRxF) = g + 1 .. a
    BY <1>3, RingPackets
  <2> QED  BY <1>1, <1>2, <2>1, QeFullIs
<1>6. qereader \in {"through", "copied"} => qerxhead \in QeFull /\ g < a
  BY <1>1, <1>2, QeFirstIs DEF QeFull, QeRxTypes
<1>7. qetaken \cup (g + 1 .. a) = 1 .. a
  <2>1. CASE qereader = "copied"
    <3>1. qetaken = 1 .. g + 1 /\ g < a
      BY <1>3, <1>6, <2>1
    <3> QED  BY <3>1
  <2>2. CASE qereader # "copied"
    <3>1. qetaken = 1 .. g
      BY <1>3, <2>2
    <3> QED  BY <1>3, <3>1
  <2> QED  BY <2>1, <2>2
<1> QED  BY <1>2, <1>3, <1>4, <1>5, <1>6, <1>7

-----------------------------------------------------------------------------
(* The Ethernet driver's rings (device/eth) *)

(* k signals make t of a semaphore s, and the released processes are S and not R *)
Signalled(s, R, k, t, S) ==
  /\ SemaSound(s) /\ R \subseteq Procs /\ R \cap Waiters(s) = {} /\ k \in Nat
  /\ t = UpN(s, k) /\ S = R \cup (Waiters(s) \ Waiters(t))
(* what is available and what was given to them is k more *)
GivesMore(s, R, k, t, S) ==
  /\ SemaSound(t) /\ S \subseteq Procs /\ S \cap Waiters(t) = {}
  /\ Available(t) + Cardinality(S) = Available(s) + Cardinality(R) + k
  /\ Available(s) \in Nat /\ Available(t) \in Nat
  /\ Cardinality(R) \in Nat /\ Cardinality(S) \in Nat /\ s.n \in Int /\ t.n = s.n + k

\* What is available and what was handed to released processes: k signals
\* make k more (ethhandler.c, signal.c).
LEMMA SignalsGive ==
  ASSUME NEW s, NEW R, NEW k, NEW t, NEW S, Signalled(s, R, k, t, S)
  PROVE  GivesMore(s, R, k, t, S)
<1>1. /\ SemaSound(s) /\ R \subseteq Procs /\ R \cap Waiters(s) = {} /\ k \in Nat
      /\ t = UpN(s, k) /\ S = R \cup (Waiters(s) \ Waiters(t))
  BY DEF Signalled
<1>2. SemaSound(t) /\ t.n = s.n + k /\ Waiters(t) \subseteq Waiters(s) /\ Waiters(s) \subseteq Procs
  <2>1. Waiters(s) \subseteq Procs
    BY <1>1 DEF SemaSound, Waiters
  <2> QED  BY <1>1, <2>1, UpNIs
<1> DEFINE P == R \cup Waiters(s)
<1>3. P \subseteq Procs /\ Waiters(s) \subseteq P /\ Waiters(t) \subseteq P /\ R = P \ Waiters(s)
      /\ S = P \ Waiters(t)
  BY <1>1, <1>2
<1> HIDE DEF P
<1>4. /\ Available(s) + Cardinality(R) = s.n + Cardinality(P) /\ Available(s) \in Nat
      /\ Cardinality(R) \in Nat /\ Cardinality(P) \in Nat /\ s.n \in Int
  BY <1>1, <1>3, SemaBalance
<1>5. /\ Available(t) + Cardinality(S) = t.n + Cardinality(P) /\ Available(t) \in Nat
      /\ Cardinality(S) \in Nat
  BY <1>2, <1>3, SemaBalance
<1>6. Available(t) + Cardinality(S) = Available(s) + Cardinality(R) + k
  <2>1. PICK c \in Nat, a \in Nat, b \in Nat, d \in Nat, e \in Nat :
          /\ c = Cardinality(P) /\ a = Available(s) /\ b = Cardinality(R)
          /\ d = Available(t) /\ e = Cardinality(S)
    BY <1>4, <1>5
  <2>2. PICK n \in Int : n = s.n
    BY <1>4
  <2>3. a + b = n + c /\ d + e = (n + k) + c
    BY <1>2, <1>4, <1>5, <2>1, <2>2
  <2>4. d + e = a + b + k
    BY <1>1, <2>3
  <2> QED  BY <2>1, <2>4
<1>7. S \subseteq Procs /\ S \cap Waiters(t) = {}
  BY <1>3
<1> QED  BY <1>2, <1>4, <1>5, <1>6, <1>7 DEF GivesMore

\* One that was released takes what it was given (ethwrite.c, ethread.c).
LEMMA ReadyGoes ==
  ASSUME NEW R, R \subseteq Procs, NEW p \in R
  PROVE  Cardinality(R \ {p}) \in Nat /\ Cardinality(R) = Cardinality(R \ {p}) + 1
<1>1. p \in Procs /\ R \ {p} \subseteq Procs /\ R = (R \ {p}) \cup {p} /\ p \notin R \ {p}
  OBVIOUS
<1> QED  BY <1>1, OneMore

-----------------------------------------------------------------------------

(* The engine of a ring of L descriptors owns those in O; nx is where their *)
(* links lead (L: nowhere) and lab their places in the order in which they  *)
(* were handed to it, of which the last was w and the u last ones have not  *)
(* been taken back. Links lead from earlier to later, and to nobody from    *)
(* two or from where the engine is at. It has read the link there (link) or *)
(* not (L + 1), perhaps before the next one was linked.                     *)
EngineOwns(L, O, nx, lab, w, u) ==
  /\ L \in Nat \ {0} /\ w \in Nat /\ u \in 0 .. L
  /\ O \subseteq 0 .. L - 1 /\ nx \in [0 .. L - 1 -> 0 .. L] /\ lab \in [0 .. L - 1 -> Nat]
  /\ \A i \in O : lab[i] \in w - u + 1 .. w /\ (lab[i] - 1) % L = i
  /\ \A i \in O : nx[i] = L \/ (nx[i] \in O /\ lab[i] < lab[nx[i]])
  /\ \A i, j \in O : nx[i] = nx[j] /\ nx[i] # L => i = j

NextOf(desc) == [i \in DOMAIN desc |-> desc[i].next]
OwnOf(desc) == {i \in DOMAIN desc : desc[i].own}

EngineAt(L, O, nx, hdp, link) ==
  /\ hdp = L \/ (hdp \in O /\ \A i \in O : nx[i] # hdp)
  /\ link = L + 1 \/ (hdp # L /\ (link = L \/ link = nx[hdp]))

\* The search for the end of the list stops at one of the engine's descriptors (ethwrite.c, ethread.c).
LEMMA EndOfIs ==
  ASSUME NEW L \in Nat \ {0}, NEW O, NEW lab, NEW w \in Nat, NEW u \in Nat, NEW desc, NEW first \in O,
         DOMAIN desc = 0 .. L - 1, EngineOwns(L, O, NextOf(desc), lab, w, u)
  PROVE  EndOf(desc, first) \in O /\ desc[EndOf(desc, first)].next = L
<1>1. /\ L \in Nat \ {0} /\ w \in Nat /\ O \subseteq 0 .. L - 1
      /\ \A i \in O : lab[i] \in Nat /\ lab[i] <= w
      /\ \A i \in O : desc[i].next = L \/ (desc[i].next \in O /\ lab[i] < lab[desc[i].next])
      /\ \A i \in 0 .. L - 1 : desc[i].next \in 0 .. L
  <2> DEFINE nx == NextOf(desc)
  <2>1. \A i \in 0 .. L - 1 : nx[i] = desc[i].next
    BY DEF NextOf
  <2> HIDE DEF nx
  <2>2. EngineOwns(L, O, nx, lab, w, u)
    BY DEF nx
  <2>3. /\ L \in Nat \ {0} /\ w \in Nat /\ O \subseteq 0 .. L - 1 /\ nx \in [0 .. L - 1 -> 0 .. L]
        /\ u \in Nat
        /\ lab \in [0 .. L - 1 -> Nat]
        /\ \A i \in O : lab[i] \in w - u + 1 .. w
        /\ \A i \in O : nx[i] = L \/ (nx[i] \in O /\ lab[i] < lab[nx[i]])
    BY <2>2 DEF EngineOwns
  <2>4. \A i \in O : lab[i] \in Nat /\ lab[i] <= w
    BY <2>3
  <2> QED  BY <2>1, <2>3, <2>4
<1> DEFINE D == DOMAIN desc
           Closed(S) == \A j \in S : desc[j].next \in D => desc[j].next \in S
           R == Linked(desc, first)
<1>2. R \subseteq O
  <2>1. O \in SUBSET D /\ first \in O /\ Closed(O)
    <3>1. L \notin D
      BY <1>1
    <3> QED  BY <1>1, <3>1
  <2> QED  BY <2>1 DEF Linked
<1>3. first \in R
  BY <1>1 DEF Linked
<1>4. \A j \in R : desc[j].next \in D => desc[j].next \in R
  BY DEF Linked
<1> HIDE DEF R
<1>5. \E i \in R : desc[i].next \notin D
  <2> DEFINE T == {w - lab[i] : i \in R}
  <2>1. T \subseteq Nat /\ T # {}
    <3>1. \A i \in R : w - lab[i] \in Nat
      BY <1>1, <1>2
    <3> QED  BY <1>3, <3>1
  <2>2. PICK n \in T : \A m \in T : n <= m
    <3> HIDE DEF T
    <3> QED  BY <2>1, LeastNat
  <2>3. PICK i \in R : n = w - lab[i]
    OBVIOUS
  <2>4. ASSUME desc[i].next \in D  PROVE FALSE
    <3>1. PICK k : k = desc[i].next /\ k \in R
      BY <1>4, <2>4
    <3>2. k # L /\ i \in O /\ k \in O
      BY <1>1, <1>2, <2>4, <3>1
    <3>3. lab[i] \in Nat /\ lab[k] \in Nat /\ lab[i] < lab[k]
      BY <1>1, <3>1, <3>2
    <3>4. n <= w - lab[k]
      BY <2>2, <3>1
    <3> QED  BY <1>1, <2>3, <3>3, <3>4
  <2> QED  BY <2>4
<1>6. EndOf(desc, first) \in R /\ desc[EndOf(desc, first)].next \notin D
  BY <1>5 DEF EndOf, R
<1>7. EndOf(desc, first) \in O /\ desc[EndOf(desc, first)].next = L
  BY <1>1, <1>2, <1>6
<1> QED  BY <1>7

\* The descriptor behind the last is not the engine's when one is free (ethwrite.c, ethread.c).
LEMMA EngineFree ==
  ASSUME NEW L \in Nat \ {0}, NEW O, NEW nx, NEW lab, NEW w \in Nat, NEW u \in Nat, EngineOwns(L, O, nx, lab, w, u), u < L
  PROVE  w % L \in 0 .. L - 1 /\ w % L \notin O
<1>1. L \in Nat \ {0} /\ w \in Nat /\ u \in 0 .. L
  BY DEF EngineOwns
<1>2. w % L \in 0 .. L - 1
  <2>1. w \in Int
    BY <1>1
  <2> QED  BY <1>1, <2>1, ModDef
<1>3. ASSUME w % L \in O  PROVE FALSE
  <2>1. PICK m \in O, l \in Int : m = w % L /\ l = lab[m] - 1 /\ l + 1 \in w - u + 1 .. w /\ l % L = m
    <3>1. PICK m \in O : m = w % L
      BY <1>3
    <3>2. lab[m] \in w - u + 1 .. w /\ (lab[m] - 1) % L = m
      BY <3>1 DEF EngineOwns
    <3>3. PICK l \in Int : l = lab[m] - 1
      BY <1>1, <3>2
    <3>4. l + 1 = lab[m]
      BY <1>1, <3>2, <3>3
    <3> QED  BY <3>1, <3>2, <3>3, <3>4
  <2>2. w \in Int /\ l < w + L /\ w < l + L /\ l # w
    BY <1>1, <2>1
  <2> QED  BY <1>1, <2>1, <2>2, SpotsApart
<1> QED  BY <1>2, <1>3

Gets(L, O, nx, lab, w, u, hdp, link, m, end, nx2) ==
  /\ EngineOwns(L, O, nx, lab, w, u) /\ EngineAt(L, O, nx, hdp, link) /\ u < L /\ m = w % L
  /\ hdp = L \/ (end \in O /\ nx[end] = L)
  /\ nx2 = IF hdp = L THEN [nx EXCEPT ![m] = L] ELSE [nx EXCEPT ![m] = L, ![end] = m]

\* A descriptor is handed to the engine: alone, or behind the last of its list
\* (ethwrite.c, ethread.c).
LEMMA EngineGets ==
  ASSUME NEW L \in Nat \ {0}, NEW O, NEW nx, NEW lab, NEW w \in Nat, NEW u \in Nat, NEW hdp, NEW link,
         NEW m, NEW end, NEW nx2, Gets(L, O, nx, lab, w, u, hdp, link, m, end, nx2)
  PROVE  /\ EngineOwns(L, O \cup {m}, nx2, [lab EXCEPT ![m] = w + 1], w + 1, u + 1)
         /\ EngineAt(L, O \cup {m}, nx2, IF hdp = L THEN m ELSE hdp, link)
<1>0. /\ EngineOwns(L, O, nx, lab, w, u) /\ EngineAt(L, O, nx, hdp, link) /\ u < L /\ m = w % L
      /\ hdp = L \/ (end \in O /\ nx[end] = L)
      /\ nx2 = IF hdp = L THEN [nx EXCEPT ![m] = L] ELSE [nx EXCEPT ![m] = L, ![end] = m]
  BY DEF Gets
<1>1. /\ L \in Nat \ {0} /\ w \in Nat /\ u \in 0 .. L
      /\ O \subseteq 0 .. L - 1 /\ nx \in [0 .. L - 1 -> 0 .. L] /\ lab \in [0 .. L - 1 -> Nat]
      /\ m \in 0 .. L - 1 /\ m \notin O
  <2>1. m \in 0 .. L - 1 /\ m \notin O
    BY <1>0, EngineFree
  <2> QED  BY <1>0, <2>1 DEF EngineOwns
<1>2. /\ \A i \in O : lab[i] \in w - u + 1 .. w /\ (lab[i] - 1) % L = i
      /\ \A i \in O : nx[i] = L \/ (nx[i] \in O /\ lab[i] < lab[nx[i]])
      /\ \A i, j \in O : nx[i] = nx[j] /\ nx[i] # L => i = j
  BY <1>0 DEF EngineOwns
<1>3. /\ hdp = L \/ (hdp \in O /\ \A i \in O : nx[i] # hdp)
      /\ link = L + 1 \/ (hdp # L /\ (link = L \/ link = nx[hdp]))
  BY <1>0 DEF EngineAt
<1> DEFINE O2 == O \cup {m}
           lab2 == [lab EXCEPT ![m] = w + 1]
<1>4. /\ lab2 \in [0 .. L - 1 -> Nat] /\ lab2[m] = w + 1 /\ \A i \in O : lab2[i] = lab[i]
      /\ \A i \in O2 : lab2[i] \in Nat
  <2>1. w + 1 \in Nat /\ \A i \in O : i \in 0 .. L - 1 /\ i # m
    <3>1. w + 1 \in Nat
      BY <1>1
    <3>2. \A i \in O : i \in 0 .. L - 1 /\ i # m
      BY <1>1
    <3> QED  BY <3>1, <3>2
  <2>2. lab2 \in [0 .. L - 1 -> Nat] /\ lab2[m] = w + 1
    BY <1>1, <2>1
  <2>3. \A i \in O : lab2[i] = lab[i]
    BY <1>1, <2>1
  <2> HIDE DEF lab2
  <2>4. \A i \in O2 : lab2[i] \in Nat
    BY <1>1, <2>2
  <2> QED  BY <2>2, <2>3, <2>4
<1> HIDE DEF lab2
<1>5. /\ nx2 \in [0 .. L - 1 -> 0 .. L] /\ nx2[m] = L
      /\ \A i \in O : nx2[i] = IF hdp # L /\ i = end THEN m ELSE nx[i]
      /\ \A i \in O : nx[i] # m /\ m # L
  <2>1. L \in 0 .. L /\ m \in 0 .. L /\ m # L
    BY <1>1
  <2>2. \A i \in O : nx[i] # m
    BY <1>1, <1>2, <2>1
  <2>3. CASE hdp = L
    <3>1. nx2 = [nx EXCEPT ![m] = L]
      BY <1>0, <2>3
    <3> QED  BY <1>1, <2>1, <2>2, <2>3, <3>1
  <2>4. CASE hdp # L
    <3>1. nx2 = [nx EXCEPT ![m] = L, ![end] = m] /\ end \in O
      BY <1>0, <2>4
    <3>2. PICK nx1 : nx1 = [nx EXCEPT ![m] = L]
      OBVIOUS
    <3>3. nx1 \in [0 .. L - 1 -> 0 .. L] /\ nx1[m] = L /\ \A i \in O : nx1[i] = nx[i]
      BY <1>1, <2>1, <3>2
    <3>4. nx2 = [nx1 EXCEPT ![end] = m]
      BY <3>1, <3>2
    <3>5. end \in 0 .. L - 1 /\ end # m
      BY <1>1, <3>1
    <3> QED  BY <1>1, <2>1, <2>2, <2>4, <3>3, <3>4, <3>5
  <2> QED  BY <2>3, <2>4
<1>6. \A i \in O2 : lab2[i] \in (w + 1) - (u + 1) + 1 .. w + 1 /\ (lab2[i] - 1) % L = i
  <2> TAKE i \in O2
  <2>1. CASE i = m
    <3>1. (w + 1) - 1 = w /\ w + 1 \in (w + 1) - (u + 1) + 1 .. w + 1
      BY <1>1
    <3> QED  BY <1>0, <1>4, <2>1, <3>1
  <2>2. CASE i \in O
    <3>1. lab2[i] = lab[i] /\ lab[i] \in w - u + 1 .. w /\ (lab[i] - 1) % L = i
      BY <1>2, <1>4, <2>2
    <3> QED  BY <1>1, <3>1
  <2> QED  BY <2>1, <2>2
<1>7. \A i \in O2 : nx2[i] = L \/ (nx2[i] \in O2 /\ lab2[i] < lab2[nx2[i]])
  <2> TAKE i \in O2
  <2>1. CASE i = m
    BY <1>5, <2>1
  <2>2. CASE i \in O /\ hdp # L /\ i = end
    <3>1. nx2[i] = m /\ lab2[i] = lab[i] /\ lab[i] \in w - u + 1 .. w
      BY <1>2, <1>4, <1>5, <2>2
    <3>2. lab[i] < w + 1
      BY <1>1, <3>1
    <3> QED  BY <1>4, <3>1, <3>2
  <2>3. CASE i \in O /\ ~(hdp # L /\ i = end)
    <3>1. nx2[i] = nx[i] /\ lab2[i] = lab[i]
      BY <1>4, <1>5, <2>3
    <3>2. CASE nx[i] = L
      BY <3>1, <3>2
    <3>3. CASE nx[i] # L
      <4>1. nx[i] \in O /\ lab[i] < lab[nx[i]] /\ lab2[nx[i]] = lab[nx[i]]
        BY <1>2, <1>4, <2>3, <3>3
      <4> QED  BY <3>1, <4>1
    <3> QED  BY <3>2, <3>3
  <2> QED  BY <2>1, <2>2, <2>3
<1>8. \A i, j \in O2 : nx2[i] = nx2[j] /\ nx2[i] # L => i = j
  <2> SUFFICES ASSUME NEW i \in O2, NEW j \in O2, nx2[i] = nx2[j], nx2[i] # L  PROVE i = j
    OBVIOUS
  <2>1. i \in O /\ j \in O
    BY <1>5
  <2>2. nx2[i] = (IF hdp # L /\ i = end THEN m ELSE nx[i]) /\ nx2[j] = (IF hdp # L /\ j = end THEN m ELSE nx[j])
        /\ nx[i] # m /\ nx[j] # m
    BY <1>5, <2>1
  <2>3. nx[i] = nx[j] /\ nx[i] # L => i = j
    BY <1>2, <2>1
  <2> QED  BY <2>2, <2>3
<1>9. EngineOwns(L, O2, nx2, lab2, w + 1, u + 1)
  <2>1. w + 1 \in Nat /\ u + 1 \in 0 .. L
    BY <1>0, <1>1
  <2>2. O2 \subseteq 0 .. L - 1
    BY <1>1
  <2> QED  BY <2>2, <1>1, <1>4, <1>5, <1>6, <1>7, <1>8, <2>1 DEF EngineOwns
<1>10. EngineAt(L, O2, nx2, IF hdp = L THEN m ELSE hdp, link)
  <2>1. CASE hdp = L
    <3>1. link = L + 1 /\ \A i \in O2 : nx2[i] # m
      BY <1>1, <1>2, <1>3, <1>5, <2>1
    <3> QED  BY <2>1, <3>1 DEF EngineAt
  <2>2. CASE hdp # L
    <3>1. hdp \in O /\ hdp # m /\ \A i \in O : nx[i] # hdp
      BY <1>1, <1>3, <2>2
    <3>2. \A i \in O2 : nx2[i] # hdp
      <4>1. nx2[m] # hdp
        BY <1>0, <1>5, <2>2
      <4>2. \A i \in O : nx2[i] # hdp
        BY <1>5, <3>1
      <4> QED  BY <4>1, <4>2
    <3>3. link = L + 1 \/ link = L \/ link = nx2[hdp]
      <4>1. CASE hdp = end
        BY <1>0, <1>3, <2>2, <4>1
      <4>2. CASE hdp # end
        <5>1. nx2[hdp] = nx[hdp]
          BY <1>5, <3>1, <4>2
        <5> QED  BY <1>3, <5>1
      <4> QED  BY <4>1, <4>2
    <3> QED  BY <2>2, <3>1, <3>2, <3>3 DEF EngineAt
  <2> QED  BY <2>1, <2>2
<1> QED  BY <1>9, <1>10 DEF lab2

\* The engine reads the link of the descriptor it is at (ethwrite.c, ethread.c: hardware).
LEMMA EngineReads ==
  ASSUME NEW L \in Nat \ {0}, NEW O, NEW nx, NEW hdp, NEW link, EngineAt(L, O, nx, hdp, link), hdp # L
  PROVE  EngineAt(L, O, nx, hdp, nx[hdp])
BY DEF EngineAt

\* The engine is done with a descriptor and goes where it read (hardware).
LEMMA EngineGoesOn ==
  ASSUME NEW L \in Nat \ {0}, NEW O, NEW nx, NEW lab, NEW w \in Nat, NEW u \in Nat, NEW hdp, NEW link,
         EngineOwns(L, O, nx, lab, w, u), EngineAt(L, O, nx, hdp, link), hdp # L, link # L + 1
  PROVE  /\ hdp \in O /\ EngineOwns(L, O \ {hdp}, nx, lab, w, u)
         /\ EngineAt(L, O \ {hdp}, nx, link, L + 1)
<1>1. hdp \in O /\ (\A i \in O : nx[i] # hdp) /\ (link = L \/ link = nx[hdp])
  BY DEF EngineAt
<1>2. EngineOwns(L, O \ {hdp}, nx, lab, w, u)
  BY <1>1 DEF EngineOwns
<1>3. link = L \/ (link \in O \ {hdp} /\ \A i \in O \ {hdp} : nx[i] # link)
  BY <1>1 DEF EngineOwns
<1> QED  BY <1>1, <1>2, <1>3 DEF EngineAt

\* The handler takes back k descriptors that are not the engine's, and may set an
\* idle engine to the next (ethhandler.c).
LEMMA EngineTakenBack ==
  ASSUME NEW L \in Nat \ {0}, NEW O, NEW nx, NEW lab, NEW w \in Nat, NEW u \in Nat, NEW hdp, NEW link,
         EngineOwns(L, O, nx, lab, w, u), EngineAt(L, O, nx, hdp, link),
         NEW k \in Nat, k <= u, \A j \in 0 .. k - 1 : (w - u + j) % L \notin O
  PROVE  /\ EngineOwns(L, O, nx, lab, w, u - k)
         /\ hdp = L /\ (w - u + k) % L \in O => EngineAt(L, O, nx, (w - u + k) % L, link)
         /\ u = k => O = {}
<1>1. /\ L \in Nat \ {0} /\ w \in Nat /\ u \in 0 .. L
      /\ O \subseteq 0 .. L - 1 /\ nx \in [0 .. L - 1 -> 0 .. L] /\ lab \in [0 .. L - 1 -> Nat]
      /\ \A i \in O : lab[i] \in w - u + 1 .. w /\ (lab[i] - 1) % L = i
      /\ \A i \in O : nx[i] = L \/ (nx[i] \in O /\ lab[i] < lab[nx[i]])
  BY DEF EngineOwns
<1>2. ASSUME NEW i \in O  PROVE lab[i] \in w - (u - k) + 1 .. w
  <2>1. PICK l \in Nat : l = lab[i] /\ l \in w - u + 1 .. w /\ (l - 1) % L = i
    BY <1>1
  <2>2. ASSUME ~(l > w - (u - k))  PROVE FALSE
    <3>0. l \in Nat /\ w \in Nat /\ u \in Nat /\ k \in Nat /\ l >= w - u + 1 /\ l <= w - (u - k)
      BY <1>1, <2>1, <2>2
    <3>1. PICK j \in Int : j = l - 1 - (w - u)
      BY <3>0
    <3>2. j \in 0 .. k - 1 /\ w - u + j = l - 1
      BY <3>0, <3>1
    <3> QED  BY <2>1, <3>2
  <2> QED  BY <1>1, <2>1, <2>2
<1>3. u - k \in 0 .. L
  BY <1>1
<1>4. EngineOwns(L, O, nx, lab, w, u - k)
  BY <1>2, <1>3 DEF EngineOwns
<1>5. ASSUME u = k  PROVE O = {}
  <2>1. w - (u - k) + 1 .. w = {}
    BY <1>1, <1>5
  <2> QED  BY <1>2, <2>1
<1>6. ASSUME hdp = L, (w - u + k) % L \in O  PROVE EngineAt(L, O, nx, (w - u + k) % L, link)
  <2>1. PICK h \in O : h = (w - u + k) % L
    BY <1>6
  <2>2. link = L + 1
    BY <1>6 DEF EngineAt
  <2>3. lab[h] = w - u + k + 1
    <3>1. PICK l \in Nat : l = lab[h] /\ l \in w - (u - k) + 1 .. w /\ (l - 1) % L = h
      BY <1>1, <1>2
    <3>2. PICK x \in Int, y \in Int : x = l - 1 /\ y = w - u + k
      BY <1>1, <3>1
    <3>3. x % L = y % L /\ x < y + L /\ y < x + L
      <4>1. x % L = y % L
        BY <2>1, <3>1, <3>2
      <4>2. l >= w - (u - k) + 1 /\ l <= w /\ u <= L /\ L \in Nat \ {0} /\ w \in Nat /\ u \in Nat /\ k <= u
        BY <1>1, <3>1
      <4>3. x < y + L /\ y < x + L
        BY <3>2, <4>2
      <4> QED  BY <4>1, <4>3
    <3>4. x = y
      BY <1>1, <3>3, SpotsApart
    <3>5. l = w - u + k + 1
      BY <1>1, <3>2, <3>4
    <3> QED  BY <3>1, <3>5
  <2>4. ASSUME NEW i \in O, nx[i] = h  PROVE FALSE
    <3>1. nx[i] # L
      BY <1>1, <2>4
    <3>2. lab[i] < lab[h] /\ lab[i] \in w - (u - k) + 1 .. w
      BY <1>1, <1>2, <2>4, <3>1
    <3> QED  BY <1>1, <2>3, <3>2
  <2> QED  BY <2>1, <2>2, <2>4 DEF EngineAt
<1> QED  BY <1>4, <1>5, <1>6

EtherDesc(L) == [packet : Nat, own : BOOLEAN, next : 0 .. L]

\* As many descriptors as the ring has: what a function of descriptors says of them.
LEMMA DescsAre ==
  ASSUME NEW L \in Nat \ {0}, NEW desc, desc \in [0 .. L - 1 -> EtherDesc(L)]
  PROVE  /\ DOMAIN desc = 0 .. L - 1
         /\ \A i : i \in OwnOf(desc) <=> i \in 0 .. L - 1 /\ desc[i].own
         /\ NextOf(desc) = [i \in 0 .. L - 1 |-> desc[i].next]
         /\ \A i \in 0 .. L - 1 : NextOf(desc)[i] = desc[i].next
BY DEF OwnOf, NextOf, EtherDesc

(* desc2 is desc with d in place m, linked behind end if the engine is at work *)
Written(L, desc, m, d, hdp, end, desc2) ==
  /\ desc \in [0 .. L - 1 -> EtherDesc(L)] /\ m \in 0 .. L - 1 /\ d \in EtherDesc(L) /\ d.own /\ d.next = L
  /\ hdp # L => end \in 0 .. L - 1 /\ end # m
  /\ desc2 = IF hdp = L THEN [desc EXCEPT ![m] = d]
             ELSE [[desc EXCEPT ![m] = d] EXCEPT ![end].next = m]

(* what the engine's descriptors are then *)
OneMoreOwned(L, desc, m, d, hdp, end, desc2) ==
  /\ desc2 \in [0 .. L - 1 -> EtherDesc(L)]
  /\ OwnOf(desc2) = OwnOf(desc) \cup {m}
  /\ NextOf(desc2) = IF hdp = L THEN [NextOf(desc) EXCEPT ![m] = L]
                     ELSE [NextOf(desc) EXCEPT ![m] = L, ![end] = m]
  /\ \A i \in 0 .. L - 1 : /\ desc2[i].packet = (IF i = m THEN d.packet ELSE desc[i].packet)
                           /\ desc2[i].own = (IF i = m THEN TRUE ELSE desc[i].own)

\* One descriptor is written, and perhaps linked behind another (ethwrite.c, ethread.c).
LEMMA DescWritten ==
  ASSUME NEW L \in Nat \ {0}, NEW desc, NEW m, NEW d, NEW hdp, NEW end, NEW desc2,
         Written(L, desc, m, d, hdp, end, desc2)
  PROVE  OneMoreOwned(L, desc, m, d, hdp, end, desc2)
<1>0. /\ desc \in [0 .. L - 1 -> EtherDesc(L)] /\ m \in 0 .. L - 1 /\ d \in EtherDesc(L) /\ d.own /\ d.next = L
      /\ hdp # L => end \in 0 .. L - 1 /\ end # m
      /\ desc2 = IF hdp = L THEN [desc EXCEPT ![m] = d]
                 ELSE [[desc EXCEPT ![m] = d] EXCEPT ![end].next = m]
  BY DEF Written
<1> DEFINE one == [desc EXCEPT ![m] = d]
<1>1. one \in [0 .. L - 1 -> EtherDesc(L)] /\ one[m] = d /\ \A i \in 0 .. L - 1 : i # m => one[i] = desc[i]
  BY <1>0
<1> HIDE DEF one
<1>2. /\ desc2 \in [0 .. L - 1 -> EtherDesc(L)] /\ desc2[m] = d
      /\ \A i \in 0 .. L - 1 : i # m /\ (hdp = L \/ i # end) => desc2[i] = desc[i]
      /\ hdp # L => desc2[end].next = m /\ desc2[end].own = desc[end].own /\ desc2[end].packet = desc[end].packet
  <2>1. CASE hdp = L
    BY <1>0, <1>1, <2>1 DEF one
  <2>2. CASE hdp # L
    <3>1. PICK c \in EtherDesc(L), v \in 0 .. L : c = one[end] /\ v = m
      <4>1. m \in 0 .. L
        BY <1>0
      <4> QED  BY <1>0, <1>1, <2>2, <4>1
    <3>2. PICK x : x = [c EXCEPT !.next = v]
      OBVIOUS
    <3>3. x \in EtherDesc(L) /\ x.next = v /\ x.own = c.own /\ x.packet = c.packet
      BY <3>2 DEF EtherDesc
    <3>4. desc2 = [one EXCEPT ![end] = x]
      BY <1>0, <2>2, <3>1, <3>2 DEF one
    <3>5. /\ desc2 \in [0 .. L - 1 -> EtherDesc(L)] /\ desc2[end] = x
          /\ \A i \in 0 .. L - 1 : i # end => desc2[i] = one[i]
      BY <1>0, <1>1, <2>2, <3>3, <3>4
    <3>6. desc2[m] = d
      BY <1>0, <1>1, <2>2, <3>5
    <3>7. \A i \in 0 .. L - 1 : i # m /\ (hdp = L \/ i # end) => desc2[i] = desc[i]
      BY <1>0, <1>1, <2>2, <3>5
    <3>8. one[end] = desc[end]
      BY <1>0, <1>1, <2>2
    <3>9. desc2[end].next = m /\ desc2[end].own = desc[end].own /\ desc2[end].packet = desc[end].packet
      BY <3>1, <3>3, <3>5, <3>8
    <3> QED  BY <3>5, <3>6, <3>7, <3>9
  <2> QED  BY <2>1, <2>2
<1>3. \A i \in 0 .. L - 1 : /\ desc2[i].packet = (IF i = m THEN d.packet ELSE desc[i].packet)
                            /\ desc2[i].own = (IF i = m THEN TRUE ELSE desc[i].own)
  <2> TAKE i \in 0 .. L - 1
  <2>1. CASE i = m
    BY <1>0, <1>2, <2>1
  <2>2. CASE i # m /\ hdp # L /\ i = end
    BY <1>0, <1>2, <2>2
  <2>3. CASE i # m /\ (hdp = L \/ i # end)
    BY <1>0, <1>2, <2>3
  <2> QED  BY <1>0, <2>1, <2>2, <2>3
<1>4. OwnOf(desc2) = OwnOf(desc) \cup {m}
  <2>1. \A i : i \in OwnOf(desc2) <=> i \in 0 .. L - 1 /\ desc2[i].own
    BY <1>2, DescsAre
  <2>2. \A i : i \in OwnOf(desc) <=> i \in 0 .. L - 1 /\ desc[i].own
    BY <1>0, DescsAre
  <2>3. \A i : i \in OwnOf(desc2) <=> i \in OwnOf(desc) \/ i = m
    BY <1>0, <1>3, <2>1, <2>2
  <2> QED  BY <2>3
<1>5. NextOf(desc2) = IF hdp = L THEN [NextOf(desc) EXCEPT ![m] = L]
                      ELSE [NextOf(desc) EXCEPT ![m] = L, ![end] = m]
  <2> DEFINE f == NextOf(desc)
             g == NextOf(desc2)
  <2>1. f = [i \in 0 .. L - 1 |-> desc[i].next] /\ g = [i \in 0 .. L - 1 |-> desc2[i].next]
    <3>1. DOMAIN desc = 0 .. L - 1 /\ DOMAIN desc2 = 0 .. L - 1
      BY <1>0, <1>2
    <3> QED  BY <3>1 DEF NextOf
  <2>2. \A i \in 0 .. L - 1 : g[i] = (IF i = m THEN L ELSE IF hdp # L /\ i = end THEN m ELSE f[i])
    <3> TAKE i \in 0 .. L - 1
    <3> HIDE DEF f, g
    <3>1. f[i] = desc[i].next /\ g[i] = desc2[i].next
      BY <2>1
    <3>2. CASE i = m
      BY <1>0, <1>2, <3>1, <3>2
    <3>3. CASE i # m /\ hdp # L /\ i = end
      BY <1>0, <1>2, <3>1, <3>3
    <3>4. CASE i # m /\ (hdp = L \/ i # end)
      BY <1>0, <1>2, <3>1, <3>4
    <3> QED  BY <3>2, <3>3, <3>4
  <2> HIDE DEF f, g
  <2>3. CASE hdp = L
    <3>1. g = [f EXCEPT ![m] = L]
      BY <1>0, <2>1, <2>2, <2>3
    <3> QED  BY <2>3, <3>1 DEF f, g
  <2>4. CASE hdp # L
    <3>1. g = [f EXCEPT ![m] = L, ![end] = m]
      BY <1>0, <2>1, <2>2, <2>4
    <3> QED  BY <2>4, <3>1 DEF f, g
  <2> QED  BY <2>3, <2>4
<1> QED  BY <1>2, <1>3, <1>4, <1>5 DEF OneMoreOwned

(* desc2 is desc when the engine is done with place m, with packet p there *)
Given(L, desc, m, p, desc2) ==
  /\ desc \in [0 .. L - 1 -> EtherDesc(L)] /\ m \in 0 .. L - 1 /\ p \in Nat
  /\ desc2 = [desc EXCEPT ![m].packet = p, ![m].own = FALSE]
OneFewerOwned(L, desc, m, p, desc2) ==
  /\ desc2 \in [0 .. L - 1 -> EtherDesc(L)]
  /\ OwnOf(desc2) = OwnOf(desc) \ {m} /\ NextOf(desc2) = NextOf(desc)
  /\ \A i \in 0 .. L - 1 : /\ desc2[i].packet = (IF i = m THEN p ELSE desc[i].packet)
                           /\ desc2[i].own = (IF i = m THEN FALSE ELSE desc[i].own)

LEMMA DescGiven ==
  ASSUME NEW L \in Nat \ {0}, NEW desc, NEW m, NEW p, NEW desc2, Given(L, desc, m, p, desc2)
  PROVE  OneFewerOwned(L, desc, m, p, desc2)
<1>1. /\ desc \in [0 .. L - 1 -> EtherDesc(L)] /\ m \in 0 .. L - 1 /\ p \in Nat
      /\ desc2 = [desc EXCEPT ![m].packet = p, ![m].own = FALSE]
  BY DEF Given
<1>2. PICK d \in EtherDesc(L) : d = desc[m]
  BY <1>1
<1>3. PICK e : e = [d EXCEPT !.packet = p, !.own = FALSE]
  OBVIOUS
<1>4. e \in EtherDesc(L) /\ ~e.own /\ e.next = d.next /\ e.packet = p
  BY <1>1, <1>3 DEF EtherDesc
<1>5. desc2 = [desc EXCEPT ![m] = e]
  BY <1>1, <1>2, <1>3
<1>6. /\ desc2 \in [0 .. L - 1 -> EtherDesc(L)]
      /\ desc2[m] = e /\ \A i \in 0 .. L - 1 : i # m => desc2[i] = desc[i]
  BY <1>1, <1>4, <1>5
<1>7. OwnOf(desc2) = OwnOf(desc) \ {m}
  <2>1. \A i : i \in OwnOf(desc2) <=> i \in 0 .. L - 1 /\ desc2[i].own
    BY <1>6, DescsAre
  <2>2. \A i : i \in OwnOf(desc) <=> i \in 0 .. L - 1 /\ desc[i].own
    BY <1>1, DescsAre
  <2> QED  BY <1>4, <1>6, <2>1, <2>2
<1>8. NextOf(desc2) = NextOf(desc)
  <2>1. \A i \in 0 .. L - 1 : desc2[i].next = desc[i].next
    BY <1>2, <1>4, <1>6
  <2>2. /\ NextOf(desc) = [i \in 0 .. L - 1 |-> desc[i].next]
        /\ NextOf(desc2) = [i \in 0 .. L - 1 |-> desc2[i].next]
    <3>1. DOMAIN desc = 0 .. L - 1 /\ DOMAIN desc2 = 0 .. L - 1
      BY <1>1, <1>6
    <3> QED  BY <3>1 DEF NextOf
  <2> QED  BY <2>1, <2>2
<1>9. \A i \in 0 .. L - 1 : /\ desc2[i].packet = (IF i = m THEN p ELSE desc[i].packet)
                            /\ desc2[i].own = (IF i = m THEN FALSE ELSE desc[i].own)
  <2> TAKE i \in 0 .. L - 1
  <2>1. CASE i = m
    <3>1. desc2[i] = e /\ e.packet = p /\ e.own = FALSE
      BY <1>4, <1>6, <2>1
    <3> QED  BY <2>1, <3>1
  <2>2. CASE i # m
    BY <1>6, <2>2
  <2> QED  BY <2>1, <2>2
<1> QED  BY <1>6, <1>7, <1>8, <1>9 DEF OneFewerOwned

-----------------------------------------------------------------------------

(* The ring of descriptors that one engine works on, and where it is *)
EngineRing(L, desc, lab, w, u, hdp, link) ==
  /\ L \in Nat \ {0} /\ w \in Nat /\ u \in Nat /\ desc \in [0 .. L - 1 -> EtherDesc(L)]
  /\ EngineOwns(L, OwnOf(desc), NextOf(desc), lab, w, u)
  /\ EngineAt(L, OwnOf(desc), NextOf(desc), hdp, link)

(* what there is to say of a ring after that: the descriptor is w % L *)
HandedTo(L, desc, lab, w, u, hdp, link, p) ==
  \E m \in 0 .. L - 1 : \E desc2 :
     /\ m = w % L /\ desc2 = Handed(L, desc, hdp, m, p)
     /\ m \notin OwnOf(desc) /\ OwnOf(desc2) = OwnOf(desc) \cup {m}
     /\ \A i \in 0 .. L - 1 : /\ desc2[i].packet = (IF i = m THEN p ELSE desc[i].packet)
                              /\ desc2[i].own = (IF i = m THEN TRUE ELSE desc[i].own)
     /\ EngineRing(L, desc2, [lab EXCEPT ![m] = w + 1], w + 1, u + 1, IF hdp = L THEN m ELSE hdp, link)

LEMMA RingHanded ==
  ASSUME NEW L \in Nat \ {0}, NEW desc, NEW lab, NEW w \in Nat, NEW u \in Nat, NEW hdp, NEW link,
         EngineRing(L, desc, lab, w, u, hdp, link), u < L, NEW p \in Nat
  PROVE  HandedTo(L, desc, lab, w, u, hdp, link, p)
<1>1. /\ desc \in [0 .. L - 1 -> EtherDesc(L)]
      /\ EngineOwns(L, OwnOf(desc), NextOf(desc), lab, w, u)
      /\ EngineAt(L, OwnOf(desc), NextOf(desc), hdp, link)
  BY DEF EngineRing
<1>2. PICK m \in 0 .. L - 1 : m = w % L /\ m \notin OwnOf(desc)
  BY <1>1, EngineFree
<1>3. DOMAIN desc = 0 .. L - 1
  BY <1>1
<1>4. PICK end : end = EndOf(desc, hdp)
  OBVIOUS
<1>5. hdp # L => end \in OwnOf(desc) /\ NextOf(desc)[end] = L /\ end \in 0 .. L - 1 /\ end # m
  <2> SUFFICES ASSUME hdp # L
               PROVE  end \in OwnOf(desc) /\ NextOf(desc)[end] = L /\ end \in 0 .. L - 1 /\ end # m
    OBVIOUS
  <2>1. hdp \in OwnOf(desc)
    BY <1>1 DEF EngineAt
  <2>2. end \in OwnOf(desc) /\ desc[end].next = L
    BY <1>1, <1>3, <1>4, <2>1, EndOfIs
  <2>3. end \in 0 .. L - 1
    BY <1>3, <2>2 DEF OwnOf
  <2> QED  BY <1>2, <1>3, <2>2, <2>3 DEF NextOf
<1>6. PICK d : d = [packet |-> p, own |-> TRUE, next |-> L]
  OBVIOUS
<1>7. d \in EtherDesc(L) /\ d.own /\ d.next = L /\ d.packet = p
  <2>1. L \in 0 .. L
    OBVIOUS
  <2> QED  BY <1>6, <2>1 DEF EtherDesc
<1>8. PICK desc2 : desc2 = Handed(L, desc, hdp, m, p)
  OBVIOUS
<1>9. desc2 = IF hdp = L THEN [desc EXCEPT ![m] = d] ELSE [[desc EXCEPT ![m] = d] EXCEPT ![end].next = m]
  BY <1>4, <1>6, <1>8 DEF Handed
<1>10. /\ desc2 \in [0 .. L - 1 -> EtherDesc(L)] /\ OwnOf(desc2) = OwnOf(desc) \cup {m}
       /\ NextOf(desc2) = (IF hdp = L THEN [NextOf(desc) EXCEPT ![m] = L]
                           ELSE [NextOf(desc) EXCEPT ![m] = L, ![end] = m])
       /\ \A i \in 0 .. L - 1 : /\ desc2[i].packet = (IF i = m THEN d.packet ELSE desc[i].packet)
                                /\ desc2[i].own = (IF i = m THEN TRUE ELSE desc[i].own)
  <2>1. Written(L, desc, m, d, hdp, end, desc2)
    BY <1>1, <1>5, <1>7, <1>9 DEF Written
  <2>2. OneMoreOwned(L, desc, m, d, hdp, end, desc2)
    BY <2>1, DescWritten
  <2> QED  BY <2>2 DEF OneMoreOwned
<1>11. PICK nx2 : nx2 = NextOf(desc2)
  OBVIOUS
<1>12. nx2 = IF hdp = L THEN [NextOf(desc) EXCEPT ![m] = L] ELSE [NextOf(desc) EXCEPT ![m] = L, ![end] = m]
  BY <1>10, <1>11
<1>13. /\ EngineOwns(L, OwnOf(desc) \cup {m}, nx2, [lab EXCEPT ![m] = w + 1], w + 1, u + 1)
       /\ EngineAt(L, OwnOf(desc) \cup {m}, nx2, IF hdp = L THEN m ELSE hdp, link)
  <2>1. Gets(L, OwnOf(desc), NextOf(desc), lab, w, u, hdp, link, m, end, nx2)
    BY <1>1, <1>2, <1>5, <1>12 DEF Gets
  <2> QED  BY <2>1, EngineGets
<1>14. w + 1 \in Nat /\ u + 1 \in Nat
  OBVIOUS
<1>15. EngineRing(L, desc2, [lab EXCEPT ![m] = w + 1], w + 1, u + 1, IF hdp = L THEN m ELSE hdp, link)
  BY <1>10, <1>11, <1>13, <1>14 DEF EngineRing
<1>16. \A i \in 0 .. L - 1 : /\ desc2[i].packet = (IF i = m THEN p ELSE desc[i].packet)
                              /\ desc2[i].own = (IF i = m THEN TRUE ELSE desc[i].own)
  BY <1>7, <1>10
<1>17. m = w % L /\ m \notin OwnOf(desc) /\ OwnOf(desc2) = OwnOf(desc) \cup {m}
  BY <1>2, <1>10
<1> QED  BY <1>8, <1>15, <1>16, <1>17 DEF HandedTo

\* Packets 1 to w were sent, once each, or are in descriptors of O.
SentOnce(sent, w, O, lab) ==
  /\ sent \in Seq(Nat)
  /\ \A j, k \in 1 .. Len(sent) : sent[j] = sent[k] => j = k
  /\ \A k \in 1 .. Len(sent) : sent[k] \in 1 .. w /\ \A i \in O : lab[i] # sent[k]
  /\ \A p \in 1 .. w : (\E k \in 1 .. Len(sent) : sent[k] = p) \/ (\E i \in O : lab[i] = p)

\* Packet w + 1 goes to descriptor m.
OneMoreThere(w, O, lab, m, lab2) == lab2[m] = w + 1 /\ \A i \in O : lab2[i] = lab[i]

LEMMA SentOneMore ==
  ASSUME NEW sent, NEW w \in Nat, NEW O, NEW lab, NEW m, NEW lab2, SentOnce(sent, w, O, lab),
         OneMoreThere(w, O, lab, m, lab2)
  PROVE  SentOnce(sent, w + 1, O \cup {m}, lab2)
<1>1. /\ sent \in Seq(Nat) /\ \A j, k \in 1 .. Len(sent) : sent[j] = sent[k] => j = k
      /\ \A k \in 1 .. Len(sent) : sent[k] \in 1 .. w /\ \A i \in O : lab[i] # sent[k]
      /\ \A p \in 1 .. w : (\E k \in 1 .. Len(sent) : sent[k] = p) \/ (\E i \in O : lab[i] = p)
  BY DEF SentOnce
<1>0. lab2[m] = w + 1 /\ \A i \in O : lab2[i] = lab[i]
  BY DEF OneMoreThere
<1>2. \A k \in 1 .. Len(sent) : sent[k] \in 1 .. w + 1 /\ \A i \in O \cup {m} : lab2[i] # sent[k]
  <2> TAKE k \in 1 .. Len(sent)
  <2>1. sent[k] \in 1 .. w /\ \A i \in O : lab[i] # sent[k]
    BY <1>1
  <2>2. sent[k] \in 1 .. w + 1 /\ sent[k] # w + 1
    BY <2>1
  <2> QED  BY <1>0, <2>1, <2>2
<1>3. \A p \in 1 .. w + 1 : (\E k \in 1 .. Len(sent) : sent[k] = p) \/ (\E i \in O \cup {m} : lab2[i] = p)
  <2> TAKE p \in 1 .. w + 1
  <2>1. CASE p = w + 1
    BY <1>0, <2>1
  <2>2. CASE p # w + 1
    <3>1. p \in 1 .. w
      BY <2>2
    <3> QED  BY <1>0, <1>1, <3>1
  <2> QED  BY <2>1, <2>2
<1> QED  BY <1>1, <1>2, <1>3 DEF SentOnce

LEMMA SentNow ==
  ASSUME NEW sent, NEW w \in Nat, NEW O, NEW lab, NEW h \in O, SentOnce(sent, w, O, lab),
         \A i \in O : lab[i] \in 1 .. w, \A i, j \in O : lab[i] = lab[j] => i = j
  PROVE  SentOnce(Append(sent, lab[h]), w, O \ {h}, lab)
<1>1. /\ sent \in Seq(Nat) /\ \A j, k \in 1 .. Len(sent) : sent[j] = sent[k] => j = k
      /\ \A k \in 1 .. Len(sent) : sent[k] \in 1 .. w /\ \A i \in O : lab[i] # sent[k]
      /\ \A p \in 1 .. w : (\E k \in 1 .. Len(sent) : sent[k] = p) \/ (\E i \in O : lab[i] = p)
  BY DEF SentOnce
<1>2. PICK x \in 1 .. w : x = lab[h]
  OBVIOUS
<1> DEFINE q == Append(sent, x)
<1> HIDE DEF q
<1>3. PICK n \in Nat : n = Len(sent)
  BY <1>1
<1>4. /\ q \in Seq(Nat) /\ Len(q) = n + 1 /\ q[n + 1] = x /\ \A k \in 1 .. n : q[k] = sent[k]
  <2>1. x \in Nat
    OBVIOUS
  <2> QED  BY <1>1, <1>3, <2>1, AppendProperties DEF q
<1>5. \A k \in 1 .. n + 1 : k = n + 1 \/ k \in 1 .. n
  OBVIOUS
<1>6. \A j, k \in 1 .. n + 1 : q[j] = q[k] => j = k
  <2> SUFFICES ASSUME NEW j \in 1 .. n + 1, NEW k \in 1 .. n + 1, q[j] = q[k]  PROVE j = k
    OBVIOUS
  <2>1. \A i \in 1 .. n : sent[i] # x
    BY <1>1, <1>2, <1>3
  <2>2. CASE j = n + 1 /\ k # n + 1
    BY <1>4, <1>5, <2>1, <2>2
  <2>3. CASE k = n + 1 /\ j # n + 1
    BY <1>4, <1>5, <2>1, <2>3
  <2>4. CASE j # n + 1 /\ k # n + 1
    <3>1. j \in 1 .. n /\ k \in 1 .. n
      BY <1>5, <2>4
    <3>2. sent[j] = sent[k]
      BY <1>4, <3>1
    <3> QED  BY <1>1, <1>3, <3>1, <3>2
  <2> QED  BY <2>2, <2>3, <2>4
<1>7. \A k \in 1 .. n + 1 : q[k] \in 1 .. w /\ \A i \in O \ {h} : lab[i] # q[k]
  <2> TAKE k \in 1 .. n + 1
  <2>1. CASE k = n + 1
    BY <1>2, <1>4, <2>1
  <2>2. CASE k \in 1 .. n
    BY <1>1, <1>3, <1>4, <2>2
  <2> QED  BY <1>5, <2>1, <2>2
<1>8. \A p \in 1 .. w : (\E k \in 1 .. n + 1 : q[k] = p) \/ (\E i \in O \ {h} : lab[i] = p)
  <2> TAKE p \in 1 .. w
  <2>0. \A k \in 1 .. n : k \in 1 .. n + 1
    OBVIOUS
  <2>1. CASE \E k \in 1 .. n : sent[k] = p
    BY <1>4, <2>0, <2>1
  <2>2. CASE \E i \in O : lab[i] = p
    <3>1. PICK i \in O : lab[i] = p
      BY <2>2
    <3>2. CASE i = h
      <4>1. n + 1 \in 1 .. n + 1
        OBVIOUS
      <4> QED  BY <1>2, <1>4, <3>1, <3>2, <4>1
    <3>3. CASE i # h
      BY <3>1, <3>3
    <3> QED  BY <3>2, <3>3
  <2> QED  BY <1>1, <1>3, <2>1, <2>2
<1>9. SentOnce(q, w, O \ {h}, lab)
  BY <1>4, <1>6, <1>7, <1>8 DEF SentOnce
<1> QED  BY <1>2, <1>9 DEF q

-----------------------------------------------------------------------------

EoLab == [i \in 0 .. TxRing - 1 |-> eodesc[i].packet]
EoInUse == TxRing - Available(eosem) - Cardinality(eoready)

EoTypes ==
  /\ SemaSound(eosem) /\ eoready \subseteq Procs /\ eoready \cap Waiters(eosem) = {}
  /\ eowriter \in eoready \cup {NoProc} /\ eocheck \in {eohead, None}

(* Until the engine is restarted with a packet it has sent: the packets     *)
(* written are in the order of the ring, those in use are between the head  *)
(* and the tail, and the handler stops at the first of them                 *)
EoHolds ==
  /\ EoTypes
  /\ EngineRing(TxRing, eodesc, EoLab, eowritten, EoInUse, eohdp, eolink)
  /\ EoInUse <= eowritten /\ eotail = eowritten % TxRing /\ eohead = (eowritten - EoInUse) % TxRing
  /\ SentOnce(eosent, eowritten, OwnOf(eodesc), EoLab)
  /\ OwnOf(eodesc) # {} => eohdp # None \/ eoirq \/ eocheck # None
EoInv == ~eoended /\ eoagain = {} => EoHolds

LEMMA EoInitially == EoInit => EoInv
<1> SUFFICES ASSUME EoInit  PROVE EoHolds
  BY DEF EoInv
<1>1. /\ TxRing \in Nat \ {0} /\ eohead = 0 /\ eotail = 0 /\ eosem = Sema(TxRing) /\ eohdp = TxRing
      /\ eolink = TxRing + 1 /\ eoready = {} /\ eowritten = 0 /\ eosent = <<>>
      /\ eowriter = NoProc /\ eocheck = None
      /\ eodesc = [i \in 0 .. TxRing - 1 |-> [packet |-> 0, own |-> FALSE, next |-> TxRing]]
  BY EtherOutAssumption DEF EoInit, EoCells, None, Unread
<1>2. EoTypes
  <2>1. SemaSound(eosem) /\ Waiters(eosem) = {}
    BY <1>1, SemaIsSound
  <2> QED  BY <1>1, <2>1 DEF EoTypes
<1>3. EoInUse = 0
  <2>1. Available(eosem) = TxRing /\ Cardinality({}) = 0
    BY <1>1, FS_EmptySet, SemaIsSound DEF Available
  <2> QED  BY <1>1, <2>1 DEF EoInUse
<1>4. OwnOf(eodesc) = {}
  BY <1>1 DEF OwnOf
<1>5. EngineOwns(TxRing, {}, NextOf(eodesc), EoLab, 0, 0)
  <2>1. NextOf(eodesc) \in [0 .. TxRing - 1 -> 0 .. TxRing] /\ EoLab \in [0 .. TxRing - 1 -> Nat]
    BY <1>1 DEF NextOf, EoLab
  <2>2. 0 \in Nat /\ 0 \in 0 .. TxRing
    BY <1>1
  <2> QED  BY <1>1, <2>1, <2>2 DEF EngineOwns
<1>6. EngineAt(TxRing, {}, NextOf(eodesc), TxRing, TxRing + 1)
  BY DEF EngineAt
<1>7. 0 % TxRing = 0 /\ 0 - 0 = 0 /\ 0 <= 0
  BY <1>1, ModIs
<1>8. SentOnce(<<>>, 0, {}, EoLab)
  <2>1. 1 .. 0 = {} /\ Len(<<>>) = 0 /\ <<>> \in Seq(Nat)
    OBVIOUS
  <2> QED  BY <2>1 DEF SentOnce
<1>9. EngineRing(TxRing, eodesc, EoLab, 0, 0, TxRing, TxRing + 1)
  <2>1. [packet |-> 0, own |-> FALSE, next |-> TxRing] \in EtherDesc(TxRing)
    BY <1>1 DEF EtherDesc
  <2>2. eodesc \in [0 .. TxRing - 1 -> EtherDesc(TxRing)]
    BY <1>1, <2>1
  <2>3. 0 \in Nat
    OBVIOUS
  <2> QED  BY <1>1, <1>4, <1>5, <1>6, <2>2, <2>3 DEF EngineRing
<1> QED  BY <1>1, <1>2, <1>3, <1>4, <1>7, <1>8, <1>9 DEF EoHolds

\* A packet is written to the descriptor behind the last (ethwrite.c).
LEMMA EoFillKeeps ==
  ASSUME EoHolds, EoFill, UNCHANGED <<eohead, eolink, eosent>>, EoInUse' = EoInUse + 1, EoInUse' <= TxRing,
         EoTypes'
  PROVE  EoHolds'
<1>1. PICK L \in Nat \ {0}, w \in Nat, u \in Nat : L = TxRing /\ w = eowritten /\ u = EoInUse
  BY EtherOutAssumption DEF EoHolds, EngineRing
<1>2. /\ EngineRing(L, eodesc, EoLab, w, u, eohdp, eolink) /\ u < L
      /\ u <= w /\ eotail = w % L /\ eohead = (w - u) % L /\ SentOnce(eosent, w, OwnOf(eodesc), EoLab)
  BY <1>1 DEF EoHolds
<1>3. PICK p \in Nat : p = w + 1
  OBVIOUS
<1>4. PICK m \in 0 .. L - 1 : \E desc :
           /\ m = w % L /\ desc = Handed(L, eodesc, eohdp, m, p)
           /\ m \notin OwnOf(eodesc) /\ OwnOf(desc) = OwnOf(eodesc) \cup {m}
           /\ \A i \in 0 .. L - 1 : /\ desc[i].packet = (IF i = m THEN p ELSE eodesc[i].packet)
                                    /\ desc[i].own = (IF i = m THEN TRUE ELSE eodesc[i].own)
           /\ EngineRing(L, desc, [EoLab EXCEPT ![m] = w + 1], w + 1, u + 1, IF eohdp = L THEN m ELSE eohdp, eolink)
  <2>1. HandedTo(L, eodesc, EoLab, w, u, eohdp, eolink, p)
    BY <1>2, RingHanded
  <2> QED  BY <2>1 DEF HandedTo
<1>5. /\ eowritten' = w + 1 /\ eotail' = (m + 1) % L /\ eotail = m
      /\ eodesc' = Handed(L, eodesc, eohdp, m, p)
      /\ eohdp' = IF eohdp = L THEN m ELSE eohdp
  BY <1>1, <1>2, <1>3, <1>4 DEF EoFill, EoNext, None
<1>6. /\ m \notin OwnOf(eodesc) /\ OwnOf(eodesc') = OwnOf(eodesc) \cup {m}
      /\ \A i \in 0 .. L - 1 : eodesc'[i].packet = (IF i = m THEN w + 1 ELSE eodesc[i].packet)
      /\ EngineRing(L, eodesc', [EoLab EXCEPT ![m] = w + 1], w + 1, u + 1, eohdp', eolink)
  BY <1>3, <1>4, <1>5
<1>7. EoLab' = [EoLab EXCEPT ![m] = w + 1] /\ EoLab'[m] = w + 1 /\ \A i \in OwnOf(eodesc) : EoLab'[i] = EoLab[i]
  <2>1. EoLab' = [i \in 0 .. L - 1 |-> eodesc'[i].packet] /\ EoLab = [i \in 0 .. L - 1 |-> eodesc[i].packet]
    BY <1>1 DEF EoLab
  <2>2. \A i \in 0 .. L - 1 : EoLab'[i] = IF i = m THEN w + 1 ELSE EoLab[i]
    BY <1>6, <2>1
  <2>3. EoLab' = [EoLab EXCEPT ![m] = w + 1]
    BY <2>1, <2>2
  <2>4. OwnOf(eodesc) \subseteq 0 .. L - 1
    BY <1>2 DEF EngineRing, EngineOwns
  <2> QED  BY <1>6, <2>2, <2>3, <2>4
<1>8. SentOnce(eosent, w + 1, OwnOf(eodesc'), EoLab')
  <2>1. SentOnce(eosent, w + 1, OwnOf(eodesc) \cup {m}, EoLab')
    <3>1. OneMoreThere(w, OwnOf(eodesc), EoLab, m, EoLab')
      BY <1>6, <1>7 DEF OneMoreThere
    <3> QED  BY <1>2, <3>1, SentOneMore
  <2> QED  BY <1>6, <2>1
<1>9. u + 1 <= w + 1 /\ eotail' = (w + 1) % L /\ eohead' = ((w + 1) - (u + 1)) % L
  <2>1. (m + 1) % L = (w + 1) % L
    <3>1. w \in Int
      OBVIOUS
    <3> QED  BY <1>4, <3>1, SpotNext
  <2>2. (w + 1) - (u + 1) = w - u /\ u + 1 <= w + 1
    BY <1>2
  <2> QED  BY <1>2, <1>5, <2>1, <2>2
<1>10. eohdp' # None
  <2>1. m # L
    OBVIOUS
  <2> QED  BY <1>1, <1>5, <2>1 DEF None
<1>11. EngineRing(L, eodesc', EoLab', w + 1, u + 1, eohdp', eolink)
  BY <1>6, <1>7
<1> QED  BY <1>1, <1>5, <1>8, <1>9, <1>10, <1>11 DEF EoHolds

LEMMA EoHoldsIs ==
  ASSUME EoHolds
  PROVE  /\ TxRing \in Nat \ {0} /\ eowritten \in Nat /\ EoInUse \in Nat /\ EoInUse <= TxRing
         /\ EoInUse <= eowritten
         /\ EoInUse = TxRing - Available(eosem) - Cardinality(eoready)
         /\ Available(eosem) \in Nat /\ Cardinality(eoready) \in Nat /\ eosem.n \in Int
         /\ eosem.n <= Available(eosem) /\ (eosem.n >= 0 => eosem.n = Available(eosem))
<1>1. /\ EngineRing(TxRing, eodesc, EoLab, eowritten, EoInUse, eohdp, eolink)
      /\ EoInUse <= eowritten /\ EoTypes
  BY DEF EoHolds
<1>2. TxRing \in Nat \ {0} /\ eowritten \in Nat /\ EoInUse \in Nat /\ EoInUse \in 0 .. TxRing
  BY <1>1 DEF EngineRing, EngineOwns
<1>3. Cardinality(eoready) \in Nat
  BY <1>1, SemasAssumption, FS_Subset, FS_CardinalityType DEF EoTypes
<1>4. /\ eosem.n \in Int /\ Available(eosem) \in Nat /\ eosem.n <= Available(eosem)
      /\ eosem.n >= 0 => eosem.n = Available(eosem)
  BY <1>1 DEF EoTypes, SemaSound, Available
<1>5. EoInUse = TxRing - Available(eosem) - Cardinality(eoready)
  BY DEF EoInUse
<1>6. EoInUse <= TxRing
  BY <1>2
<1> QED  BY <1>1, <1>2, <1>3, <1>4, <1>5, <1>6

\* A process that was let through hands its descriptor to the engine (ethwrite.c).
LEMMA EoReadyFills ==
  ASSUME EoHolds, NEW p \in eoready, eoready' = eoready \ {p}, EoFill, eowriter' = NoProc,
         UNCHANGED <<eohead, eosem, eolink, eocheck, eosent>>
  PROVE  EoHolds'
<1>2. SemaSound(eosem) /\ eoready \subseteq Procs /\ eoready \cap Waiters(eosem) = {}
      /\ eocheck \in {eohead, None}
  BY DEF EoHolds, EoTypes
<1>3. EoTypes'
  <2>1. eoready' \subseteq Procs /\ eoready' \cap Waiters(eosem)' = {}
    BY <1>2
  <2>2. None' = None
    BY DEF None
  <2> QED  BY <1>2, <2>1, <2>2 DEF EoTypes
<1>4. Cardinality(eoready') \in Nat /\ Cardinality(eoready) = Cardinality(eoready') + 1
  BY <1>2, ReadyGoes
<1>5. PICK a \in Nat, c \in Nat, d \in Nat, L \in Nat :
         /\ a = Available(eosem) /\ d = Cardinality(eoready') /\ c = Cardinality(eoready) /\ L = TxRing
         /\ EoInUse = L - a - c /\ EoInUse' = L - a - d
  <2>1. EoInUse' = TxRing - Available(eosem) - Cardinality(eoready')
    BY DEF EoInUse
  <2> QED  BY <1>4, <2>1, EoHoldsIs
<1>6. EoInUse' = EoInUse + 1 /\ EoInUse' <= TxRing
  BY <1>4, <1>5
<1> QED  BY <1>3, <1>6, EoFillKeeps

LEMMA EoWriteKeeps ==
  ASSUME EoHolds, NEW p \in Procs, EoWrite(p)
  PROVE  EoHolds'
<1>1. /\ p \notin Waiters(eosem) /\ p \notin eoready /\ eosem' = Down(eosem, p)
      /\ eowriter = NoProc /\ eocheck = None /\ eocheck' = eocheck
      /\ IF Blocks(eosem) THEN UNCHANGED <<eodesc, eotail, eohdp, eowritten, eoready, eowriter>>
         ELSE EoLook(p)
      /\ UNCHANGED <<eohead, eolink, eoirq, eosent>>
  BY DEF EoWrite, EoFree
<1>2. SemaSound(eosem) /\ eoready \subseteq Procs /\ eoready \cap Waiters(eosem) = {}
  BY DEF EoHolds, EoTypes
<1>3. /\ SemaSound(eosem') /\ Waiters(eosem') \subseteq Waiters(eosem) \cup {p}
      /\ ~Blocks(eosem) => Waiters(eosem') = Waiters(eosem)
  <2>1. SemaSound(Down(eosem, p)) /\ Waiters(Down(eosem, p)) \subseteq Waiters(eosem) \cup {p}
    BY <1>1, <1>2, DownIs
  <2>2. ~Blocks(eosem) => Waiters(Down(eosem, p)) = Waiters(eosem)
    BY DEF Down, Waiters
  <2> QED  BY <1>1, <2>1, <2>2
<1>4. /\ Available(eosem) \in Nat /\ Available(eosem') \in Nat
      /\ Blocks(eosem) => Available(eosem) = 0 /\ Available(eosem') = 0
      /\ ~Blocks(eosem) => Available(eosem) = Available(eosem') + 1
  BY <1>1, <1>2, DownAvailable
<1>5. PICK a \in Nat, b \in Nat, c \in Nat, L \in Nat :
         /\ a = Available(eosem) /\ b = Available(eosem') /\ c = Cardinality(eoready) /\ L = TxRing
         /\ EoInUse = L - a - c
  BY <1>4, EoHoldsIs
<1>6. CASE Blocks(eosem)
  <2>1. UNCHANGED <<eodesc, eotail, eohdp, eowritten, eohead, eolink, eoirq, eosent, eoready, eowriter, eocheck>>
    BY <1>1, <1>6
  <2>2. EoInUse' = EoInUse
    <3>1. EoInUse' = TxRing - Available(eosem') - Cardinality(eoready)
      BY <2>1 DEF EoInUse
    <3> QED  BY <1>4, <1>5, <1>6, <3>1
  <2>3. EoLab' = EoLab /\ None' = None
    BY <2>1 DEF EoLab, None
  <2>4. EoTypes'
    <3>1. eoready' \subseteq Procs /\ eoready' \cap Waiters(eosem)' = {}
      BY <1>1, <1>2, <1>3, <2>1
    <3> QED  BY <1>1, <1>3, <2>1, <3>1 DEF EoTypes
  <2> QED  BY <2>1, <2>2, <2>3, <2>4 DEF EoHolds, None
<1>7. CASE ~Blocks(eosem) /\ eohdp = None
  <2>1. EoFill /\ eoready' = eoready /\ eowriter' = NoProc
    BY <1>1, <1>7 DEF EoLook
  <2>2. EoTypes'
    <3>1. eoready' \subseteq Procs /\ eoready' \cap Waiters(eosem)' = {}
      BY <1>2, <1>3, <1>7, <2>1
    <3>2. None' = None
      BY DEF None
    <3> QED  BY <1>1, <1>3, <2>1, <3>1, <3>2 DEF EoTypes
  <2>3. EoInUse' = EoInUse + 1 /\ EoInUse' <= TxRing
    <3>1. EoInUse' = TxRing - Available(eosem') - Cardinality(eoready)
      BY <2>1 DEF EoInUse
    <3> QED  BY <1>4, <1>5, <1>7, <3>1
  <2> QED  BY <1>1, <2>1, <2>2, <2>3, EoFillKeeps
<1>8. CASE ~Blocks(eosem) /\ eohdp # None
  <2>1. /\ eowriter' = p /\ eoready' = eoready \cup {p}
        /\ UNCHANGED <<eodesc, eotail, eohdp, eowritten, eohead, eolink, eoirq, eosent>>
    BY <1>1, <1>8 DEF EoLook
  <2>2. Cardinality(eoready') = Cardinality(eoready) + 1
    BY <1>1, <1>2, <2>1, OneMore
  <2>3. EoInUse' = EoInUse
    <3>1. EoInUse' = TxRing - Available(eosem') - Cardinality(eoready')
      BY DEF EoInUse
    <3> QED  BY <1>4, <1>5, <1>8, <2>2, <3>1
  <2>4. EoTypes'
    <3>1. eoready' \subseteq Procs /\ eoready' \cap Waiters(eosem)' = {}
      BY <1>1, <1>2, <1>3, <1>8, <2>1
    <3>2. None' = None
      BY DEF None
    <3> QED  BY <1>1, <1>3, <2>1, <3>1, <3>2 DEF EoTypes
  <2>5. EoLab' = EoLab
    BY <2>1 DEF EoLab
  <2> QED  BY <1>1, <2>1, <2>3, <2>4, <2>5 DEF EoHolds, None
<1> QED  BY <1>6, <1>7, <1>8

LEMMA EoResumeKeeps ==
  ASSUME EoHolds, NEW p, EoResume(p)
  PROVE  EoHolds'
<1>1. /\ p \in eoready /\ EoLook(p) /\ eowriter = NoProc
      /\ UNCHANGED <<eohead, eosem, eolink, eoirq, eocheck, eosent>>
  BY DEF EoResume, EoFree
<1>2. CASE eohdp = None
  <2>1. eoready' = eoready \ {p} /\ EoFill /\ eowriter' = NoProc
    BY <1>1, <1>2 DEF EoLook
  <2> QED  BY <1>1, <2>1, EoReadyFills
<1>3. CASE eohdp # None
  <2>1. eowriter' = p /\ eoready' = eoready /\ UNCHANGED <<eodesc, eotail, eohdp, eowritten>>
    BY <1>1, <1>3 DEF EoLook
  <2>2. EoLab' = EoLab /\ EoInUse' = EoInUse
    BY <1>1, <2>1 DEF EoLab, EoInUse
  <2>3. EoTypes'
    BY <1>1, <2>1 DEF EoHolds, EoTypes, None
  <2> QED  BY <1>1, <2>1, <2>2, <2>3 DEF EoHolds, None
<1> QED  BY <1>2, <1>3

LEMMA EoLinkKeeps ==
  ASSUME EoHolds, EoLink, ~eoended'
  PROVE  EoHolds'
<1>1. /\ eowriter \in eoready /\ eowriter' = NoProc
      /\ UNCHANGED <<eohead, eosem, eolink, eoirq, eocheck, eosent>>
  BY DEF EoLink, EoHolds, EoTypes
<1>2. EoFill /\ eoready' = eoready \ {eowriter}
  BY DEF EoLink
<1> QED  BY <1>1, <1>2, EoReadyFills

LEMMA EoFetchKeeps ==
  ASSUME EoHolds, EoFetch
  PROVE  EoHolds'
<1>1. /\ eohdp # TxRing /\ eolink' = eodesc[eohdp].next
      /\ UNCHANGED <<eodesc, eohead, eotail, eosem, eohdp, eoirq, eoready, eowriter, eocheck, eowritten, eosent>>
  BY DEF EoFetch, None
<1>2. EngineRing(TxRing, eodesc, EoLab, eowritten, EoInUse, eohdp, eolink)
  BY DEF EoHolds
<1>3. /\ TxRing \in Nat \ {0} /\ eodesc \in [0 .. TxRing - 1 -> EtherDesc(TxRing)]
      /\ EngineOwns(TxRing, OwnOf(eodesc), NextOf(eodesc), EoLab, eowritten, EoInUse)
      /\ EngineAt(TxRing, OwnOf(eodesc), NextOf(eodesc), eohdp, eolink)
  BY <1>2 DEF EngineRing
<1>4. NextOf(eodesc)[eohdp] = eodesc[eohdp].next
  <2>1. eohdp \in OwnOf(eodesc)
    BY <1>1, <1>3 DEF EngineAt
  <2> QED  BY <2>1 DEF OwnOf, NextOf
<1>5. EngineAt(TxRing, OwnOf(eodesc), NextOf(eodesc), eohdp, eolink')
  BY <1>1, <1>3, <1>4, EngineReads
<1>6. EoLab' = EoLab /\ EoInUse' = EoInUse
  BY <1>1 DEF EoLab, EoInUse
<1>7. EngineRing(TxRing, eodesc, EoLab, eowritten, EoInUse, eohdp, eolink')
  BY <1>2, <1>5 DEF EngineRing
<1>8. EoTypes'
  BY <1>1 DEF EoHolds, EoTypes, None
<1> QED  BY <1>1, <1>6, <1>7, <1>8 DEF EoHolds, None

LEMMA EoSendKeeps ==
  ASSUME EoHolds, EoSend
  PROVE  EoHolds'
<1>1. /\ eohdp # TxRing /\ eolink # TxRing + 1
      /\ eosent' = Append(eosent, eodesc[eohdp].packet)
      /\ eodesc' = [eodesc EXCEPT ![eohdp].own = FALSE]
      /\ eohdp' = eolink /\ eolink' = TxRing + 1 /\ eoirq' = TRUE
      /\ UNCHANGED <<eohead, eotail, eosem, eoready, eowriter, eocheck, eowritten>>
  BY DEF EoSend, None, Unread
<1>2. PICK O : O = OwnOf(eodesc)
  OBVIOUS
<1>3. PICK L \in Nat \ {0}, w \in Nat, u \in Nat :
         /\ L = TxRing /\ w = eowritten /\ u = EoInUse /\ O = OwnOf(eodesc) /\ u <= w
         /\ eodesc \in [0 .. L - 1 -> EtherDesc(L)]
         /\ EngineOwns(L, O, NextOf(eodesc), EoLab, w, u)
         /\ EngineAt(L, O, NextOf(eodesc), eohdp, eolink)
         /\ SentOnce(eosent, w, O, EoLab)
  BY <1>2, EoHoldsIs DEF EoHolds, EngineRing
<1>4. /\ eohdp \in O /\ EngineOwns(L, O \ {eohdp}, NextOf(eodesc), EoLab, w, u)
      /\ EngineAt(L, O \ {eohdp}, NextOf(eodesc), eolink, L + 1)
  BY <1>1, <1>3, EngineGoesOn
<1>5. PICK m \in 0 .. L - 1 : m = eohdp
  BY <1>3, <1>4 DEF OwnOf
<1>6. PICK p \in Nat : p = eodesc[m].packet /\ p = EoLab[m]
  BY <1>3, <1>5 DEF EtherDesc, EoLab
<1>7. eodesc' = [eodesc EXCEPT ![m].packet = p, ![m].own = FALSE]
  <2>1. PICK d \in EtherDesc(L) : d = eodesc[m]
    BY <1>3
  <2>2. [d EXCEPT !.packet = p] = d
    BY <1>6, <2>1 DEF EtherDesc
  <2>3. [d EXCEPT !.own = FALSE] = [d EXCEPT !.packet = p, !.own = FALSE]
    BY <2>1, <2>2
  <2>4. eodesc' = [eodesc EXCEPT ![m] = [d EXCEPT !.own = FALSE]]
    BY <1>1, <1>5, <2>1
  <2>5. eodesc' = [eodesc EXCEPT ![m] = [d EXCEPT !.packet = p, !.own = FALSE]]
    BY <2>3, <2>4
  <2> QED  BY <2>1, <2>5
<1>8. /\ eodesc' \in [0 .. L - 1 -> EtherDesc(L)]
      /\ OwnOf(eodesc') = O \ {m} /\ NextOf(eodesc') = NextOf(eodesc)
      /\ \A i \in 0 .. L - 1 : eodesc'[i].packet = (IF i = m THEN p ELSE eodesc[i].packet)
  <2>1. Given(L, eodesc, m, p, eodesc')
    BY <1>3, <1>7 DEF Given
  <2>2. OneFewerOwned(L, eodesc, m, p, eodesc')
    BY <2>1, DescGiven
  <2> QED  BY <1>3, <2>2 DEF OneFewerOwned
<1>9. EoLab' = EoLab
  BY <1>3, <1>6, <1>8 DEF EoLab
<1>10. SentOnce(Append(eosent, EoLab[m]), w, O \ {m}, EoLab)
  <2>1. \A i \in O : EoLab[i] \in w - u + 1 .. w /\ (EoLab[i] - 1) % L = i
    BY <1>3 DEF EngineOwns
  <2>2. \A i \in O : EoLab[i] \in 1 .. w
    <3> TAKE i \in O
    <3>1. PICK l \in w - u + 1 .. w : l = EoLab[i]
      BY <2>1
    <3>2. l \in 1 .. w
      BY <1>3
    <3> QED  BY <3>1, <3>2
  <2>3. \A i, j \in O : EoLab[i] = EoLab[j] => i = j
    BY <2>1
  <2>4. m \in O
    BY <1>4, <1>5
  <2> QED  BY <1>3, <2>2, <2>3, <2>4, SentNow
<1>11. SentOnce(eosent', w, OwnOf(eodesc'), EoLab')
  BY <1>1, <1>5, <1>6, <1>8, <1>9, <1>10
<1>12. EngineRing(L, eodesc', EoLab', w, u, eohdp', eolink')
  BY <1>1, <1>3, <1>4, <1>5, <1>8, <1>9 DEF EngineRing
<1>13. EoTypes' /\ EoInUse' = EoInUse
  BY <1>1 DEF EoHolds, EoTypes, EoInUse, None
<1>14. EoInUse <= eowritten /\ eotail = eowritten % TxRing /\ eohead = (eowritten - EoInUse) % TxRing
  BY DEF EoHolds
<1> QED  BY <1>1, <1>3, <1>11, <1>12, <1>13, <1>14 DEF EoHolds

LEMMA EoHandlerKeeps ==
  ASSUME EoHolds, EoHandler, ~eoended'
  PROVE  EoHolds'
<1>1. PICK O : O = OwnOf(eodesc)
  OBVIOUS
<1>2. PICK L \in Nat \ {0}, w \in Nat, u \in Nat :
         /\ L = TxRing /\ w = eowritten /\ u = EoInUse /\ O = OwnOf(eodesc) /\ u <= w /\ u <= L
         /\ eodesc \in [0 .. L - 1 -> EtherDesc(L)]
         /\ EngineOwns(L, O, NextOf(eodesc), EoLab, w, u)
         /\ EngineAt(L, O, NextOf(eodesc), eohdp, eolink)
         /\ SentOnce(eosent, w, O, EoLab) /\ eohead = (w - u) % L /\ eotail = w % L
  BY <1>1, EoHoldsIs DEF EoHolds, EngineRing
<1>3. PICK n \in Int, a \in Nat, c \in Nat :
         /\ n = eosem.n /\ a = Available(eosem) /\ c = Cardinality(eoready) /\ u = L - a - c
         /\ n <= a /\ (n >= 0 => n = a)
  BY <1>2, EoHoldsIs
<1>4. PICK room \in Nat : room = L - n
  <2>1. a <= L /\ n <= L
    <3>1. a + c + u = L /\ a \in Int /\ c >= 0 /\ u >= 0 /\ L \in Int /\ n \in Int /\ n <= a
      BY <1>3
    <3> QED  BY <3>1
  <2>2. L - n \in Nat
    BY <1>3, <2>1
  <2> QED  BY <2>2
<1>5. PICK v \in Nat : v = w - u
  BY <1>2
<1>6. \A j \in Nat : /\ (eohead + j) % L = (v + j) % L /\ (v + j) % L \in 0 .. L - 1
                     /\ (v + j) % L \in O <=> eodesc[(v + j) % L].own
  <2> TAKE j \in Nat
  <2>1. v \in Int /\ j \in Int /\ v + j \in Int
    OBVIOUS
  <2>2. ((v % L) + j) % L = (v + j) % L
    BY <2>1, ModPlus
  <2>3. (v + j) % L \in 0 .. L - 1
    BY <2>1, ModDef
  <2>4. DOMAIN eodesc = 0 .. L - 1
    BY <1>2
  <2>5. (v + j) % L \in O <=> eodesc[(v + j) % L].own
    BY <1>2, <2>3, <2>4 DEF OwnOf
  <2> QED  BY <1>2, <1>5, <2>2, <2>3, <2>5
<1>7. PICK k \in Nat : /\ k = EoDone /\ k <= room
                       /\ \A j \in 0 .. k - 1 : (v + j) % L \notin O
                       /\ k = room \/ (v + k) % L \in O
  <2> DEFINE back(k) == \A j \in 0 .. k - 1 : ~eodesc[(eohead + j) % TxRing].own
             Is(k) == back(k) /\ (k = room \/ ~back(k + 1))
  <2>1. \A k \in Nat : back(k) <=> \A j \in 0 .. k - 1 : (v + j) % L \notin O
    <3> TAKE k \in Nat
    <3>1. \A j \in 0 .. k - 1 : j \in Nat
      OBVIOUS
    <3> QED  BY <1>2, <1>6, <3>1
  <2>2. \E k \in 0 .. room : Is(k)
    <3> DEFINE B == {j \in Nat : (v + j) % L \notin O}
    <3>1. PICK k \in 0 .. room : (\A j \in 0 .. k - 1 : j \in B) /\ (k = room \/ k \notin B)
      <4> HIDE DEF B
      <4> QED  BY Furthest
    <3>2. k \in Nat /\ k + 1 \in Nat /\ k \in 0 .. (k + 1) - 1 /\ \A j \in 0 .. k - 1 : j \in Nat
      OBVIOUS
    <3>3. back(k) /\ (k = room \/ ~back(k + 1))
      <4> HIDE DEF back
      <4> QED  BY <2>1, <3>1, <3>2
    <3> QED  BY <3>3
  <2>3. EoDone = CHOOSE k \in 0 .. room : Is(k)
    BY <1>2, <1>3, <1>4 DEF EoDone
  <2>4. EoDone \in 0 .. room /\ Is(EoDone)
    <3> HIDE DEF Is
    <3> QED  BY <2>2, <2>3
  <2>5. PICK k \in 0 .. room : k = EoDone /\ back(k) /\ (k = room \/ ~back(k + 1))
    BY <2>4
  <2> HIDE DEF back, Is
  <2>6. k \in Nat /\ k + 1 \in Nat /\ k <= room
    OBVIOUS
  <2>7. \A j \in 0 .. k - 1 : (v + j) % L \notin O
    BY <2>1, <2>5, <2>6
  <2>8. k = room \/ (v + k) % L \in O
    <3> SUFFICES ASSUME k # room  PROVE (v + k) % L \in O
      OBVIOUS
    <3>1. PICK j \in 0 .. (k + 1) - 1 : (v + j) % L \in O
      BY <2>1, <2>5, <2>6
    <3>2. j = k \/ j \in 0 .. k - 1
      BY <2>6
    <3> QED  BY <2>7, <3>1, <3>2
  <2> QED  BY <2>5, <2>6, <2>7, <2>8
<1>8. PICK next \in 0 .. L - 1 : next = (v + k) % L /\ next = (eohead + k) % L /\ (next \in O <=> eodesc[next].own)
  BY <1>6
<1>9. /\ eohead' = next /\ eosem' = UpN(eosem, k) /\ eoirq' = FALSE
      /\ eoready' = eoready \cup (Waiters(eosem) \ Waiters(UpN(eosem, k)))
      /\ k <= u
      /\ eocheck' = (IF eosem'.n < L THEN next ELSE L) /\ eowriter = NoProc
      /\ UNCHANGED <<eodesc, eotail, eohdp, eolink, eowriter, eowritten, eosent>>
  <2>1. /\ eohead' = (eohead + EoDone) % TxRing /\ eosem' = UpN(eosem, EoDone) /\ eoirq' = FALSE
        /\ eoready' = eoready \cup (Waiters(eosem) \ Waiters(eosem'))
        /\ eocheck' = (IF eosem'.n < TxRing THEN (eohead + EoDone) % TxRing ELSE TxRing)
        /\ eowriter = NoProc
        /\ UNCHANGED <<eodesc, eotail, eohdp, eolink, eowriter, eowritten, eosent>>
    BY DEF EoHandler, EoFree, None
  <2>2. ~(EoDone > TxRing - Available(eosem) - Cardinality(eoready))
    BY DEF EoHandler
  <2>3. k <= u
    BY <1>2, <1>3, <1>7, <2>2
  <2>4. (eohead + EoDone) % TxRing = next
    BY <1>2, <1>7, <1>8
  <2>5. eocheck' = (IF eosem'.n < L THEN next ELSE L)
    BY <1>2, <2>1, <2>4
  <2> QED  BY <1>7, <2>1, <2>3, <2>4, <2>5
<1>10. /\ EoTypes' /\ EoInUse' = u - k /\ eosem'.n = n + k
  <2>1. SemaSound(eosem) /\ eoready \subseteq Procs /\ eoready \cap Waiters(eosem) = {}
    BY DEF EoHolds, EoTypes
  <2>2. /\ SemaSound(eosem') /\ eoready' \subseteq Procs /\ eoready' \cap Waiters(eosem') = {}
        /\ Available(eosem') + Cardinality(eoready') = Available(eosem) + Cardinality(eoready) + k
        /\ Available(eosem') \in Nat /\ Cardinality(eoready') \in Nat /\ eosem'.n = eosem.n + k
    <3>1. Signalled(eosem, eoready, k, eosem', eoready')
      BY <1>9, <2>1 DEF Signalled
    <3>2. GivesMore(eosem, eoready, k, eosem', eoready')
      BY <3>1, SignalsGive
    <3> QED  BY <3>2 DEF GivesMore
  <2>3. EoInUse' = L - Available(eosem') - Cardinality(eoready')
    BY <1>2 DEF EoInUse
  <2>4. PICK b \in Nat, d \in Nat : b = Available(eosem') /\ d = Cardinality(eoready') /\ b + d = a + c + k
    BY <1>3, <2>2
  <2>5. EoInUse' = u - k
    BY <1>3, <2>3, <2>4
  <2>6. eowriter' \in eoready' \cup {NoProc} /\ eocheck' \in {eohead', None'}
    BY <1>2, <1>9 DEF None
  <2> QED  BY <1>3, <2>2, <2>5, <2>6 DEF EoTypes
<1>11. EngineOwns(L, O, NextOf(eodesc), EoLab, w, u - k)
       /\ (u = k => O = {})
  <2>1. w - u = v
    BY <1>5
  <2>2. \A j \in 0 .. k - 1 : (w - u + j) % L \notin O
    BY <1>7, <2>1
  <2>4. PICK nx, lab, hdp, link : nx = NextOf(eodesc) /\ lab = EoLab /\ hdp = eohdp /\ link = eolink
    OBVIOUS
  <2>5. /\ EngineOwns(L, O, nx, lab, w, u) /\ EngineAt(L, O, nx, hdp, link) /\ k <= u
    BY <1>2, <1>9, <2>4
  <2>6. /\ EngineOwns(L, O, nx, lab, w, u - k)
        /\ (u = k => O = {})
    BY <2>2, <2>5, EngineTakenBack
  <2> QED  BY <2>4, <2>6
<1>12. k = room => O = {}
  <2> SUFFICES ASSUME k = room  PROVE u = k
    BY <1>11
  <2> QED  BY <1>3, <1>4, <1>9
<1>13. k # room => next \in O /\ eosem'.n < L
  BY <1>4, <1>7, <1>8, <1>10
<1>14. EngineAt(L, O, NextOf(eodesc), eohdp', eolink)
  BY <1>2, <1>9
<1>15. O # {} => eocheck' # L
  <2> SUFFICES ASSUME O # {}  PROVE eocheck' # L
    OBVIOUS
  <2>1. next \in O /\ eosem'.n < L /\ next # L
    BY <1>12, <1>13
  <2> QED  BY <1>8, <1>9, <2>1
<1>16. /\ u - k \in Nat /\ u - k <= w /\ eohead' = (w - (u - k)) % L
  <2>1. w - (u - k) = v + k
    BY <1>5
  <2> QED  BY <1>2, <1>8, <1>9, <2>1
<1>17. EoLab' = EoLab
  BY <1>9 DEF EoLab
<1>18. EngineRing(L, eodesc, EoLab, w, u - k, eohdp', eolink)
  BY <1>2, <1>11, <1>14, <1>16 DEF EngineRing
<1>19. EngineRing(TxRing, eodesc, EoLab, eowritten, EoInUse, eohdp, eolink)'
  BY <1>2, <1>9, <1>10, <1>17, <1>18
<1>20. (EoInUse <= eowritten /\ eotail = eowritten % TxRing /\ eohead = (eowritten - EoInUse) % TxRing)'
  BY <1>2, <1>9, <1>10, <1>16
<1>21. SentOnce(eosent, eowritten, OwnOf(eodesc), EoLab)'
  BY <1>2, <1>9, <1>17
<1>22. (OwnOf(eodesc) # {} => eohdp # None \/ eoirq \/ eocheck # None)'
  BY <1>2, <1>9, <1>15 DEF None
<1> QED  BY <1>10, <1>19, <1>20, <1>21, <1>22 DEF EoHolds

\* An idle engine is restarted with the first descriptor in use, if that is still the
\* engine's (ethhandler.c).
LEMMA EoRestartKeeps ==
  ASSUME EoHolds, EoRestart, eoagain' = {}
  PROVE  EoHolds'
<1>1. /\ eocheck # None /\ eocheck' = None
      /\ UNCHANGED <<eodesc, eohead, eotail, eosem, eolink, eoirq, eoready, eowriter, eowritten, eosent>>
      /\ IF eohdp = None THEN eohdp' = eocheck /\ eoagain' = eoagain \cup Done(eodesc, eocheck)
         ELSE eohdp' = eohdp
  BY DEF EoRestart
<1>2. PICK L \in Nat \ {0}, w \in Nat, u \in Nat :
         /\ L = TxRing /\ w = eowritten /\ u = EoInUse
         /\ eodesc \in [0 .. L - 1 -> EtherDesc(L)]
         /\ EngineOwns(L, OwnOf(eodesc), NextOf(eodesc), EoLab, w, u)
         /\ EngineAt(L, OwnOf(eodesc), NextOf(eodesc), eohdp, eolink)
         /\ eohead = (w - u) % L /\ eocheck = eohead /\ eohead \in 0 .. L - 1
  <2>1. TxRing \in Nat \ {0} /\ eowritten \in Nat /\ EoInUse \in Nat
    BY EoHoldsIs
  <2>2. EngineRing(TxRing, eodesc, EoLab, eowritten, EoInUse, eohdp, eolink)
        /\ eohead = (eowritten - EoInUse) % TxRing /\ eocheck = eohead
    BY <1>1 DEF EoHolds, EoTypes
  <2>3. eohead \in 0 .. TxRing - 1
    <3>1. eowritten - EoInUse \in Int
      BY <2>1
    <3> QED  BY <2>1, <2>2, <3>1, ModDef
  <2> QED  BY <2>1, <2>2, <2>3 DEF EngineRing
<1>3. CASE eohdp # None
  <2>1. eohdp' = eohdp
    BY <1>1, <1>3
  <2>2. EoLab' = EoLab /\ EoInUse' = EoInUse
    BY <1>1 DEF EoLab, EoInUse
  <2>3. EoTypes'
    BY <1>1 DEF EoHolds, EoTypes, None
  <2> QED  BY <1>1, <1>3, <2>1, <2>2, <2>3 DEF EoHolds, None
<1>4. CASE eohdp = None
  <2>1. eohdp' = eocheck /\ Done(eodesc, eocheck) = {}
    BY <1>1, <1>4
  <2>2. eocheck \in OwnOf(eodesc)
    <3>1. DOMAIN eodesc = 0 .. L - 1
      BY <1>2
    <3>2. eocheck \in Linked(eodesc, eocheck)
      BY <1>2, <3>1 DEF Linked
    <3> DEFINE back == {j \in Linked(eodesc, eocheck) : ~eodesc[j].own}
    <3>3. {eodesc[i].packet : i \in back} = {}
      BY <2>1 DEF Done
    <3>4. eocheck \notin back
      <4> HIDE DEF back
      <4> QED  BY <3>3
    <3>5. eodesc[eocheck].own
      BY <3>2, <3>4
    <3> QED  BY <1>2, <3>1, <3>5 DEF OwnOf
  <2>3. EngineAt(L, OwnOf(eodesc), NextOf(eodesc), eocheck, eolink)
    <3>1. PICK O, nx, lab, link : O = OwnOf(eodesc) /\ nx = NextOf(eodesc) /\ lab = EoLab /\ link = eolink
      OBVIOUS
    <3>2. EngineOwns(L, O, nx, lab, w, u) /\ EngineAt(L, O, nx, L, link)
      BY <1>2, <1>4, <3>1 DEF None
    <3>3. 0 \in Nat /\ 0 <= u /\ (\A j \in 0 .. 0 - 1 : (w - u + j) % L \notin O) /\ w - u + 0 = w - u
      OBVIOUS
    <3>4. (w - u + 0) % L \in O => EngineAt(L, O, nx, (w - u + 0) % L, link)
      BY <3>2, <3>3, EngineTakenBack
    <3> QED  BY <1>2, <2>2, <3>1, <3>3, <3>4
  <2>4. EngineRing(TxRing, eodesc, EoLab, eowritten, EoInUse, eocheck, eolink)
    BY <1>2, <2>3 DEF EngineRing
  <2>5. EoLab' = EoLab /\ EoInUse' = EoInUse
    BY <1>1 DEF EoLab, EoInUse
  <2>6. EoTypes'
    BY <1>1 DEF EoHolds, EoTypes, None
  <2>7. eohdp' # None
    BY <1>1, <2>1
  <2> QED  BY <1>1, <2>1, <2>4, <2>5, <2>6, <2>7 DEF EoHolds, None
<1> QED  BY <1>3, <1>4

LEMMA EoStepKeeps == EoInv /\ [EoStep]_eovars => EoInv'
<1> SUFFICES ASSUME EoInv, [EoStep]_eovars, ~eoended', eoagain' = {}  PROVE EoHolds'
  BY DEF EoInv
<1>1. CASE EoStep
  <2>1. EoHolds
    <3>1. ~eoended
      BY <1>1 DEF EoStep
    <3>2. eoagain = {}
      BY <1>1 DEF EoStep, EoWrite, EoResume, EoLink, EoHandler, EoRestart, EoFetch, EoSend
    <3> QED  BY <3>1, <3>2 DEF EoInv
  <2>2. CASE \E p \in Procs : EoWrite(p)
    BY <2>1, <2>2, EoWriteKeeps
  <2>3. CASE \E p \in Procs : EoResume(p)
    BY <2>1, <2>3, EoResumeKeeps
  <2>4. CASE EoHandler
    BY <2>1, <2>4, EoHandlerKeeps
  <2>5. CASE EoFetch
    BY <2>1, <2>5, EoFetchKeeps
  <2>6. CASE EoSend
    BY <2>1, <2>6, EoSendKeeps
  <2>7. CASE EoLink
    BY <2>1, <2>7, EoLinkKeeps
  <2>8. CASE EoRestart
    BY <2>1, <2>8, EoRestartKeeps
  <2> QED  BY <1>1, <2>2, <2>3, <2>4, <2>5, <2>6, <2>7, <2>8 DEF EoStep
<1>2. CASE UNCHANGED eovars
  <2>1. EoHolds
    BY <1>2 DEF EoInv, eovars
  <2>2. UNCHANGED <<eodesc, eohead, eotail, eosem, eohdp, eolink, eoirq, eoready, eowriter, eocheck, eowritten, eosent>>
    BY <1>2 DEF eovars
  <2>3. EoLab' = EoLab /\ EoInUse' = EoInUse /\ (EoTypes => EoTypes')
    BY <2>2 DEF EoLab, EoInUse, EoTypes, None
  <2> QED  BY <2>1, <2>2, <2>3 DEF EoHolds, None
<1> QED  BY <1>1, <1>2

\* Every packet is sent once or waits in a descriptor (ethwrite.c, ethhandler.c).
LEMMA EoSentOnce == EoInv => (eoagain = {} => EoNoneStranded)
<1> SUFFICES ASSUME EoHolds, ~eoended, eoagain = {}
             PROVE  LET waiting == {i \in EoCells : eodesc[i].own}
                        times(packet) == Cardinality({k \in DOMAIN eosent : eosent[k] = packet})
                    IN /\ 1 .. eowritten = {eosent[k] : k \in DOMAIN eosent} \cup {eodesc[i].packet : i \in waiting}
                       /\ \A packet \in 1 .. eowritten : times(packet) <= (IF packet \in eoagain THEN 2 ELSE 1)
                       /\ waiting # {} => eohdp # None \/ eoirq \/ eocheck # None
  BY DEF EoInv, EoNoneStranded
<1> DEFINE waiting == {i \in EoCells : eodesc[i].own}
           sent == {eosent[i] : i \in DOMAIN eosent}
           there == {eodesc[i].packet : i \in waiting}
<1>1. /\ TxRing \in Nat \ {0} /\ eodesc \in [0 .. TxRing - 1 -> EtherDesc(TxRing)]
      /\ eowritten \in Nat /\ EoInUse \in Nat /\ EoInUse <= eowritten
      /\ \A i \in OwnOf(eodesc) : EoLab[i] \in eowritten - EoInUse + 1 .. eowritten
  BY EoHoldsIs DEF EoHolds, EngineRing, EngineOwns
<1>2. waiting = OwnOf(eodesc) /\ \A i \in waiting : EoLab[i] = eodesc[i].packet
  <2>1. DOMAIN eodesc = 0 .. TxRing - 1
    BY <1>1
  <2>2. \A i \in 0 .. TxRing - 1 : EoLab[i] = eodesc[i].packet
    BY DEF EoLab
  <2> QED  BY <2>1, <2>2 DEF OwnOf, EoCells
<1>3. waiting # {} => eohdp # None \/ eoirq \/ eocheck # None
  BY <1>2 DEF EoHolds
<1>4. SentOnce(eosent, eowritten, waiting, EoLab)
  BY <1>2 DEF EoHolds
<1> HIDE DEF waiting
<1>5. /\ eosent \in Seq(Nat) /\ \A j, k \in 1 .. Len(eosent) : eosent[j] = eosent[k] => j = k
      /\ \A k \in 1 .. Len(eosent) : eosent[k] \in 1 .. eowritten
      /\ \A p \in 1 .. eowritten : (\E k \in 1 .. Len(eosent) : eosent[k] = p) \/ (\E i \in waiting : EoLab[i] = p)
  BY <1>4 DEF SentOnce
<1>6. PICK n \in Nat : n = Len(eosent) /\ DOMAIN eosent = 1 .. n
  BY <1>5
<1>7. ASSUME NEW packet \in 1 .. eowritten
      PROVE  Cardinality({k \in DOMAIN eosent : eosent[k] = packet}) <= 1
  <2> DEFINE K == {k \in DOMAIN eosent : eosent[k] = packet}
  <2>1. \A j, k \in K : j = k
    BY <1>5, <1>6
  <2> SUFFICES Cardinality(K) <= 1
    OBVIOUS
  <2> HIDE DEF K
  <2>2. CASE K = {}
    BY <2>2, FS_EmptySet
  <2>3. CASE K # {}
    <3>1. PICK k : k \in K
      BY <2>3
    <3>2. K = {k}
      BY <2>1, <3>1
    <3>3. Cardinality({k}) = 1
      BY FS_Singleton
    <3> QED  BY <3>2, <3>3
  <2> QED  BY <2>2, <2>3
<1>8. sent \cup there = 1 .. eowritten
  <2>1. \A x \in sent : x \in 1 .. eowritten
    BY <1>5, <1>6
  <2>2. \A x \in there : x \in 1 .. eowritten
    <3> TAKE x \in there
    <3>1. PICK i \in waiting : x = EoLab[i]
      BY <1>2
    <3>2. x \in eowritten - EoInUse + 1 .. eowritten
      BY <1>1, <1>2, <3>1
    <3> QED  BY <1>1, <3>2
  <2>3. \A p \in 1 .. eowritten : p \in sent \/ p \in there
    <3> TAKE p \in 1 .. eowritten
    <3>1. CASE \E k \in 1 .. Len(eosent) : eosent[k] = p
      BY <1>6, <3>1
    <3>2. CASE \E i \in waiting : EoLab[i] = p
      BY <1>2, <3>2
    <3> QED  BY <1>5, <3>1, <3>2
  <2> HIDE DEF sent, there
  <2> QED  BY <2>1, <2>2, <2>3
<1> QED  BY <1>3, <1>7, <1>8 DEF waiting

-----------------------------------------------------------------------------

\* Of the packets handed to either Ethernet driver each is sent once or waits in a
\* descriptor the engine has or will get, and each that the Galileo board takes in reaches
\* its reader, whatever the engine, the handler and the callers do meanwhile. In the ARM
\* driver the late restart of the engine (ethhandler.c:36-41) is the only way to a packet
\* that is sent again (ethwrite.c, ethread.c, ethhandler.c of device/eth and
\* device/x86-galileo/eth).
THEOREM PacketsAreKept ==
  EoSpec /\ QeSpec => []((eoagain = {} => EoNoneStranded) /\ QeAllSent /\ QeAllTold)
<1>1. EoInit /\ QeInit => EoInv /\ QeTxInv /\ QeRxInv
  BY EoInitially, QeTxInitially, QeRxInitially
<1>2. /\ EoInv /\ [EoStep]_eovars => EoInv'
      /\ QeTxInv /\ [QeStep]_qevars => QeTxInv'
      /\ QeRxInv /\ [QeStep]_qevars => QeRxInv'
  BY EoStepKeeps, QeTxStep, QeRxStep
<1>3. EoInv /\ QeTxInv /\ QeRxInv => (eoagain = {} => EoNoneStranded) /\ QeAllSent /\ QeAllTold
  BY EoSentOnce, QeSent, QeTaken
<1> QED  BY <1>1, <1>2, <1>3, PTL DEF EoSpec, QeSpec
=============================================================================
