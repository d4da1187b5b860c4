---- MODULE NetSide_proofs ----
(***************************************************************************)
(* Proofs about what the device does on the network: the transfers over    *)
(* HTTP, for any number of connections; the reader of a request, for       *)
(* buffers, headers and bodies of any size; the link supervisor, for all   *)
(* values of its timers; the attempts to join at boot; and adv/load, for   *)
(* chunks and loads of any size.                                           *)
(***************************************************************************)
EXTENDS HttpTransfers, RequestReader, LinkSupervisor, WifiConnect, AdvLoad, TLAPS

----------------------------------------------------------------------------
(* The transfers.                                                          *)

\* A FatFs object that knows what it has open, and a connection that opens
\* nothing before its request and holds the body lock for its upload.
GoodObjects == {o \in Objects : o.kind # "none" => o.at \in Places}

Records == [state : States, obj : GoodObjects, lock : BOOLEAN, gone : BOOLEAN]

GoodRecords ==
    {r \in Records :
        /\ r.state \in {"free", "headers"} => r.obj = NoObject /\ ~r.lock
        /\ r.state = "upload" => r.lock}

Locks == [owner : Conns \cup {"st", "nobody"}, at : Places, write : BOOLEAN]

WellFormed ==
    /\ inserted \in BOOLEAN /\ volume \in BOOLEAN /\ live \in BOOLEAN
    /\ sdMounted \in BOOLEAN
    /\ content \in Contents
    /\ locks \subseteq Locks
    /\ conn \in [Conns -> GoodRecords]
    /\ g_body_stream_busy \in BOOLEAN
    /\ stFile \in GoodObjects

LEMMA WellFormedTypes == WellFormed => TransfersTypeOK
BY DEF WellFormed, TransfersTypeOK, GoodRecords, Records, GoodObjects, Locks

----------------------------------------------------------------------------
(* What the operators return.                                              *)

LEMMA FreeIsGood ==
    /\ NoObject \in GoodObjects /\ Free \in GoodRecords
    /\ Free.obj = NoObject /\ ~Free.lock
<1>1. NoObject \in GoodObjects
  BY DEF NoObject, GoodObjects, Objects
<1>2. Free \in Records
  BY <1>1 DEF Free, Records, States
<1>3. /\ Free.state = "free" /\ Free.obj = NoObject /\ ~Free.lock
  BY DEF Free
<1>4. Free \in GoodRecords
  BY <1>2, <1>3 DEF GoodRecords
<1>5. QED BY <1>1, <1>3, <1>4

\* A new state for a connection whose request has come keeps it good; so does
\* the loss of its client.
LEMMA NewState ==
    ASSUME NEW r \in GoodRecords
    PROVE  /\ \A s \in States \ {"free", "headers", "upload"} :
                 /\ [r EXCEPT !.state = s] \in GoodRecords
                 /\ [r EXCEPT !.state = s].obj = r.obj
                 /\ [r EXCEPT !.state = s].lock = r.lock
           /\ r.state = "free" =>
                 /\ [r EXCEPT !.state = "headers"] \in GoodRecords
                 /\ [r EXCEPT !.state = "headers"].obj = r.obj
                 /\ [r EXCEPT !.state = "headers"].lock = r.lock
           /\ [r EXCEPT !.gone = TRUE] \in GoodRecords
           /\ [r EXCEPT !.gone = TRUE].obj = r.obj
           /\ [r EXCEPT !.gone = TRUE].lock = r.lock
BY DEF GoodRecords, Records, States

LEMMA AnsweredIsGood ==
    /\ [Free EXCEPT !.state = "response"] \in GoodRecords
    /\ [Free EXCEPT !.state = "response"].obj = NoObject
    /\ ~[Free EXCEPT !.state = "response"].lock
BY FreeIsGood, NewState DEF States

\* A transfer that starts takes what it opens, and perhaps the body lock.
LEMMA Started ==
    ASSUME NEW r \in GoodRecords, NEW o \in GoodObjects
    PROVE  /\ [r EXCEPT !.state = "listing", !.obj = o] \in GoodRecords
           /\ [r EXCEPT !.state = "listing", !.obj = o].obj = o
           /\ [r EXCEPT !.state = "listing", !.obj = o].lock = r.lock
           /\ \A s \in {"download", "upload"} :
                 /\ [r EXCEPT !.state = s, !.obj = o, !.lock = TRUE] \in GoodRecords
                 /\ [r EXCEPT !.state = s, !.obj = o, !.lock = TRUE].obj = o
                 /\ [r EXCEPT !.state = s, !.obj = o, !.lock = TRUE].lock
BY DEF GoodRecords, Records, States

\* An object that goes stale or moves stays good, and so does its connection.
LEMMA NewObject ==
    ASSUME NEW r \in GoodRecords, NEW o \in GoodObjects,
           r.obj = NoObject => o = NoObject
    PROVE  /\ [r EXCEPT !.obj = o] \in GoodRecords
           /\ [r EXCEPT !.obj = o].obj = o
           /\ [r EXCEPT !.obj = o].lock = r.lock
BY DEF GoodRecords, Records, States

LEMMA StaleIsGood ==
    ASSUME NEW o \in GoodObjects
    PROVE  /\ Stale(o) \in GoodObjects /\ ~Valid(Stale(o))
           /\ o = NoObject => Stale(o) = NoObject
<1>1. CASE o.kind = "none"
  BY <1>1 DEF Stale, Valid
<1>2. CASE o.kind # "none"
  <2>1. Stale(o) = [o EXCEPT !.stale = TRUE]
    BY <1>2 DEF Stale
  <2>2. [o EXCEPT !.stale = TRUE] \in GoodObjects /\ [o EXCEPT !.stale = TRUE].stale = TRUE
    BY DEF GoodObjects, Objects
  <2>3. o # NoObject
    BY <1>2 DEF NoObject
  <2>4. QED BY <2>1, <2>2, <2>3 DEF Valid
<1>3. QED BY <1>1, <1>2

LEMMA LockForType ==
    ASSUME NEW o \in GoodObjects, o.kind # "none", NEW who \in Conns \cup {"st"}
    PROVE  LockFor(who, o) \in Locks
BY DEF LockFor, Locks, GoodObjects, Objects

LEMMA OpenedObjects ==
    /\ \A k \in {"read", "write"} :
          /\ [kind |-> k, at |-> "f", stale |-> FALSE] \in GoodObjects
          /\ Valid([kind |-> k, at |-> "f", stale |-> FALSE])
    /\ [kind |-> "dir", at |-> "folder", stale |-> FALSE] \in GoodObjects
    /\ Valid([kind |-> "dir", at |-> "folder", stale |-> FALSE])
BY DEF GoodObjects, Objects, Places, Valid

----------------------------------------------------------------------------
(* The lock table against the objects that are open.                       *)

Who == Conns \cup {"st"}

ObjectOf == [w \in Who |-> IF w = "st" THEN stFile ELSE conn[w].obj]

\* LocksOwned of any table L and any objects f
Owned(L, f) ==
    /\ \A l \in L : l.owner # "nobody" =>
          /\ l.owner \in Who
          /\ Valid(f[l.owner]) /\ l = LockFor(l.owner, f[l.owner])
    /\ \A w \in Who : Valid(f[w]) => LockFor(w, f[w]) \in L

LEMMA OwnedIsLocksOwned ==
    ASSUME WellFormed
    PROVE  Owned(locks, ObjectOf) <=> LocksOwned
<1>1. "st" \notin Conns /\ "nobody" \notin Conns
  BY TransfersAssumption
<1>2. ObjectOf["st"] = stFile /\ \A c \in Conns : ObjectOf[c] = conn[c].obj
  BY <1>1 DEF ObjectOf, Who
<1>3. \A l \in locks : l.owner # "nobody" => l.owner \in Who
  BY DEF WellFormed, Locks, Who
<1>4. QED BY <1>1, <1>2, <1>3 DEF Owned, LocksOwned, Who

LEMMA OwnedAfterOpen ==
    ASSUME NEW L, NEW f, DOMAIN f = Who, Owned(L, f), NEW w \in Who, ~Valid(f[w]),
           NEW o, Valid(o)
    PROVE  Owned(L \cup {LockFor(w, o)}, [f EXCEPT ![w] = o])
<1>1. LockFor(w, o).owner = w
  BY DEF LockFor
<1>2. \A l \in L : l.owner # "nobody" => l.owner # w
  BY DEF Owned
<1>3. QED BY <1>1, <1>2 DEF Owned

LEMMA OwnedAfterClose ==
    ASSUME NEW L, NEW f, DOMAIN f = Who, Owned(L, f), NEW w \in Who, NEW K,
           \A l \in K : l.owner # "nobody" => l \in L,
           NEW g, DOMAIN g = Who, ~Valid(g[w]), \A v \in Who \ {w} : g[v] = f[v],
           Valid(f[w]) => LockFor(w, f[w]) \notin K,
           \A l \in L : l.owner # w => l \in K
    PROVE  Owned(K, g)
<1>1. \A v : LockFor(v, f[v]).owner = v
  BY DEF LockFor
<1>2. ASSUME NEW l \in K, l.owner # "nobody"
      PROVE  l.owner \in Who /\ Valid(g[l.owner]) /\ l = LockFor(l.owner, g[l.owner])
  <2>1. l \in L /\ l.owner \in Who /\ Valid(f[l.owner]) /\ l = LockFor(l.owner, f[l.owner])
    BY <1>2 DEF Owned
  <2>2. l.owner # w
    BY <1>2, <2>1
  <2>3. QED BY <2>1, <2>2
<1>3. ASSUME NEW v \in Who, Valid(g[v])
      PROVE  LockFor(v, g[v]) \in K
  <2>1. v # w /\ g[v] = f[v]
    BY <1>3
  <2>2. LockFor(v, f[v]) \in L
    BY <1>3, <2>1 DEF Owned
  <2>3. QED BY <1>1, <2>1, <2>2
<1>4. QED BY <1>2, <1>3 DEF Owned

----------------------------------------------------------------------------
(* The inductive invariant, and the three shapes a step can have.          *)

Sound == WellFormed /\ BodyLockHeld /\ LocksOwned

CardTypes ==
    /\ inserted \in BOOLEAN /\ volume \in BOOLEAN /\ live \in BOOLEAN
    /\ sdMounted \in BOOLEAN
    /\ content \in Contents

\* Nothing that is shared changes hands.
LEMMA SameOwners ==
    ASSUME Sound, CardTypes', conn' \in [Conns -> GoodRecords],
           \A c \in Conns : conn'[c].obj = conn[c].obj /\ conn'[c].lock = conn[c].lock,
           locks' = locks, stFile' = stFile, g_body_stream_busy' = g_body_stream_busy
    PROVE  Sound'
<1>1. WellFormed'
  BY DEF Sound, WellFormed, CardTypes
<1>2. BodyLockHeld'
  BY DEF Sound, BodyLockHeld
<1>3. LocksOwned'
  BY TransfersAssumption DEF Sound, WellFormed, LocksOwned, Locks
<1>4. QED BY <1>1, <1>2, <1>3 DEF Sound

\* What the steps that touch one connection have in common.
Touches(c, r) == conn' = [conn EXCEPT ![c] = r] /\ stFile' = stFile

\* A connection opens an object, and takes the body lock if it was free.
LEMMA Opens ==
    ASSUME Sound, CardTypes', NEW c \in Conns, NEW o \in GoodObjects, Valid(o),
           conn[c].obj = NoObject, ~conn[c].lock, Opened(c, o),
           NEW r \in GoodRecords, r.obj = o, Touches(c, r),
           g_body_stream_busy' = (g_body_stream_busy \/ r.lock),
           r.lock => ~g_body_stream_busy
    PROVE  Sound'
<1>1. LockFor(c, o) \in Locks
  BY LockForType DEF Valid
<1>2. conn' \in [Conns -> GoodRecords] /\ locks' \subseteq Locks /\ stFile' \in GoodObjects
  BY <1>1 DEF Sound, WellFormed, Touches, Opened
<1>3. WellFormed'
  <2>1. g_body_stream_busy' \in BOOLEAN
    BY DEF GoodRecords, Records, Sound, WellFormed
  <2>2. QED BY <1>2, <2>1 DEF CardTypes, WellFormed
<1>4. conn'[c].lock = r.lock /\ \A d \in Conns \ {c} : conn'[d] = conn[d]
  BY DEF Touches, Sound, WellFormed
<1>5. BodyLockHeld'
  BY <1>4 DEF Sound, BodyLockHeld
<1>6. Owned(locks, ObjectOf) /\ DOMAIN ObjectOf = Who
  BY OwnedIsLocksOwned DEF Sound, ObjectOf
<1>7. c \in Who /\ c # "st" /\ ~Valid(ObjectOf[c])
  BY TransfersAssumption DEF ObjectOf, Who, Valid, NoObject
<1>8. ObjectOf' = [ObjectOf EXCEPT ![c] = o]
  BY <1>4, <1>7 DEF ObjectOf, Touches, Sound, WellFormed, Who
<1>9. Owned(locks', ObjectOf')
  BY <1>6, <1>7, <1>8, OwnedAfterOpen DEF Opened
<1>10. LocksOwned'
  <2>1. (Owned(locks, ObjectOf) <=> LocksOwned)'
    BY <1>3, OwnedIsLocksOwned, PTL
  <2>2. QED BY <1>9, <2>1 DEF Owned
<1>11. QED BY <1>3, <1>5, <1>10 DEF Sound

\* What closing an object can do to the table; who is a connection or the ST.
Closed(who, o) ==
    ClosedOk(who, o) \/ CloseFailed(who, o) \/ (~Valid(o) /\ locks' = locks)

LEMMA CloseTable ==
    ASSUME Sound, NEW w \in Who, Closed(w, ObjectOf[w])
    PROVE  /\ locks' \subseteq Locks
           /\ \A l \in locks' : l.owner # "nobody" => l \in locks
           /\ Valid(ObjectOf[w]) => LockFor(w, ObjectOf[w]) \notin locks'
           /\ \A l \in locks : l.owner # w => l \in locks'
<1> DEFINE o == ObjectOf[w]
<1>0. o \in GoodObjects
  BY DEF ObjectOf, Who, Sound, WellFormed, GoodRecords, Records
<1>1. /\ LockFor(w, o).owner = w /\ locks \subseteq Locks /\ w # "nobody"
  BY TransfersAssumption DEF LockFor, Sound, WellFormed, Who
<1> HIDE DEF o
<1>2. CASE ClosedOk(w, o)
  BY <1>1, <1>2 DEF ClosedOk, o
<1>3. CASE CloseFailed(w, o)
  <2> DEFINE n == [owner |-> "nobody", at |-> o.at, write |-> TRUE]
  <2>1. n \in Locks /\ n.owner = "nobody"
    BY <1>0, <1>3 DEF Locks, GoodObjects, CloseFailed, Valid
  <2>2. locks' = (locks \ {LockFor(w, o)}) \cup {n}
    BY <1>3 DEF CloseFailed
  <2> HIDE DEF n
  <2>3. QED BY <1>1, <2>1, <2>2 DEF o
<1>4. CASE ~Valid(o) /\ locks' = locks
  BY <1>1, <1>4 DEF o
<1>5. QED BY <1>2, <1>3, <1>4 DEF Closed, o

\* A connection closes what it has open and gives the body lock back.
LEMMA LetsGo ==
    ASSUME Sound, CardTypes', NEW c \in Conns, Closed(c, conn[c].obj),
           NEW r \in GoodRecords, r.obj = NoObject, ~r.lock, Touches(c, r),
           g_body_stream_busy' = (g_body_stream_busy /\ ~conn[c].lock)
    PROVE  Sound'
<1>1. c \in Who /\ ObjectOf[c] = conn[c].obj /\ c # "st" /\ DOMAIN ObjectOf = Who
  BY TransfersAssumption DEF Who, ObjectOf
<1>2. /\ locks' \subseteq Locks
      /\ \A l \in locks' : l.owner # "nobody" => l \in locks
      /\ Valid(ObjectOf[c]) => LockFor(c, ObjectOf[c]) \notin locks'
      /\ \A l \in locks : l.owner # c => l \in locks'
  BY <1>1, CloseTable
<1>3. WellFormed'
  <2>1. g_body_stream_busy' \in BOOLEAN
    OBVIOUS
  <2>2. QED BY <1>2, <2>1 DEF Sound, CardTypes, WellFormed, Touches
<1>4. conn'[c] = r /\ \A d \in Conns \ {c} : conn'[d] = conn[d]
  BY DEF Touches, Sound, WellFormed
<1>5. BodyLockHeld'
  BY <1>4 DEF Sound, BodyLockHeld
<1>6. Owned(locks, ObjectOf)
  BY OwnedIsLocksOwned DEF Sound
<1>7. /\ DOMAIN ObjectOf' = Who /\ ~Valid(ObjectOf'[c])
      /\ \A v \in Who \ {c} : ObjectOf'[v] = ObjectOf[v]
  BY <1>1, <1>4 DEF ObjectOf, Who, Touches, Valid, NoObject
<1>8. Owned(locks', ObjectOf')
  BY <1>1, <1>2, <1>6, <1>7, OwnedAfterClose
<1>9. LocksOwned'
  <2>1. (Owned(locks, ObjectOf) <=> LocksOwned)'
    BY <1>3, OwnedIsLocksOwned, PTL
  <2>2. QED BY <1>8, <2>1 DEF Owned
<1>10. QED BY <1>3, <1>5, <1>9 DEF Sound

----------------------------------------------------------------------------
(* The ST's file, the unmounting of the card, and a folder that moves.     *)

LEMMA StOpens ==
    ASSUME Sound, NEW kind \in {"read", "write"}, StOpen(kind)
    PROVE  Sound'
<1> DEFINE o == [kind |-> kind, at |-> "f", stale |-> FALSE]
<1>1. o \in GoodObjects /\ Valid(o)
  BY OpenedObjects
<1> HIDE DEF o
<1>2. LockFor("st", o) \in Locks
  BY <1>1, LockForType DEF Valid
<1>3. stFile' = o /\ locks' = locks \cup {LockFor("st", o)} /\ conn' = conn
  BY DEF StOpen, Opened, o
<1>4. WellFormed'
  BY <1>1, <1>2, <1>3 DEF StOpen, Contents, Sound, WellFormed
<1>5. BodyLockHeld'
  BY <1>3 DEF StOpen, Sound, BodyLockHeld
<1>6. Owned(locks, ObjectOf) /\ DOMAIN ObjectOf = Who /\ "st" \in Who /\ ~Valid(ObjectOf["st"])
  BY OwnedIsLocksOwned DEF Sound, ObjectOf, Who, StOpen, Valid, NoObject
<1>7. ObjectOf' = [ObjectOf EXCEPT !["st"] = o]
  BY <1>3 DEF ObjectOf
<1>8. Owned(locks', ObjectOf')
  BY <1>1, <1>3, <1>6, <1>7, OwnedAfterOpen
<1>9. LocksOwned'
  <2>1. (Owned(locks, ObjectOf) <=> LocksOwned)'
    BY <1>4, OwnedIsLocksOwned, PTL
  <2>2. QED BY <1>8, <2>1 DEF Owned
<1>10. QED BY <1>4, <1>5, <1>9 DEF Sound

LEMMA StCloses ==
    ASSUME Sound, StClose
    PROVE  Sound'
<1>1. "st" \in Who /\ ObjectOf["st"] = stFile /\ DOMAIN ObjectOf = Who
  BY DEF Who, ObjectOf
<1>2. Closed("st", ObjectOf["st"]) /\ stFile' = NoObject /\ conn' = conn
  BY <1>1 DEF StClose, Closed
<1>3. /\ locks' \subseteq Locks
      /\ \A l \in locks' : l.owner # "nobody" => l \in locks
      /\ Valid(ObjectOf["st"]) => LockFor("st", ObjectOf["st"]) \notin locks'
      /\ \A l \in locks : l.owner # "st" => l \in locks'
  BY <1>1, <1>2, CloseTable
<1>4. WellFormed'
  BY <1>2, <1>3, FreeIsGood DEF StClose, NoteError, Sound, WellFormed
<1>5. BodyLockHeld'
  BY <1>2 DEF StClose, Sound, BodyLockHeld
<1>6. Owned(locks, ObjectOf)
  BY OwnedIsLocksOwned DEF Sound
<1>7. /\ DOMAIN ObjectOf' = Who /\ ~Valid(ObjectOf'["st"])
      /\ \A v \in Who \ {"st"} : ObjectOf'[v] = ObjectOf[v]
  BY <1>1, <1>2 DEF ObjectOf, Who, Valid, NoObject
<1>8. Owned(locks', ObjectOf')
  BY <1>1, <1>3, <1>6, <1>7, OwnedAfterClose
<1>9. LocksOwned'
  <2>1. (Owned(locks, ObjectOf) <=> LocksOwned)'
    BY <1>4, OwnedIsLocksOwned, PTL
  <2>2. QED BY <1>8, <2>1 DEF Owned
<1>10. QED BY <1>4, <1>5, <1>9 DEF Sound

LEMMA Unmounts ==
    ASSUME Sound, PollRemount
    PROVE  Sound'
<1>1. \A c \in Conns : /\ [conn[c] EXCEPT !.obj = Stale(conn[c].obj)] \in GoodRecords
                       /\ [conn[c] EXCEPT !.obj = Stale(conn[c].obj)].obj = Stale(conn[c].obj)
                       /\ [conn[c] EXCEPT !.obj = Stale(conn[c].obj)].lock = conn[c].lock
                       /\ ~Valid(Stale(conn[c].obj))
  <2> SUFFICES ASSUME NEW c \in Conns
               PROVE  /\ [conn[c] EXCEPT !.obj = Stale(conn[c].obj)] \in GoodRecords
                      /\ [conn[c] EXCEPT !.obj = Stale(conn[c].obj)].obj = Stale(conn[c].obj)
                      /\ [conn[c] EXCEPT !.obj = Stale(conn[c].obj)].lock = conn[c].lock
                      /\ ~Valid(Stale(conn[c].obj))
    OBVIOUS
  <2>1. conn[c] \in GoodRecords /\ conn[c].obj \in GoodObjects
    BY DEF Sound, WellFormed, GoodRecords, Records
  <2>2. QED BY <2>1, StaleIsGood, NewObject
<1>2. conn' = [c \in Conns |-> [conn[c] EXCEPT !.obj = Stale(conn[c].obj)]]
  BY DEF PollRemount, Unmount
<1>3. /\ conn' \in [Conns -> GoodRecords]
      /\ \A c \in Conns : conn'[c].lock = conn[c].lock /\ ~Valid(conn'[c].obj)
  BY <1>1, <1>2
<1>4. stFile' \in GoodObjects /\ ~Valid(stFile')
  BY StaleIsGood DEF PollRemount, Unmount, Sound, WellFormed
<1>5. locks' = {}
  BY DEF PollRemount, Unmount
<1>6. WellFormed'
  BY <1>3, <1>4, <1>5 DEF PollRemount, Sound, WellFormed
<1>7. BodyLockHeld'
  BY <1>3 DEF PollRemount, Sound, BodyLockHeld
<1>8. LocksOwned'
  BY <1>3, <1>4, <1>5 DEF LocksOwned
<1>9. QED BY <1>6, <1>7, <1>8 DEF Sound

\* every open object is below the folder, and moves with its lock entry
LEMMA Renames ==
    ASSUME Sound, NEW c \in Conns, RenameFolder(c)
    PROVE  Sound'
<1> DEFINE Moved(o) == IF o.at = "f" /\ ~o.stale THEN [o EXCEPT !.at = "moved"] ELSE o
           Shift(l) == IF l.at = "f" THEN [l EXCEPT !.at = "moved"] ELSE l
           Rec(x) == [conn[x] EXCEPT !.obj = Moved(conn[x].obj),
                                     !.state = IF x = c THEN "response" ELSE conn[x].state]
<1>1. ASSUME NEW o \in GoodObjects
      PROVE  /\ Moved(o) \in GoodObjects /\ (Valid(Moved(o)) <=> Valid(o))
             /\ o = NoObject => Moved(o) = NoObject
             /\ o.at = "f" /\ Valid(o) => /\ Moved(o).at = "moved" /\ Moved(o).kind = o.kind
  <2>1. CASE o.at = "f" /\ ~o.stale
    <3>1. [o EXCEPT !.at = "moved"] \in GoodObjects
      BY DEF GoodObjects, Objects, Places
    <3>2. /\ [o EXCEPT !.at = "moved"].at = "moved" /\ [o EXCEPT !.at = "moved"].kind = o.kind
          /\ [o EXCEPT !.at = "moved"].stale = o.stale
      BY DEF GoodObjects, Objects
    <3>3. o # NoObject
      BY <2>1 DEF NoObject
    <3>4. QED BY <2>1, <3>1, <3>2, <3>3 DEF Valid
  <2>2. CASE ~(o.at = "f" /\ ~o.stale)
    BY <2>2 DEF Valid
  <2>3. QED BY <2>1, <2>2
<1>2. ASSUME NEW l \in locks
      PROVE  /\ l.at = "f" /\ Shift(l) \in Locks /\ Shift(l).owner = l.owner
             /\ Shift(l).at = "moved" /\ Shift(l).write = l.write
  <2>1. l \in Locks /\ l.at = "f"
    BY DEF RenameFolder, Sound, WellFormed
  <2>2. QED BY <2>1 DEF Locks, Places
<1>3. ASSUME NEW x \in Conns
      PROVE  /\ Rec(x) \in GoodRecords /\ Rec(x).obj = Moved(conn[x].obj)
             /\ Rec(x).lock = conn[x].lock
  <2>1. conn[x] \in GoodRecords /\ conn[x].obj \in GoodObjects
    BY DEF Sound, WellFormed, GoodRecords, Records
  <2>2. /\ [conn[x] EXCEPT !.obj = Moved(conn[x].obj)] \in GoodRecords
        /\ [conn[x] EXCEPT !.obj = Moved(conn[x].obj)].obj = Moved(conn[x].obj)
        /\ [conn[x] EXCEPT !.obj = Moved(conn[x].obj)].lock = conn[x].lock
    BY <1>1, <2>1, NewObject
  <2> DEFINE r == [conn[x] EXCEPT !.obj = Moved(conn[x].obj)]
  <2>3. r.state = conn[x].state
    BY <2>1 DEF GoodRecords, Records
  <2>4. Rec(x) = [r EXCEPT !.state = IF x = c THEN "response" ELSE r.state]
    BY <2>3
  <2>5. r \in GoodRecords
    BY <2>2
  <2> HIDE DEF r
  <2>6. CASE x = c
    <3>1. Rec(x) = [r EXCEPT !.state = "response"]
      BY <2>4, <2>6
    <3>2. "response" \in States \ {"free", "headers", "upload"}
      BY DEF States
    <3>3. \A s \in States \ {"free", "headers", "upload"} :
              /\ [r EXCEPT !.state = s] \in GoodRecords
              /\ [r EXCEPT !.state = s].obj = r.obj
              /\ [r EXCEPT !.state = s].lock = r.lock
      BY <2>5, NewState
    <3>4. /\ [r EXCEPT !.state = "response"] \in GoodRecords
          /\ [r EXCEPT !.state = "response"].obj = r.obj
          /\ [r EXCEPT !.state = "response"].lock = r.lock
      BY <3>2, <3>3
    <3> HIDE DEF Rec
    <3>5. Rec(x) \in GoodRecords /\ Rec(x).obj = r.obj /\ Rec(x).lock = r.lock
      BY <3>1, <3>4
    <3>6. QED BY <2>2, <3>5 DEF r
  <2>7. CASE x # c
    <3>1. Rec(x) = r
      BY <2>4, <2>5, <2>7 DEF GoodRecords, Records
    <3>2. QED BY <2>2, <3>1 DEF r
  <2>8. QED BY <2>6, <2>7
<1>4. /\ conn' = [x \in Conns |-> Rec(x)] /\ stFile' = Moved(stFile)
      /\ locks' = {Shift(l) : l \in locks} /\ g_body_stream_busy' = g_body_stream_busy
  BY DEF RenameFolder
<1>5. WellFormed'
  <2>1. conn' \in [Conns -> GoodRecords]
    BY <1>3, <1>4
  <2>2. stFile' \in GoodObjects
    BY <1>1, <1>4 DEF Sound, WellFormed
  <2>3. locks' \subseteq Locks
    BY <1>2, <1>4
  <2>4. QED BY <2>1, <2>2, <2>3 DEF RenameFolder, Contents, Sound, WellFormed
<1>6. BodyLockHeld'
  BY <1>3, <1>4 DEF Sound, BodyLockHeld
<1>7. /\ Owned(locks, ObjectOf) /\ DOMAIN ObjectOf = Who
      /\ \A w \in Who : ObjectOf[w] \in GoodObjects
  BY OwnedIsLocksOwned DEF Sound, ObjectOf, Who, WellFormed, GoodRecords, Records
<1>8. \A w \in Who : ObjectOf'[w] = Moved(ObjectOf[w])
  BY <1>3, <1>4 DEF ObjectOf, Who
<1> HIDE DEF Moved, Shift, Rec
<1>9. ASSUME NEW w \in Who, Valid(ObjectOf[w])
      PROVE  /\ LockFor(w, ObjectOf[w]) \in locks
             /\ Shift(LockFor(w, ObjectOf[w])) = LockFor(w, ObjectOf'[w])
  <2>1. LockFor(w, ObjectOf[w]) \in locks
    BY <1>7, <1>9 DEF Owned
  <2>2. ObjectOf[w].at = "f"
    BY <1>2, <2>1 DEF LockFor
  <2>3. /\ ObjectOf'[w].at = "moved" /\ ObjectOf'[w].kind = ObjectOf[w].kind
    BY <1>1, <1>7, <1>8, <1>9, <2>2
  <2>4. LockFor(w, ObjectOf'[w]) = [LockFor(w, ObjectOf[w]) EXCEPT !.at = "moved"]
    BY <2>3 DEF LockFor
  <2>5. LockFor(w, ObjectOf[w]).at = "f"
    BY <2>2 DEF LockFor
  <2>6. QED BY <2>1, <2>4, <2>5 DEF Shift
<1>10. Owned(locks', ObjectOf')
  <2>1. ASSUME NEW k \in locks', k.owner # "nobody"
        PROVE  /\ k.owner \in Who /\ Valid(ObjectOf'[k.owner])
               /\ k = LockFor(k.owner, ObjectOf'[k.owner])
    <3>1. PICK l \in locks : k = Shift(l)
      BY <1>4
    <3>2. k.owner = l.owner
      BY <1>2, <3>1
    <3>3. l.owner \in Who /\ Valid(ObjectOf[l.owner]) /\ l = LockFor(l.owner, ObjectOf[l.owner])
      BY <1>7, <2>1, <3>2 DEF Owned
    <3>4. k = LockFor(k.owner, ObjectOf'[k.owner])
      BY <1>9, <3>1, <3>2, <3>3
    <3>5. Valid(ObjectOf'[k.owner])
      BY <1>1, <1>7, <1>8, <3>2, <3>3
    <3>6. QED BY <3>2, <3>3, <3>4, <3>5
  <2>2. ASSUME NEW w \in Who, Valid(ObjectOf'[w])
        PROVE  LockFor(w, ObjectOf'[w]) \in locks'
    <3>1. Valid(ObjectOf[w])
      BY <1>1, <1>7, <1>8, <2>2
    <3>2. QED BY <1>4, <1>9, <3>1
  <2>3. QED BY <2>1, <2>2 DEF Owned
<1>11. LocksOwned'
  <2>1. (Owned(locks, ObjectOf) <=> LocksOwned)'
    BY <1>5, OwnedIsLocksOwned, PTL
  <2>2. QED BY <1>10, <2>1 DEF Owned
<1>12. QED BY <1>5, <1>6, <1>11 DEF Sound

----------------------------------------------------------------------------
(* Every step keeps the invariant.                                         *)

LEMMA InitSound == TransfersInit => Sound
<1> SUFFICES ASSUME TransfersInit PROVE Sound
  OBVIOUS
<1>1. conn = [c \in Conns |-> Free] /\ stFile = NoObject /\ locks = {}
  BY DEF TransfersInit
<1>2. WellFormed
  BY <1>1, FreeIsGood DEF TransfersInit, Contents, WellFormed
<1>3. BodyLockHeld
  BY <1>1, FreeIsGood DEF TransfersInit, BodyLockHeld
<1>4. LocksOwned
  BY <1>1, FreeIsGood DEF LocksOwned, Valid, NoObject
<1>5. QED BY <1>2, <1>3, <1>4 DEF Sound

\* conn_close, from wherever it is called
LEMMA CloseSound ==
    ASSUME Sound, NEW c \in Conns, Close(c)
    PROVE  Sound'
<1>1. /\ Closed(c, conn[c].obj) /\ Touches(c, Free)
      /\ g_body_stream_busy' = (g_body_stream_busy /\ ~conn[c].lock)
  BY DEF Close, Release, Closed, Touches
<1>2. CardTypes'
  <2>1. content' \in Contents
    BY DEF Close, Release, Unlinked, Contents, Sound, WellFormed
  <2>2. QED BY <2>1 DEF Close, Release, CardTypes, Sound, WellFormed
<1>3. QED BY <1>1, <1>2, FreeIsGood, LetsGo

\* an answer, or another state, for one connection; the card may change
LEMMA StateSound ==
    ASSUME Sound, CardTypes', NEW c \in Conns, NEW r \in GoodRecords,
           r.obj = conn[c].obj, r.lock = conn[c].lock, Touches(c, r),
           locks' = locks, g_body_stream_busy' = g_body_stream_busy
    PROVE  Sound'
<1>1. conn' \in [Conns -> GoodRecords]
  BY DEF Touches, Sound, WellFormed
<1>2. \A d \in Conns : conn'[d].obj = conn[d].obj /\ conn'[d].lock = conn[d].lock
  BY DEF Touches, Sound, WellFormed
<1>3. QED BY <1>1, <1>2, SameOwners DEF Touches

LEMMA NextSound == Sound /\ [TransfersNext]_transfersVars => Sound'
<1> SUFFICES ASSUME Sound, [TransfersNext]_transfersVars PROVE Sound'
  OBVIOUS
<1>0. /\ conn \in [Conns -> GoodRecords] /\ CardTypes
      /\ \A c \in Conns : conn[c] \in GoodRecords
  BY DEF Sound, WellFormed, CardTypes
<1>00. {"response", "listing", "download", "debug"} \subseteq States \ {"free", "headers", "upload"}
  BY DEF States
<1> USE DEF cardVars
<1>1. ASSUME NEW c \in Conns, Accept(c) PROVE Sound'
  <2>1. [conn[c] EXCEPT !.state = "headers"] \in GoodRecords
        /\ [conn[c] EXCEPT !.state = "headers"].obj = conn[c].obj
        /\ [conn[c] EXCEPT !.state = "headers"].lock = conn[c].lock
    BY <1>0, <1>1, NewState DEF Accept
  <2>2. Touches(c, [conn[c] EXCEPT !.state = "headers"])
    BY <1>1 DEF Accept, Touches
  <2>3. CardTypes' /\ locks' = locks /\ g_body_stream_busy' = g_body_stream_busy
    BY <1>0, <1>1 DEF Accept, CardTypes
  <2>4. QED BY <2>1, <2>2, <2>3, StateSound
<1>2. ASSUME NEW c \in Conns, Vanish(c) PROVE Sound'
  <2>1. [conn[c] EXCEPT !.gone = TRUE] \in GoodRecords
        /\ [conn[c] EXCEPT !.gone = TRUE].obj = conn[c].obj
        /\ [conn[c] EXCEPT !.gone = TRUE].lock = conn[c].lock
    BY <1>0, NewState
  <2>2. Touches(c, [conn[c] EXCEPT !.gone = TRUE])
    BY <1>2 DEF Vanish, Touches
  <2>3. CardTypes' /\ locks' = locks /\ g_body_stream_busy' = g_body_stream_busy
    BY <1>0, <1>2 DEF Vanish, CardTypes
  <2>4. QED BY <2>1, <2>2, <2>3, StateSound
<1>3. ASSUME NEW c \in Conns,
             PeerCloses(c) \/ IdleSweep(c) \/ ResponseSent(c) \/ DriveDownload(c)
      PROVE  Sound'
  BY <1>3, CloseSound DEF PeerCloses, IdleSweep, ResponseSent, DriveDownload
<1>4. ASSUME NEW c \in Conns, NEW s \in {"response", "debug"},
             conn' = [conn EXCEPT ![c] = [conn[c] EXCEPT !.state = s]],
             CardTypes', UNCHANGED <<locks, g_body_stream_busy, stFile>>
      PROVE  Sound'
  <2>1. [conn[c] EXCEPT !.state = s] \in GoodRecords
        /\ [conn[c] EXCEPT !.state = s].obj = conn[c].obj
        /\ [conn[c] EXCEPT !.state = s].lock = conn[c].lock
    BY <1>0, <1>00, NewState, ZenonT(30)
  <2>2. QED BY <1>4, <2>1, StateSound DEF Touches
<1>5. ASSUME NEW c \in Conns, Answer(c) \/ StartDebug(c) PROVE Sound'
  <2>1. CardTypes'
    BY <1>0, <1>5 DEF Answer, StartDebug, CardTypes
  <2>2. QED BY <1>4, <1>5, <2>1 DEF Answer, StartDebug
<1>6. ASSUME NEW c \in Conns, AnswerFsError(c) \/ UploadFails(c) PROVE Sound'
  <2>1. CardTypes'
    BY <1>0, <1>6 DEF AnswerFsError, UploadFails, NoteError, CardTypes
  <2>2. QED BY <1>4, <1>6, <2>1 DEF AnswerFsError, UploadFails
<1>7. ASSUME NEW c \in Conns,
             DeleteFile(c) \/ RenameFile(c) \/ MakeFolder(c) \/ DeleteFolder(c)
      PROVE  Sound'
  <2>1. CardTypes'
    BY <1>0, <1>7 DEF DeleteFile, RenameFile, MakeFolder, DeleteFolder, Unlinked,
                      CardTypes, Contents
  <2>2. QED BY <1>4, <1>7, <2>1 DEF DeleteFile, RenameFile, MakeFolder, DeleteFolder
<1>8. ASSUME NEW c \in Conns, DriveListing(c) PROVE Sound'
  <2>1. CASE Close(c)
    BY <2>1, CloseSound
  <2>2. CASE ~Close(c)
    <3>1. CardTypes'
      BY <1>0, <1>8, <2>2 DEF DriveListing, CardTypes
    <3>2. QED BY <1>4, <1>8, <2>2, <3>1 DEF DriveListing
  <2>3. QED BY <2>1, <2>2
<1>9. ASSUME NEW c \in Conns, RenameFolder(c) PROVE Sound'
  BY <1>9, Renames
<1>10. ASSUME NEW c \in Conns, conn[c].state = "headers"
       PROVE  conn[c].obj = NoObject /\ ~conn[c].lock
  BY <1>0, <1>10 DEF GoodRecords
<1>11. ASSUME NEW c \in Conns, StartListing(c) PROVE Sound'
  <2> DEFINE o == [kind |-> "dir", at |-> "folder", stale |-> FALSE]
             r == [conn[c] EXCEPT !.state = "listing", !.obj = o]
  <2>1. o \in GoodObjects /\ Valid(o)
    BY OpenedObjects
  <2>2. Opened(c, o) /\ Touches(c, r) /\ conn[c].state = "headers"
    BY <1>11 DEF StartListing, Touches
  <2>3. CardTypes' /\ g_body_stream_busy' = g_body_stream_busy
    BY <1>0, <1>11 DEF StartListing, CardTypes
  <2> HIDE DEF o
  <2>4. r \in GoodRecords /\ r.obj = o /\ r.lock = conn[c].lock
    BY <1>0, <2>1, Started
  <2>5. ~r.lock
    BY <1>10, <2>2, <2>4
  <2> HIDE DEF r
  <2>6. g_body_stream_busy' = (g_body_stream_busy \/ r.lock)
    BY <2>3, <2>5 DEF Sound, WellFormed
  <2>7. QED BY <1>10, <2>1, <2>2, <2>3, <2>4, <2>5, <2>6, Opens
<1>12. ASSUME NEW c \in Conns, NEW s \in {"download", "upload"}, NEW o \in GoodObjects,
              Valid(o), conn[c].state = "headers", ~g_body_stream_busy,
              Opened(c, o), g_body_stream_busy' = TRUE, stFile' = stFile, CardTypes',
              conn' = [conn EXCEPT ![c] = [conn[c] EXCEPT !.state = s, !.obj = o, !.lock = TRUE]]
       PROVE  Sound'
  <2> DEFINE r == [conn[c] EXCEPT !.state = s, !.obj = o, !.lock = TRUE]
  <2>1. r \in GoodRecords /\ r.obj = o /\ r.lock
    <3>1. conn[c] \in GoodRecords
      BY <1>0
    <3>2. \A t \in {"download", "upload"} :
              /\ [conn[c] EXCEPT !.state = t, !.obj = o, !.lock = TRUE] \in GoodRecords
              /\ [conn[c] EXCEPT !.state = t, !.obj = o, !.lock = TRUE].obj = o
              /\ [conn[c] EXCEPT !.state = t, !.obj = o, !.lock = TRUE].lock
      BY <3>1, Started
    <3>3. QED BY <3>2
  <2>2. Touches(c, r)
    BY <1>12 DEF Touches
  <2> HIDE DEF r
  <2>3. g_body_stream_busy' = (g_body_stream_busy \/ r.lock)
    BY <1>12, <2>1
  <2>4. QED BY <1>10, <1>12, <2>1, <2>2, <2>3, Opens
<1>13. ASSUME NEW c \in Conns, StartDownload(c) PROVE Sound'
  <2> DEFINE o == [kind |-> "read", at |-> "f", stale |-> FALSE]
  <2>1. o \in GoodObjects /\ Valid(o)
    BY OpenedObjects
  <2>2. CardTypes' /\ conn[c].state = "headers" /\ ~g_body_stream_busy /\ stFile' = stFile
    BY <1>0, <1>13 DEF StartDownload, CardTypes
  <2>3. CASE /\ Opened(c, o) /\ g_body_stream_busy' = TRUE
             /\ conn' = [conn EXCEPT ![c] = [conn[c] EXCEPT !.state = "download",
                                                !.obj = o, !.lock = TRUE]]
    BY <1>12, <2>1, <2>2, <2>3
  <2>4. CASE /\ conn' = [conn EXCEPT ![c] = Free]
             /\ UNCHANGED <<locks, g_body_stream_busy>>
    <3>1. Free.obj = conn[c].obj
      BY <1>10, <2>2, FreeIsGood
    <3>2. ~Free.lock /\ ~conn[c].lock
      BY <1>10, <2>2, FreeIsGood
    <3>3. Free.lock \in BOOLEAN /\ conn[c].lock \in BOOLEAN
      BY <1>0, FreeIsGood DEF GoodRecords, Records
    <3>4. Free.lock = conn[c].lock
      BY <3>2, <3>3
    <3>5. Touches(c, Free)
      BY <2>2, <2>4 DEF Touches
    <3>6. QED BY <2>2, <2>4, <3>1, <3>4, <3>5, FreeIsGood, StateSound
  <2>5. CASE /\ conn' = [conn EXCEPT ![c] = [conn[c] EXCEPT !.state = "response"]]
             /\ UNCHANGED <<locks, g_body_stream_busy>>
    BY <1>4, <2>2, <2>5
  <2>6. QED BY <1>13, <2>3, <2>4, <2>5 DEF StartDownload
<1>14. ASSUME NEW c \in Conns, StartUpload(c) PROVE Sound'
  <2> DEFINE o == [kind |-> "write", at |-> "f", stale |-> FALSE]
  <2>1. o \in GoodObjects /\ Valid(o)
    BY OpenedObjects
  <2>2. CardTypes' /\ conn[c].state = "headers" /\ ~g_body_stream_busy /\ stFile' = stFile
    BY <1>0, <1>14 DEF StartUpload, Contents, CardTypes
  <2>3. /\ Opened(c, o) /\ g_body_stream_busy' = TRUE
        /\ conn' = [conn EXCEPT ![c] = [conn[c] EXCEPT !.state = "upload",
                                           !.obj = o, !.lock = TRUE]]
    BY <1>14 DEF StartUpload
  <2>4. QED BY <1>12, <2>1, <2>2, <2>3
<1>15. ASSUME NEW c \in Conns, UploadFinish(c) PROVE Sound'
  <2>1. CardTypes'
    BY <1>0, <1>15 DEF UploadFinish, Unlinked, Contents, CardTypes
  <2>2. /\ Closed(c, conn[c].obj) /\ Touches(c, [Free EXCEPT !.state = "response"])
        /\ g_body_stream_busy' = FALSE /\ conn[c].state = "upload"
    BY <1>15 DEF UploadFinish, Closed, Touches
  <2>3. conn[c].lock
    BY <1>0, <2>2 DEF GoodRecords
  <2>4. g_body_stream_busy' = (g_body_stream_busy /\ ~conn[c].lock)
    BY <2>2, <2>3
  <2>5. QED BY <2>1, <2>2, <2>4, AnsweredIsGood, LetsGo
<1>16. CASE RemoveCard \/ InsertCard \/ PollPresence \/ AutoMount \/ UNCHANGED transfersVars
  <2>1. CardTypes'
    BY <1>0, <1>16 DEF RemoveCard, InsertCard, PollPresence, AutoMount, Contents, CardTypes,
        transfersVars
  <2>2. UNCHANGED <<conn, locks, stFile, g_body_stream_busy>>
    BY <1>16 DEF RemoveCard, InsertCard, PollPresence, AutoMount, transfersVars
  <2>3. QED BY <1>0, <2>1, <2>2, SameOwners
<1>17. CASE PollRemount
  BY <1>17, Unmounts
<1>18. ASSUME NEW kind \in {"read", "write"}, StOpen(kind) PROVE Sound'
  BY <1>18, StOpens
<1>19. CASE StClose
  BY <1>19, StCloses
<1>20. QED
  BY <1>1, <1>2, <1>3, <1>5, <1>6, <1>7, <1>8, <1>9, <1>11, <1>13, <1>14, <1>15, <1>16,
     <1>17, <1>18, <1>19 DEF TransfersNext, FromClient, Drive, Card

(* Every variable keeps its type.                                          *)
THEOREM TransfersTypeCorrect == TransfersSpec => []TransfersTypeOK
<1>1. Sound => TransfersTypeOK
  BY WellFormedTypes DEF Sound
<1>2. QED BY <1>1, InitSound, NextSound, PTL DEF TransfersSpec

(* For any number of connections, whatever the clients, the card and the   *)
(* ST do: the body lock is taken exactly while a connection holds it, and  *)
(* a FatFs lock belongs to an open object or to a failed close.            *)
THEOREM ResourcesAreOwned == TransfersSpec => []ResourcesOwned
<1>1. Sound => ResourcesOwned
  BY DEF Sound, ResourcesOwned
<1>2. QED BY <1>1, InitSound, NextSound, PTL DEF TransfersSpec

----------------------------------------------------------------------------
(* An interrupted upload removes its own file.                             *)

\* The connection has an upload open at the place it was opened at.
Partial(c) ==
    LET o == conn[c].obj IN Valid(o) /\ o.kind = "write" /\ o.at = "f"

\* An open upload holds the body lock; a volume that answers is that of a card
\* in the slot; and while an upload is open and its card answers, what its path
\* names is the partial file.
PartialsMarked ==
    /\ \A c \in Conns : conn[c].obj.kind = "write" =>
          conn[c].lock /\ conn[c].obj.at \in {"f", "moved"}
    /\ live => inserted /\ volume
    /\ \A c \in Conns : Partial(c) => volume /\ (live => content = "half")

LEMMA InitMarked == TransfersInit => PartialsMarked
<1> SUFFICES ASSUME TransfersInit PROVE PartialsMarked
  OBVIOUS
<1>1. \A c \in Conns : conn[c].obj.kind = "none"
  BY FreeIsGood DEF TransfersInit, NoObject
<1>2. QED BY <1>1 DEF TransfersInit, PartialsMarked, Partial

\* A step opens no upload, and keeps the file of those it leaves open.
LEMMA MarksKept ==
    ASSUME PartialsMarked, live' => inserted' /\ volume',
           \A c \in Conns : conn'[c].obj.kind = "write" =>
               /\ conn[c].obj.kind = "write"
               /\ conn[c].lock => conn'[c].lock
               /\ conn'[c].obj.at \in {conn[c].obj.at, "moved"}
               /\ Valid(conn'[c].obj) => Valid(conn[c].obj),
           \A c \in Conns : Partial(c) /\ conn'[c].obj.kind = "write" /\ Valid(conn'[c].obj)
                            /\ conn'[c].obj.at = "f"
               => volume' /\ (live' => content' = "half")
    PROVE  PartialsMarked'
<1>1. ASSUME NEW c \in Conns, conn'[c].obj.kind = "write"
      PROVE  conn'[c].lock /\ conn'[c].obj.at \in {"f", "moved"}
  BY <1>1 DEF PartialsMarked
<1>2. ASSUME NEW c \in Conns, Partial(c)'
      PROVE  volume' /\ (live' => content' = "half")
  <2>1. /\ conn'[c].obj.kind = "write" /\ Valid(conn'[c].obj) /\ conn'[c].obj.at = "f"
    BY <1>2 DEF Partial
  <2>2. conn[c].obj.kind = "write" /\ conn[c].obj.at = "f" /\ Valid(conn[c].obj)
    BY <2>1 DEF PartialsMarked
  <2>3. QED BY <2>1, <2>2 DEF Partial
<1>3. QED BY <1>1, <1>2 DEF PartialsMarked

\* the same, when no object changes
LEMMA MarksStay ==
    ASSUME PartialsMarked, live' => inserted' /\ volume',
           \A c \in Conns : conn'[c].obj = conn[c].obj /\ conn'[c].lock = conn[c].lock,
           \A c \in Conns : Partial(c) => volume' /\ (live' => content' = "half")
    PROVE  PartialsMarked'
BY MarksKept

\* A file that is being uploaded is locked, so nobody else gets at it.
LEMMA PartialIsLocked ==
    ASSUME Sound, PartialsMarked, NEW c \in Conns, Partial(c)
    PROVE  /\ \E l \in locks : l.owner = c /\ l.at = "f" /\ l.write
           /\ ~Shared("f", TRUE) /\ ~Shared("f", FALSE)
           /\ g_body_stream_busy /\ \A d \in Conns : conn[d].lock => d = c
           /\ volume /\ (live => content = "half")
<1>1. /\ LockFor(c, conn[c].obj) \in locks /\ conn[c].obj.kind = "write"
      /\ conn[c].obj.at = "f"
  BY DEF Partial, Sound, LocksOwned
<1>2. /\ LockFor(c, conn[c].obj).owner = c /\ LockFor(c, conn[c].obj).at = "f"
      /\ LockFor(c, conn[c].obj).write
  BY <1>1 DEF LockFor
<1>3. conn[c].lock /\ volume /\ (live => content = "half")
  BY <1>1 DEF PartialsMarked
<1>4. QED BY <1>1, <1>2, <1>3 DEF Shared, Sound, BodyLockHeld

\* conn_close keeps the files of the other uploads
LEMMA CloseMarked ==
    ASSUME Sound, PartialsMarked, NEW c \in Conns, Close(c)
    PROVE  PartialsMarked'
<1>1. /\ conn'[c] = Free /\ \A d \in Conns \ {c} : conn'[d] = conn[d]
      /\ UNCHANGED <<inserted, live, volume>>
  BY DEF Close, Sound, WellFormed
<1>2. conn'[c].obj.kind = "none"
  BY <1>1, FreeIsGood DEF NoObject
<1>3. ASSUME NEW d \in Conns \ {c}, Partial(d)
      PROVE  content' = content
  <2>1. PICK l \in locks : l.owner = d /\ l.at = "f"
    BY <1>3, PartialIsLocked
  <2>2. c \in Who /\ ObjectOf[c] = conn[c].obj /\ Closed(c, conn[c].obj)
    BY TransfersAssumption DEF Who, ObjectOf, Close, Release, Closed
  <2>3. l \in locks'
    BY <1>3, <2>1, <2>2, CloseTable
  <2>4. Unlinked(locks') = content
    BY <2>1, <2>3 DEF Unlinked
  <2>5. QED BY <2>4 DEF Close, Release
<1>4. QED BY <1>1, <1>2, <1>3, MarksKept DEF PartialsMarked

LEMMA NextMarked == Sound /\ PartialsMarked /\ [TransfersNext]_transfersVars => PartialsMarked'
<1> SUFFICES ASSUME Sound, PartialsMarked, [TransfersNext]_transfersVars PROVE PartialsMarked'
  OBVIOUS
<1>0. /\ conn \in [Conns -> GoodRecords] /\ \A c \in Conns : conn[c] \in GoodRecords
  BY DEF Sound, WellFormed
<1>a. /\ live => inserted /\ volume
      /\ \A c \in Conns : Partial(c) => volume /\ (live => content = "half")
  BY DEF PartialsMarked
<1> USE DEF cardVars
<1>1. ASSUME NEW c \in Conns, NEW s,
             conn' = [conn EXCEPT ![c] = [conn[c] EXCEPT !.state = s]],
             UNCHANGED <<inserted, live, volume>>,
             \A d \in Conns : Partial(d) => content' = content
      PROVE  PartialsMarked'
  <2>1. \A d \in Conns : conn'[d].obj = conn[d].obj /\ conn'[d].lock = conn[d].lock
    BY <1>0, <1>1 DEF GoodRecords, Records
  <2>2. QED BY <1>a, <1>1, <2>1, MarksStay
<1>2. ASSUME NEW c \in Conns,
             Accept(c) \/ Answer(c) \/ StartDebug(c) \/ AnswerFsError(c) \/ UploadFails(c)
      PROVE  PartialsMarked'
  BY <1>1, <1>2 DEF Accept, Answer, StartDebug, AnswerFsError, UploadFails
<1>3. ASSUME NEW c \in Conns, Vanish(c) PROVE PartialsMarked'
  <2>1. \A d \in Conns : conn'[d].obj = conn[d].obj /\ conn'[d].lock = conn[d].lock
    BY <1>0, <1>3 DEF Vanish, GoodRecords, Records
  <2>2. UNCHANGED <<inserted, live, volume, content>>
    BY <1>3 DEF Vanish
  <2>3. QED BY <1>a, <2>1, <2>2, MarksStay
<1>4. ASSUME NEW c \in Conns,
             PeerCloses(c) \/ IdleSweep(c) \/ ResponseSent(c) \/ DriveDownload(c)
      PROVE  PartialsMarked'
  BY <1>4, CloseMarked DEF PeerCloses, IdleSweep, ResponseSent, DriveDownload
<1>5. ASSUME NEW c \in Conns, DriveListing(c) PROVE PartialsMarked'
  BY <1>1, <1>5, CloseMarked DEF DriveListing
<1>6. ASSUME NEW c \in Conns, DeleteFile(c) PROVE PartialsMarked'
  <2>1. ASSUME NEW d \in Conns, Partial(d) PROVE content' = content
    BY <1>6, <2>1, PartialIsLocked DEF DeleteFile, Unlinked
  <2>2. QED BY <1>1, <1>6, <2>1 DEF DeleteFile
<1>7. ASSUME NEW c \in Conns, RenameFile(c) \/ MakeFolder(c) \/ DeleteFolder(c)
      PROVE  PartialsMarked'
  <2>1. ASSUME NEW d \in Conns, Partial(d) PROVE content' = content
    BY <1>7, <2>1, PartialIsLocked DEF RenameFile, MakeFolder, DeleteFolder
  <2>2. QED BY <1>1, <1>7, <2>1 DEF RenameFile, MakeFolder, DeleteFolder
<1>8. ASSUME NEW c \in Conns, RenameFolder(c) PROVE PartialsMarked'
  <2> DEFINE Moved(o) == IF o.at = "f" /\ ~o.stale THEN [o EXCEPT !.at = "moved"] ELSE o
  <2>1. conn' = [x \in Conns |-> [conn[x] EXCEPT !.obj = Moved(conn[x].obj),
                                    !.state = IF x = c THEN "response" ELSE conn[x].state]]
        /\ UNCHANGED <<inserted, live, volume>>
    BY <1>8 DEF RenameFolder
  <2>2. \A x \in Conns : conn'[x].obj = Moved(conn[x].obj) /\ conn'[x].lock = conn[x].lock
    BY <1>0, <2>1 DEF GoodRecords, Records
  <2>3. ASSUME NEW x \in Conns
        PROVE  LET o == conn[x].obj IN
               /\ Moved(o).kind = o.kind /\ Moved(o).at \in {o.at, "moved"}
               /\ Valid(Moved(o)) <=> Valid(o)
               /\ Partial(x) => Moved(o).at = "moved"
    <3>1. conn[x].obj \in Objects
      BY <1>0 DEF GoodRecords, Records, GoodObjects
    <3>2. QED BY <3>1 DEF Objects, Valid, Partial
  <2> HIDE DEF Moved
  <2>4. QED BY <1>a, <2>1, <2>2, <2>3, MarksKept, ZenonT(30)
<1>9. ASSUME NEW c \in Conns, StartListing(c) PROVE PartialsMarked'
  <2>1. /\ conn'[c].obj.kind = "dir" /\ \A d \in Conns \ {c} : conn'[d] = conn[d]
        /\ UNCHANGED <<inserted, live, volume, content>>
    BY <1>0, <1>9 DEF StartListing, GoodRecords, Records
  <2>2. QED BY <1>a, <2>1, MarksKept
<1>10. ASSUME NEW c \in Conns, StartDownload(c) PROVE PartialsMarked'
  <2>1. conn[c].state = "headers" => conn[c].obj.kind = "none"
    BY <1>0 DEF GoodRecords, NoObject
  <2>2. /\ conn'[c].obj.kind \in {"read", "none"} /\ \A d \in Conns \ {c} : conn'[d] = conn[d]
        /\ UNCHANGED <<inserted, live, volume, content>>
    BY <1>0, <1>10, <2>1, FreeIsGood DEF StartDownload, GoodRecords, Records, NoObject
  <2>3. QED BY <1>a, <2>2, MarksKept
<1>11. ASSUME NEW c \in Conns, StartUpload(c) PROVE PartialsMarked'
  <2>1. /\ ~g_body_stream_busy /\ volume /\ content' = IF live THEN "half" ELSE content
        /\ UNCHANGED <<inserted, live, volume>>
    BY <1>11 DEF StartUpload, HasFolder
  <2>2. /\ conn'[c].obj.kind = "write" /\ conn'[c].obj.at = "f" /\ conn'[c].lock
        /\ \A d \in Conns \ {c} : conn'[d] = conn[d]
    BY <1>0, <1>11 DEF StartUpload, GoodRecords, Records
  <2>3. \A d \in Conns : ~Partial(d)
    BY <2>1, PartialIsLocked
  <2>4. \A d \in Conns \ {c} : Partial(d)' => Partial(d)
    BY <2>2 DEF Partial
  <2>5. QED BY <1>a, <2>1, <2>2, <2>3, <2>4 DEF PartialsMarked
<1>12. ASSUME NEW c \in Conns, UploadFinish(c) PROVE PartialsMarked'
  <2>1. conn[c].lock
    BY <1>0, <1>12 DEF UploadFinish, GoodRecords
  <2>2. /\ conn'[c] = [Free EXCEPT !.state = "response"]
        /\ \A d \in Conns \ {c} : conn'[d] = conn[d]
        /\ UNCHANGED <<inserted, live, volume>>
    BY <1>0, <1>12 DEF UploadFinish
  <2>3. conn'[c].obj.kind = "none"
    BY <2>2, AnsweredIsGood DEF NoObject
  <2>4. \A d \in Conns \ {c} : ~Partial(d)
    BY <2>1, PartialIsLocked
  <2>5. QED BY <1>a, <2>2, <2>3, <2>4, MarksKept
<1>13. CASE RemoveCard \/ InsertCard \/ PollPresence \/ AutoMount \/ UNCHANGED transfersVars
  <2>1. conn' = conn
    BY <1>13 DEF RemoveCard, InsertCard, PollPresence, AutoMount, transfersVars
  <2>2. /\ live' => inserted' /\ volume'
        /\ \A c \in Conns : Partial(c) => volume' /\ (live' => content' = "half")
    BY <1>a, <1>13 DEF RemoveCard, InsertCard, PollPresence, AutoMount, transfersVars
  <2>3. QED BY <2>1, <2>2, MarksStay
<1>14. CASE PollRemount
  <2>1. conn' = [c \in Conns |-> [conn[c] EXCEPT !.obj = Stale(conn[c].obj)]]
    BY <1>14 DEF PollRemount, Unmount
  <2>2. ASSUME NEW c \in Conns
        PROVE  /\ conn'[c].lock = conn[c].lock /\ conn'[c].obj.kind = conn[c].obj.kind
               /\ conn'[c].obj.at = conn[c].obj.at /\ ~Valid(conn'[c].obj)
    <3>1. conn[c].obj \in Objects
      BY <1>0 DEF GoodRecords, Records, GoodObjects
    <3>2. conn'[c].lock = conn[c].lock /\ conn'[c].obj = Stale(conn[c].obj)
      BY <1>0, <2>1 DEF GoodRecords, Records
    <3>3. QED BY <3>1, <3>2 DEF Stale, Valid, Objects
  <2>3. live' => inserted' /\ volume'
    BY <1>14 DEF PollRemount
  <2>4. QED BY <2>2, <2>3, MarksKept
<1>15. ASSUME NEW kind \in {"read", "write"}, StOpen(kind) PROVE PartialsMarked'
  <2>1. conn' = conn /\ UNCHANGED <<inserted, live, volume>> /\ Shared("f", kind = "write")
    BY <1>15 DEF StOpen
  <2>2. \A c \in Conns : ~Partial(c)
    BY <2>1, PartialIsLocked DEF Shared
  <2>3. QED BY <1>a, <2>1, <2>2, MarksStay
<1>16. CASE StClose
  <2>1. conn' = conn /\ UNCHANGED <<inserted, live, volume, content>>
    BY <1>16 DEF StClose
  <2>2. QED BY <1>a, <2>1, MarksStay
<1>17. QED
  BY <1>2, <1>3, <1>4, <1>5, <1>6, <1>7, <1>8, <1>9, <1>10, <1>11, <1>12, <1>13, <1>14,
     <1>15, <1>16 DEF TransfersNext, FromClient, Drive, Card

\* A connection is freed by conn_close; a step that frees it otherwise leaves
\* the card alone.
LEMMA FreedByClose ==
    ASSUME Sound, TransfersNext, NEW c \in Conns,
           conn[c].state # "free", conn'[c].state = "free", content' # content
    PROVE  Close(c)
<1>0. /\ conn \in [Conns -> GoodRecords] /\ \A d \in Conns : conn[d] \in GoodRecords
  BY DEF Sound, WellFormed
<1>1. ASSUME NEW d \in Conns, Close(d) PROVE d = c
  BY <1>0, <1>1 DEF Close
<1>2. ASSUME NEW d \in Conns, NEW s \in States \ {"free"},
             conn' = [conn EXCEPT ![d] = [conn[d] EXCEPT !.state = s]]
      PROVE  FALSE
  <2>1. conn'[c].state \in {s, conn[c].state}
    BY <1>0, <1>2 DEF GoodRecords, Records
  <2>2. QED BY <2>1
<1>3. ASSUME NEW d \in Conns, DeleteFile(d) \/ RenameFile(d) \/ MakeFolder(d) \/ DeleteFolder(d)
      PROVE  FALSE
  BY <1>2, <1>3 DEF DeleteFile, RenameFile, MakeFolder, DeleteFolder, States
<1>4. ASSUME NEW d \in Conns, RenameFolder(d) PROVE FALSE
  <2>1. conn'[c].state = IF c = d THEN "response" ELSE conn[c].state
    BY <1>0, <1>4 DEF RenameFolder, GoodRecords, Records
  <2>2. QED BY <2>1
<1>5. ASSUME NEW d \in Conns, StartUpload(d) PROVE FALSE
  <2>1. conn'[c].state \in {"upload", conn[c].state}
    BY <1>0, <1>5 DEF StartUpload, GoodRecords, Records
  <2>2. QED BY <2>1
<1>6. ASSUME NEW d \in Conns, UploadFinish(d) PROVE FALSE
  <2>1. conn'[c].state \in {"response", conn[c].state}
    BY <1>0, <1>6 DEF UploadFinish, Free
  <2>2. QED BY <2>1
<1>7. ASSUME Card \/ \E kind \in {"read", "write"} : StOpen(kind) PROVE FALSE
  <2>1. content' = content \/ conn' = conn
    BY <1>7 DEF Card, RemoveCard, InsertCard, PollPresence, PollRemount, AutoMount, StOpen
  <2>2. QED BY <2>1
<1>8. ASSUME NEW d \in Conns, FromClient(d) PROVE Close(d)
  BY <1>3, <1>4, <1>5, <1>6, <1>8 DEF FromClient, Answer, AnswerFsError, StartListing,
    StartDownload, StartDebug, UploadFails, ResponseSent, cardVars
<1>9. ASSUME NEW d \in Conns, Accept(d) \/ Drive(d) \/ Vanish(d) \/ PeerCloses(d) \/ IdleSweep(d)
      PROVE  Close(d)
  BY <1>9 DEF Accept, Drive, DriveListing, DriveDownload, Vanish, PeerCloses, IdleSweep, cardVars
<1>10. ~StClose
  BY DEF StClose
<1>11. QED BY <1>1, <1>7, <1>8, <1>9, <1>10 DEF TransfersNext

\* The clean-up of an interrupted upload removes the partial file of that upload
\* and no other, for any number of connections, unless the card was exchanged or
\* the folder renamed under it.
THEOREM AbortSparesOthersHolds == TransfersSpec => AbortSparesOthers
<1>1. TransfersInit => Sound /\ PartialsMarked
  BY InitSound, InitMarked
<1>2. Sound /\ PartialsMarked /\ [TransfersNext]_transfersVars => Sound' /\ PartialsMarked'
  BY NextSound, NextMarked
<1>3. Sound /\ PartialsMarked /\ [TransfersNext]_transfersVars
      => [\A c \in Conns :
            /\ conn[c].state # "free" /\ conn'[c].state = "free"
            /\ content = "whole" /\ content' = "absent"
            => conn[c].obj.stale \/ conn[c].obj.at = "moved"
         ]_transfersVars
  <2> SUFFICES ASSUME Sound, PartialsMarked, TransfersNext, NEW c \in Conns,
                      conn[c].state # "free", conn'[c].state = "free",
                      content = "whole", content' = "absent"
               PROVE  conn[c].obj.stale \/ conn[c].obj.at = "moved"
    OBVIOUS
  <2>1. Close(c)
    BY FreedByClose
  <2>2. conn[c].obj.kind = "write" /\ live
    BY <2>1 DEF Close, Release, Unlinked
  <2>3. ~Partial(c)
    BY <2>2 DEF PartialsMarked
  <2>4. conn[c].obj.at \in {"f", "moved"}
    BY <2>2 DEF PartialsMarked
  <2>5. QED BY <2>2, <2>3, <2>4 DEF Partial, Valid
<1>4. QED BY <1>1, <1>2, <1>3, PTL DEF TransfersSpec, AbortSparesOthers

----------------------------------------------------------------------------
(* The reader of a request.                                                *)

\* As long as the headers are read all that came is in the buffer, and as long
\* as the body is read all that came after them has been handed on.
Position ==
    /\ reading = "headers" => hdr_len = pos /\ pos < request.header /\ body = <<>>
    /\ reading = "body" => Len(body) = pos - request.header /\ Len(body) < request.wanted

ReaderInv == ReaderTypeOK /\ Position /\ BodyIsExact

LEMMA RequestShape ==
    ASSUME request \in Requests_
    PROVE  /\ request.header \in 1..MaxHeader
           /\ request.content_length \in 0..MaxBody
           /\ request.wanted \in 0..request.content_length
           /\ request.extra \in 0..1
           /\ request.route \in {"upload", "load", "other", "bodiless"}
           /\ End \in Nat /\ End <= MaxHeader + MaxBody + 1
<1>1. /\ request.header \in 1..MaxHeader /\ request.content_length \in 0..MaxBody
      /\ request.wanted \in 0..MaxBody /\ request.extra \in 0..1
      /\ request.route \in {"upload", "load", "other", "bodiless"}
  BY DEF Requests_
<1>2. CASE request.route = "bodiless"
  BY <1>1, <1>2, ReaderAssumption DEF Requests_, End
<1>3. CASE request.route = "load"
  BY <1>1, <1>3, ReaderAssumption DEF Requests_, End
<1>4. CASE request.route \in {"upload", "other"}
  BY <1>1, <1>4, ReaderAssumption DEF Requests_, End
<1>5. QED BY <1>1, <1>2, <1>3, <1>4

\* What is handed on next continues the body, if it begins where that ended.
LEMMA TakenContinues ==
    ASSUME body \in Seq(Nat), pos \in Nat, request.header \in Nat,
           NEW off \in Nat, NEW n \in Nat,
           \A i \in DOMAIN body : body[i] = request.header + i,
           pos + off = request.header + Len(body)
    PROVE  /\ Taken(off, n) \in Seq(Nat)
           /\ Len(Taken(off, n)) = Len(body) + n
           /\ \A i \in DOMAIN Taken(off, n) : Taken(off, n)[i] = request.header + i
<1> DEFINE next == [i \in 1..n |-> pos + off + i]
<1>1. next \in Seq(Nat) /\ Len(next) = n
  OBVIOUS
<1>2. Taken(off, n) \in Seq(Nat) /\ Len(Taken(off, n)) = Len(body) + n
  BY <1>1 DEF Taken
<1>3. ASSUME NEW i \in DOMAIN Taken(off, n)
      PROVE  Taken(off, n)[i] = request.header + i
  <2>1. i \in 1..(Len(body) + n)
    BY <1>2, <1>3
  <2>2. CASE i <= Len(body)
    <3>1. Taken(off, n)[i] = body[i]
      BY <1>1, <2>1, <2>2 DEF Taken
    <3>2. QED BY <2>1, <2>2, <3>1
  <2>3. CASE i > Len(body)
    <3>1. Taken(off, n)[i] = next[i - Len(body)]
      BY <1>1, <2>1, <2>3 DEF Taken
    <3>2. i - Len(body) \in 1..n
      BY <2>1, <2>3
    <3>3. next[i - Len(body)] = pos + off + (i - Len(body))
      BY <3>2
    <3>4. Len(body) \in Nat /\ i \in Int
      BY <2>1
    <3>5. pos + off + (i - Len(body)) = request.header + i
      BY <3>4, SMTT(30)
    <3>6. QED BY <3>1, <3>3, <3>5
  <2>4. QED BY <2>1, <2>2, <2>3
<1>4. QED BY <1>2, <1>3

LEMMA LeastIs ==
    ASSUME NEW a \in Int, NEW b \in Int
    PROVE  /\ Least(a, b) \in {a, b} /\ Least(a, b) <= a /\ Least(a, b) <= b
BY DEF Least

\* What one segment brings to the route: `n` more bytes and their consequences.
LEMMA HandedOn ==
    ASSUME ReaderInv, NEW off \in Nat, NEW n \in Nat,
           pos + off = request.header + Len(body),
           Len(body) + n <= request.wanted,
           body' = Taken(off, n), UNCHANGED request
    PROVE  /\ body' \in Seq(Nat) /\ Len(body') = Len(body) + n
           /\ Len(body') <= MaxBody /\ Len(body') <= request'.wanted
           /\ \A i \in DOMAIN body' : body'[i] = request'.header + i
<1>1. /\ request.wanted \in Nat /\ request.wanted <= MaxBody
      /\ request.header \in Nat /\ pos \in Nat /\ body \in Seq(Nat)
      /\ \A i \in DOMAIN body : body[i] = request.header + i
  BY RequestShape, ReaderAssumption, SMTT(30) DEF ReaderInv, ReaderTypeOK, BodyIsExact
<1>2. /\ Taken(off, n) \in Seq(Nat) /\ Len(Taken(off, n)) = Len(body) + n
      /\ \A i \in DOMAIN Taken(off, n) : Taken(off, n)[i] = request.header + i
  BY <1>1, TakenContinues
<1>3. Len(body) \in Nat /\ Len(body) + n \in Nat
  BY <1>1
<1>4. body' \in Seq(Nat) /\ Len(body') = Len(body) + n /\ request' = request
  BY <1>2
<1>5. Len(body') <= MaxBody /\ Len(body') <= request'.wanted
  BY <1>1, <1>3, <1>4, ReaderAssumption
<1>6. \A i \in DOMAIN body' : body'[i] = request'.header + i
  BY <1>2, <1>4
<1>7. QED BY <1>4, <1>5, <1>6

LEMMA HeadersInv ==
    ASSUME ReaderInv, NEW len \in 1..(End - pos), pos' = pos + len,
           ReceiveHeaders(len), UNCHANGED request
    PROVE  ReaderInv'
<1>0. /\ HeaderBuf \in Nat \ {0} /\ BodyBuf \in Nat /\ MaxHeader \in Nat \ {0} /\ MaxBody \in Nat
      /\ request \in Requests_ /\ pos \in Nat /\ len \in Nat \ {0}
      /\ hdr_len \in 0..(HeaderBuf - 1) /\ hdr_len = pos /\ pos < request.header
      /\ body = <<>> /\ body \in Seq(Nat) /\ Len(body) = 0
      /\ request.header \in Nat /\ request.content_length \in Nat
      /\ request.wanted \in 0..request.content_length /\ request.content_length <= MaxBody
      /\ request.route \in {"upload", "load", "other", "bodiless"}
      /\ End \in Nat /\ End <= MaxHeader + MaxBody + 1
      /\ reading = "headers"
  BY ReaderAssumption, RequestShape DEF ReaderInv, ReaderTypeOK, Position, ReceiveHeaders
<1> DEFINE have == hdr_len + Least(len, HeaderBuf - 1 - hdr_len)
<1>1. /\ have \in Nat /\ have <= HeaderBuf - 1 /\ have <= pos + len
      /\ have = HeaderBuf - 1 \/ have = pos + len
  BY <1>0, LeastIs
<1>2. /\ pos' \in 0..(MaxHeader + MaxBody + 1) /\ hdr_len' = have /\ hdr_len' \in 0..(HeaderBuf - 1)
  BY <1>0, <1>1 DEF ReceiveHeaders
<1>3. CASE have >= request.header /\ Dispatch_(len)
  <2>1. CASE request.route = "other" /\ request.content_length > BodyBuf
    <3>1. reading' = "too_large_body" /\ body' = body
      BY <1>3, <2>1 DEF Dispatch_
    <3>2. ReaderTypeOK' /\ Position' /\ BodyIsExact'
      BY <1>0, <1>2, <2>1, <3>1 DEF ReaderTypeOK, Position, BodyIsExact, States_
    <3>3. QED BY <3>2 DEF ReaderInv
  <2>2. CASE ~(request.route = "other" /\ request.content_length > BodyBuf)
    <3> DEFINE off == request.header - hdr_len
               n == Least(len - off, request.wanted)
    <3>1. /\ off \in Nat /\ pos + off = request.header + Len(body)
          /\ off <= len /\ n \in Nat /\ n <= request.wanted /\ n <= len - off
          /\ n = request.wanted \/ n = pos + len - request.header
      BY <1>0, <1>1, <1>3 DEF Least
    <3>2. CASE body' = Taken(off, n) /\ reading' = AfterBody(n)
      <4>1. /\ body' \in Seq(Nat) /\ Len(body') = n /\ Len(body') <= MaxBody
            /\ Len(body') <= request'.wanted
            /\ \A i \in DOMAIN body' : body'[i] = request'.header + i
        BY <1>0, <3>1, <3>2, HandedOn
      <4>2. \/ reading' = "response" /\ n = request.wanted
            \/ reading' = "body" /\ n < request.wanted /\ n = pos' - request.header
        BY <1>0, <3>1, <3>2, SMTT(30) DEF AfterBody
      <4>3. ReaderTypeOK' /\ Position' /\ BodyIsExact'
        <5>1. reading' \in {"response", "body"} /\ request' = request
          BY <4>2
        <5>2. ReaderTypeOK'
          BY <1>0, <1>2, <4>1, <5>1 DEF ReaderTypeOK, States_
        <5>3. Position'
          BY <4>1, <4>2, <5>1 DEF Position
        <5>4. BodyIsExact'
          BY <1>0, <1>2, <4>1, <4>2, <5>1, SMTT(30) DEF BodyIsExact
        <5>5. QED BY <5>2, <5>3, <5>4
      <4>4. QED BY <4>3 DEF ReaderInv
    <3>3. CASE \E m \in 0..n : body' = Taken(off, m) /\ reading' = "failed"
      <4>1. PICK m \in 0..n : body' = Taken(off, m) /\ reading' = "failed"
        BY <3>3
      <4>2. m \in Nat /\ Len(body) + m <= request.wanted
        BY <1>0, <3>1, <4>1
      <4>3. /\ body' \in Seq(Nat) /\ Len(body') <= MaxBody /\ Len(body') <= request'.wanted
            /\ \A i \in DOMAIN body' : body'[i] = request'.header + i
        BY <1>0, <3>1, <4>1, <4>2, HandedOn
      <4>4. ReaderTypeOK' /\ Position' /\ BodyIsExact'
        BY <1>0, <1>2, <4>1, <4>3 DEF ReaderTypeOK, Position, BodyIsExact, States_
      <4>5. QED BY <4>4 DEF ReaderInv
    <3>4. QED BY <1>3, <2>2, <3>2, <3>3 DEF Dispatch_
  <2>3. QED BY <2>1, <2>2
<1>4. CASE have < request.header /\ ~(have >= request.header /\ Dispatch_(len))
  <2>1. /\ body' = body
        /\ \/ reading' = "too_large_headers" /\ have = HeaderBuf - 1
           \/ reading' = "headers" /\ have # HeaderBuf - 1
    BY <1>4 DEF ReceiveHeaders
  <2>2. ReaderTypeOK' /\ Position' /\ BodyIsExact'
    BY <1>0, <1>1, <1>2, <1>4, <2>1, SMTT(30) DEF ReaderTypeOK, Position, BodyIsExact, States_
  <2>3. QED BY <2>2 DEF ReaderInv
<1>5. QED BY <1>0, <1>1, <1>3, <1>4 DEF ReceiveHeaders

LEMMA BodyInv ==
    ASSUME ReaderInv, NEW len \in 1..(End - pos), pos' = pos + len,
           ReceiveBody(len), UNCHANGED request
    PROVE  ReaderInv'
<1>1. /\ HeaderBuf \in Nat \ {0} /\ MaxHeader \in Nat \ {0} /\ MaxBody \in Nat
      /\ request \in Requests_ /\ pos \in Nat /\ len \in Nat \ {0}
      /\ hdr_len' = hdr_len /\ hdr_len \in 0..(HeaderBuf - 1)
      /\ body \in Seq(Nat) /\ Len(body) \in Nat
      /\ Len(body) = pos - request.header /\ Len(body) < request.wanted
      /\ request.header \in Nat /\ request.content_length \in Nat
      /\ request.wanted \in 0..request.content_length /\ request.content_length <= MaxBody
      /\ End \in Nat /\ End <= MaxHeader + MaxBody + 1
  BY ReaderAssumption, RequestShape, SMTT(30) DEF ReaderInv, ReaderTypeOK, Position, ReceiveBody
<1> DEFINE n == Least(len, request.wanted - Len(body))
<1> DEFINE rest == request.wanted - Len(body)
<1>2. request.wanted \in Nat /\ Len(body) \in Nat /\ Len(body) < request.wanted /\ len \in Nat
  BY <1>1
<1>3. rest \in Nat /\ Len(body) + rest = request.wanted /\ len \in Nat
  BY <1>2
<1>4. n \in Nat /\ n <= rest /\ (n = rest \/ n = len)
  BY <1>3 DEF Least
<1>5. \/ body' = Taken(0, n) /\ reading' = AfterBody(Len(body) + n)
      \/ \E m \in 0..n : body' = Taken(0, m) /\ reading' = "failed"
  BY DEF ReceiveBody
<1> HIDE DEF n, rest
<1>6. /\ n \in Nat /\ Len(body) + n <= request.wanted
      /\ Len(body) + n = request.wanted \/ Len(body) + n = pos + len - request.header
  BY <1>1, <1>3, <1>4
<1>7. 0 \in Nat /\ pos + 0 = request.header + Len(body)
  BY <1>1
<1>8. pos' \in 0..(MaxHeader + MaxBody + 1)
  BY <1>1
<1>9. CASE body' = Taken(0, n) /\ reading' = AfterBody(Len(body) + n)
  <2>1. /\ body' \in Seq(Nat) /\ Len(body') = Len(body) + n /\ Len(body') <= MaxBody
        /\ Len(body') <= request'.wanted
        /\ \A i \in DOMAIN body' : body'[i] = request'.header + i
    BY <1>6, <1>9, <1>7, HandedOn
  <2>2. \/ reading' = "response" /\ Len(body') = request.wanted
        \/ reading' = "body" /\ Len(body') < request.wanted /\ Len(body') = pos' - request.header
    <3>1. Len(body) + n \in Nat /\ request.wanted \in Nat /\ pos' = pos + len
      BY <1>6, <1>2
    <3>2. CASE Len(body) + n >= request.wanted
      BY <1>6, <1>9, <2>1, <3>1, <3>2 DEF AfterBody
    <3>3. CASE Len(body) + n < request.wanted
      <4>1. reading' = "body" /\ Len(body') = Len(body) + n
        BY <1>9, <2>1, <3>1, <3>3 DEF AfterBody
      <4>2. Len(body) + n = pos' - request.header
        <5>1. Len(body) + n # request.wanted
          BY <3>1, <3>3
        <5>2. Len(body) + n = pos + len - request.header
          BY <1>6, <5>1
        <5>3. pos \in Int /\ len \in Int /\ request.header \in Int
          BY <1>1
        <5>4. QED BY <3>1, <5>2, <5>3
      <4>3. QED BY <3>3, <4>1, <4>2
    <3>4. QED BY <3>1, <3>2, <3>3
  <2>3. ReaderTypeOK' /\ Position' /\ BodyIsExact'
    <3>1. reading' \in {"response", "body"} /\ request' = request
      BY <2>2
    <3>2. ReaderTypeOK'
      BY <1>1, <1>8, <2>1, <3>1 DEF ReaderTypeOK, States_
    <3>3. Position'
      BY <2>2, <3>1 DEF Position
    <3>4. BodyIsExact'
      <4>1. pos' >= request'.header + request'.content_length => reading' # "body"
        <5> SUFFICES ASSUME reading' = "body"
                     PROVE  pos' < request.header + request.content_length
          BY <1>1, <1>8, <3>1
        <5>1. pos' - request.header < request.wanted
          BY <2>2
        <5>2. /\ pos' \in Int /\ request.header \in Int /\ request.wanted \in Int
              /\ request.content_length \in Int /\ request.wanted <= request.content_length
          BY <1>1, <1>8
        <5>3. QED BY <5>1, <5>2
      <4>2. QED BY <2>1, <2>2, <3>1, <4>1 DEF BodyIsExact
    <3>5. QED BY <3>2, <3>3, <3>4
  <2>4. QED BY <2>3 DEF ReaderInv
<1>10. CASE \E m \in 0..n : body' = Taken(0, m) /\ reading' = "failed"
  <2>1. PICK m \in 0..n : body' = Taken(0, m) /\ reading' = "failed"
    BY <1>10
  <2>2. m \in Nat /\ Len(body) + m <= request.wanted
    BY <1>6, <2>1, <1>1, SMTT(30)
  <2>3. /\ body' \in Seq(Nat) /\ Len(body') <= MaxBody /\ Len(body') <= request'.wanted
        /\ \A i \in DOMAIN body' : body'[i] = request'.header + i
    BY <2>1, <2>2, <1>7, HandedOn
  <2>4. ReaderTypeOK' /\ Position' /\ BodyIsExact'
    BY <1>1, <1>8, <2>1, <2>3 DEF ReaderTypeOK, Position, BodyIsExact, States_
  <2>5. QED BY <2>4 DEF ReaderInv
<1>11. QED BY <1>5, <1>9, <1>10

LEMMA ReaderInitInv == ReaderInit => ReaderInv
<1> SUFFICES ASSUME ReaderInit PROVE ReaderInv
  OBVIOUS
<1>1. request \in Requests_
  BY DEF ReaderInit
<1>2. /\ request.header \in Nat \ {0} /\ request.wanted \in Nat /\ request.content_length \in Nat
  BY <1>1, RequestShape
<1>3. ReaderTypeOK /\ Position /\ BodyIsExact
  BY <1>1, <1>2, ReaderAssumption DEF ReaderInit, ReaderTypeOK, Position, BodyIsExact, States_
<1>4. QED BY <1>3 DEF ReaderInv

LEMMA ReaderStepInv == ReaderInv /\ [ReaderNext]_readerVars => ReaderInv'
<1> SUFFICES ASSUME ReaderInv, [ReaderNext]_readerVars PROVE ReaderInv'
  OBVIOUS
<1>1. CASE Segment
  <2>1. PICK len \in 1..(End - pos) :
             /\ pos' = pos + len /\ UNCHANGED request
             /\ ReceiveHeaders(len) \/ ReceiveBody(len) \/ Ignore
    BY <1>1 DEF Segment
  <2>2. CASE ReceiveHeaders(len)
    BY <2>1, <2>2, HeadersInv
  <2>3. CASE ReceiveBody(len)
    BY <2>1, <2>3, BodyInv
  <2>4. CASE Ignore
    <3>1. /\ pos' \in 0..(MaxHeader + MaxBody + 1)
      BY <2>1, RequestShape, ReaderAssumption DEF ReaderInv, ReaderTypeOK
    <3>2. ReaderTypeOK' /\ Position' /\ BodyIsExact'
      BY <2>1, <2>4, <3>1 DEF Ignore, ReaderInv, ReaderTypeOK, Position, BodyIsExact
    <3>3. QED BY <3>2 DEF ReaderInv
  <2>5. QED BY <2>1, <2>2, <2>3, <2>4
<1>2. CASE ReaderCloses
  BY <1>2 DEF ReaderCloses, ReaderInv, ReaderTypeOK, Position, BodyIsExact, States_
<1>3. CASE UNCHANGED readerVars
  BY <1>3 DEF readerVars, ReaderInv, ReaderTypeOK, Position, BodyIsExact
<1>4. QED BY <1>1, <1>2, <1>3 DEF ReaderNext

\* The state of the reader keeps to its types, for buffers and requests of any
\* size (srv_recv_cb): among others the header buffer is never overrun.
THEOREM ReaderTypeCorrect == ReaderSpec => []ReaderTypeOK
<1>1. ReaderInv => ReaderTypeOK
  BY DEF ReaderInv
<1>2. QED BY <1>1, ReaderInitInv, ReaderStepInv, PTL DEF ReaderSpec

\* However TCP cuts a request of any size, its route gets exactly the bytes of
\* its body, and it is refused for its size only when it does not fit
\* (srv_recv_cb, parse_and_dispatch).
THEOREM BodiesAreExact == ReaderSpec => []BodyIsExact
<1>1. ReaderInv => BodyIsExact
  BY DEF ReaderInv
<1>2. QED BY <1>1, ReaderInitInv, ReaderStepInv, PTL DEF ReaderSpec

----------------------------------------------------------------------------
(* The link supervisor.                                                    *)

\* The timers are natural numbers, and every one fits below the longest.
LEMMA Timers ==
    /\ Grace \in Nat /\ BackoffMin \in Nat /\ BackoffMax \in Nat
    /\ ProbeFailures \in Nat /\ ProbeFailures > 0
    /\ BackoffMin > 0 /\ BackoffMax > 0 /\ Grace > 0
    /\ BackoffMin <= BackoffMax
    /\ LongestTimer \in Nat
    /\ Grace <= LongestTimer /\ BackoffMax <= LongestTimer
    /\ ProbeInterval \in 0..LongestTimer /\ ProbeRetry \in 0..LongestTimer
    /\ ProbeTimeout \in 0..LongestTimer
BY LinkAssumption DEF LongestTimer, Max2

\* The values that the steps give to the fields of the supervisor.
LEMMA Bounds ==
    /\ 0 \in 0..ProbeFailures /\ 0 \in 0..LongestTimer
    /\ Grace \in 0..LongestTimer
    /\ BackoffMin \in BackoffMin..BackoffMax
BY Timers

\* The steps that rejoin keep the types if the supervisor they start from has
\* its own.
Supervisors ==
    [tripped : BOOLEAN, rejoinIn : 0..LongestTimer,
     backoff : BackoffMin..BackoffMax,
     probe : {"none", "scheduled", "inflight"},
     probeIn : 0..LongestTimer, failures : 0..ProbeFailures]

LEMMA Updates ==
    ASSUME NEW s \in Supervisors
    PROVE  /\ \A v \in BOOLEAN : [s EXCEPT !.tripped = v] \in Supervisors
           /\ \A v \in 0..LongestTimer : [s EXCEPT !.rejoinIn = v] \in Supervisors
           /\ \A v \in BackoffMin..BackoffMax : [s EXCEPT !.backoff = v] \in Supervisors
           /\ \A v \in {"none", "scheduled", "inflight"} : [s EXCEPT !.probe = v] \in Supervisors
           /\ \A v \in 0..LongestTimer : [s EXCEPT !.probeIn = v] \in Supervisors
           /\ \A v \in 0..ProbeFailures : [s EXCEPT !.failures = v] \in Supervisors
BY DEF Supervisors

LEMMA ResetKeepsType ==
    ASSUME NEW s \in Supervisors
    PROVE  ResetProbe(s) \in Supervisors
<1>1. [s EXCEPT !.probe = "none"] \in Supervisors
  BY Updates
<1>2. [[s EXCEPT !.probe = "none"] EXCEPT !.failures = 0] \in Supervisors
  BY <1>1, Updates, Bounds
<1>3. QED BY <1>2 DEF ResetProbe

LEMMA ScheduleKeepsType ==
    ASSUME NEW s \in Supervisors, NEW ticks \in 0..LongestTimer
    PROVE  Schedule(s, ticks) \in Supervisors
<1>1. [s EXCEPT !.probe = "scheduled"] \in Supervisors
  BY Updates
<1>2. [[s EXCEPT !.probe = "scheduled"] EXCEPT !.probeIn = ticks] \in Supervisors
  BY <1>1, Updates
<1>3. QED BY <1>2 DEF Schedule

\* tripped, with a timer and a backoff
LEMMA TripKeepsType ==
    ASSUME NEW s \in Supervisors, NEW t \in 0..LongestTimer,
           NEW b \in BackoffMin..BackoffMax
    PROVE  [s EXCEPT !.tripped = TRUE, !.rejoinIn = t, !.backoff = b] \in Supervisors
<1> DEFINE s1 == [s EXCEPT !.tripped = TRUE]
           s2 == [s1 EXCEPT !.rejoinIn = t]
           s3 == [s2 EXCEPT !.backoff = b]
<1>1. s1 \in Supervisors
  BY Updates
<1> HIDE DEF s1
<1>2. s2 \in Supervisors
  BY <1>1, Updates
<1> HIDE DEF s2
<1>3. s3 \in Supervisors
  BY <1>2, Updates
<1>4. QED BY <1>3 DEF s1, s2

LEMMA RejoinTypeOK ==
    ASSUME LinkTypeOK, NEW s \in Supervisors, Rejoin(s)
    PROVE  LinkTypeOK'
<1> DEFINE b == IF link = "badauth" THEN BackoffMax ELSE s.backoff
           r == [s EXCEPT !.tripped = TRUE, !.rejoinIn = b,
                          !.backoff = Min2(2 * b, BackoffMax)]
<1>1. b \in BackoffMin..BackoffMax
  BY Timers DEF Supervisors
<1>2. b \in 0..LongestTimer /\ Min2(2 * b, BackoffMax) \in BackoffMin..BackoffMax
  BY <1>1, Timers DEF Min2
<1>3. supervisor' = ResetProbe(r)
  BY DEF Rejoin
<1>4. r \in Supervisors
  BY <1>2, TripKeepsType
<1>5. supervisor' \in Supervisors
  BY <1>3, <1>4, ResetKeepsType
<1>6. 1 - rejoins \in 0..1
  BY DEF LinkTypeOK
<1>7. 0 \in 0..BackoffMax
  BY Timers
<1>8. QED
  BY <1>5, <1>6, <1>7 DEF Rejoin, LinkTypeOK, Supervisors

LEMMA LinkInitTypeOK == LinkInit => LinkTypeOK
<1> SUFFICES ASSUME LinkInit PROVE LinkTypeOK
  OBVIOUS
<1>1. supervisor \in Supervisors
  BY Bounds DEF LinkInit, Supervisors
<1>2. BackoffMax \in 0..BackoffMax /\ rejoins \in 0..1
  BY Timers DEF LinkInit
<1>3. QED BY <1>1, <1>2 DEF LinkInit, LinkTypeOK, Supervisors

LEMMA LinkNextTypeOK == LinkTypeOK /\ [LinkNext]_linkVars => LinkTypeOK'
<1> SUFFICES ASSUME LinkTypeOK, [LinkNext]_linkVars PROVE LinkTypeOK'
  OBVIOUS
<1>0. supervisor \in Supervisors
  BY DEF LinkTypeOK, Supervisors
<1>1. CASE NetworkChanges \/ LinkChanges \/ ReplyArrives \/ GatewayHeard
  BY <1>1 DEF NetworkChanges, LinkChanges, ReplyArrives, GatewayHeard, LinkTypeOK
<1>2. CASE Tick
  <2>1. \A t \in 0..LongestTimer : Max2(t - 1, 0) \in 0..LongestTimer
    BY Timers DEF Max2
  <2>2. supervisor' \in Supervisors
    BY <1>0, <1>2, <2>1 DEF Tick, Supervisors
  <2>3. since' \in 0..BackoffMax
    BY <1>2, Timers DEF Tick, LinkTypeOK, Min2
  <2>4. QED BY <1>2, <2>2, <2>3 DEF Tick, LinkTypeOK, Supervisors
<1>3. CASE ProbeStarts
  <2> DEFINE healthy == [supervisor EXCEPT !.tripped = FALSE, !.backoff = BackoffMin]
  <2>1. [supervisor EXCEPT !.tripped = FALSE] \in Supervisors
    BY <1>0, Updates
  <2>2. ResetProbe(healthy) \in Supervisors
    BY <2>1, Updates, Bounds, ResetKeepsType
  <2>3. supervisor' \in Supervisors
    BY <1>0, <1>3, <2>2, ScheduleKeepsType, Timers DEF ProbeStarts
  <2>4. QED BY <1>3, <2>3 DEF ProbeStarts, LinkTypeOK, Supervisors
<1>4. CASE ProbeAnswered
  <2>1. [supervisor EXCEPT !.failures = 0] \in Supervisors
    BY <1>0, Updates, Bounds
  <2>2. supervisor' \in Supervisors
    BY <1>4, <2>1, ScheduleKeepsType, Timers DEF ProbeAnswered
  <2>3. QED BY <1>4, <2>2 DEF ProbeAnswered, LinkTypeOK, Supervisors
<1>5. CASE ProbeUnanswered
  <2>1. supervisor.failures + 1 \in 0..ProbeFailures
    BY <1>0, <1>5, Timers DEF ProbeUnanswered, Supervisors
  <2>2. [supervisor EXCEPT !.failures = supervisor.failures + 1] \in Supervisors
    BY <1>0, <2>1, Updates
  <2>3. supervisor' \in Supervisors
    BY <1>5, <2>2, ScheduleKeepsType, Timers DEF ProbeUnanswered
  <2>4. QED BY <1>5, <2>3 DEF ProbeUnanswered, LinkTypeOK, Supervisors
<1>6. CASE DeclareDead
  <2>1. ResetProbe([supervisor EXCEPT !.backoff = BackoffMin]) \in Supervisors
    BY <1>0, Updates, ResetKeepsType, Bounds
  <2>2. QED BY <1>6, <2>1, RejoinTypeOK DEF DeclareDead
<1>7. CASE Trip
  <2>1. supervisor' \in Supervisors
    BY <1>0, <1>7, TripKeepsType, Bounds DEF Trip
  <2>2. QED BY <1>7, <2>1 DEF Trip, LinkTypeOK, Supervisors
<1>8. CASE RejoinDue
  BY <1>0, <1>8, RejoinTypeOK DEF RejoinDue
<1>9. CASE ProbeSent
  <2>1. supervisor' \in Supervisors
    BY <1>0, <1>9, Timers DEF ProbeSent, Supervisors
  <2>2. QED BY <1>9, <2>1 DEF ProbeSent, LinkTypeOK, Supervisors
<1>10. CASE ProbeNotSent
  <2>1. supervisor' \in Supervisors
    BY <1>0, <1>10, Timers DEF ProbeNotSent, Schedule, Supervisors
  <2>2. QED BY <1>10, <2>1 DEF ProbeNotSent, LinkTypeOK, Supervisors
<1>11. CASE UNCHANGED linkVars
  BY <1>11 DEF linkVars, LinkTypeOK
<1>12. QED
  BY <1>1, <1>2, <1>3, <1>4, <1>5, <1>6, <1>7, <1>8, <1>9, <1>10, <1>11
  DEF LinkNext, Supervise

(* Every variable of the supervisor keeps its type; in particular the      *)
(* back-off never passes its limit.                                        *)
THEOREM LinkTypeCorrect == LinkSpec => []LinkTypeOK
BY LinkInitTypeOK, LinkNextTypeOK, PTL DEF LinkSpec

----------------------------------------------------------------------------
(* The distance between two attempts.  A rejoin needs a timer to have run  *)
(* out since the last one: the grace period or the backoff while the       *)
(* supervisor is tripped, the probe's interval while it is not.            *)

Shortest == Min2(Grace, BackoffMin)

Spaced ==
    /\ supervisor.tripped => since + supervisor.rejoinIn >= Shortest
    /\ ~supervisor.tripped /\ supervisor.probe = "scheduled" =>
          since + supervisor.probeIn >= Shortest
    /\ ~supervisor.tripped /\ supervisor.probe = "inflight" => since >= Shortest
    /\ wrongKey => /\ link # "up" /\ supervisor.tripped
                   /\ since + supervisor.rejoinIn >= BackoffMax

LEMMA ShortestFits ==
    /\ Shortest \in Nat /\ Shortest <= Grace /\ Shortest <= BackoffMin
    /\ Shortest <= BackoffMax /\ Shortest <= ProbeInterval
BY LinkAssumption DEF Shortest, Min2

\* what a rejoin leaves behind
LEMMA RejoinSpaces ==
    ASSUME LinkTypeOK, NEW s \in Supervisors, Rejoin(s)
    PROVE  Spaced'
<1> DEFINE b == IF link = "badauth" THEN BackoffMax ELSE s.backoff
<1>1. supervisor'.tripped = TRUE /\ supervisor'.rejoinIn = b
  BY DEF Rejoin, ResetProbe, Supervisors
<1>2. b >= BackoffMin /\ b \in Nat
  BY Timers DEF Supervisors
<1>3. since' = 0 /\ link' = "down" /\ wrongKey' = (link = "badauth")
  BY DEF Rejoin
<1>4. since' + supervisor'.rejoinIn = b
  BY <1>1, <1>2, <1>3
<1>5. b >= Shortest
  BY <1>2, ShortestFits, Timers
<1>6. wrongKey' => b >= BackoffMax
  <2> SUFFICES ASSUME wrongKey' PROVE b >= BackoffMax
    OBVIOUS
  <2>1. link = "badauth"
    BY <1>3, Zenon
  <2>2. QED BY <2>1, Timers
<1>7. QED
  BY <1>1, <1>3, <1>4, <1>5, <1>6 DEF Spaced, Shortest

LEMMA NextSpaced == LinkTypeOK /\ Spaced /\ [LinkNext]_linkVars => Spaced'
<1> SUFFICES ASSUME LinkTypeOK, Spaced, [LinkNext]_linkVars PROVE Spaced'
  OBVIOUS
<1>0. /\ supervisor \in Supervisors /\ since \in 0..BackoffMax
      /\ Shortest' = Shortest
  BY DEF LinkTypeOK, Supervisors, Shortest
<1>1. CASE NetworkChanges \/ ReplyArrives \/ GatewayHeard
  BY <1>1 DEF NetworkChanges, ReplyArrives, GatewayHeard, Spaced, Shortest
<1>2. CASE LinkChanges
  BY <1>2 DEF LinkChanges, LinkTypeOK, Spaced, Shortest
<1>3. CASE Tick
  <2> DEFINE s == supervisor
  <2>1. /\ supervisor'.tripped = s.tripped /\ supervisor'.probe = s.probe
        /\ supervisor'.rejoinIn = Max2(s.rejoinIn - 1, 0)
        /\ supervisor'.probeIn = Max2(s.probeIn - 1, 0)
        /\ since' = Min2(since + 1, BackoffMax)
        /\ wrongKey' = wrongKey /\ link' = link
    BY <1>0, <1>3 DEF Tick, Supervisors
  <2>2. ASSUME NEW t \in Nat, NEW bound \in Nat, bound <= BackoffMax, since + t >= bound
        PROVE  Min2(since + 1, BackoffMax) + Max2(t - 1, 0) >= bound
    BY <1>0, <2>2, Timers DEF Min2, Max2
  <2>3. s.rejoinIn \in Nat /\ s.probeIn \in Nat
    BY <1>0, Timers DEF Supervisors
  <2>4. since' >= since
    BY <1>0, <2>1, Timers DEF Min2
  <2>5. supervisor'.tripped => since' + supervisor'.rejoinIn >= Shortest
    BY <2>1, <2>2, <2>3, ShortestFits DEF Spaced
  <2>6. ~supervisor'.tripped /\ supervisor'.probe = "scheduled" =>
          since' + supervisor'.probeIn >= Shortest
    BY <2>1, <2>2, <2>3, ShortestFits DEF Spaced
  <2>7. ~supervisor'.tripped /\ supervisor'.probe = "inflight" => since' >= Shortest
    <3>1. since' \in Int
      BY <1>0, <2>1, Timers DEF Min2
    <3>2. QED BY <1>0, <2>1, <2>4, <3>1, ShortestFits DEF Spaced
  <2>8. wrongKey' => since' + supervisor'.rejoinIn >= BackoffMax
    BY <2>1, <2>2, <2>3, Timers DEF Spaced
  <2>9. QED BY <1>0, <2>1, <2>5, <2>6, <2>7, <2>8 DEF Spaced
<1>4. CASE ProbeStarts
  <2>1. /\ supervisor'.probe = "scheduled" /\ supervisor'.probeIn = ProbeInterval
        /\ ~supervisor'.tripped
    BY <1>0, <1>4 DEF ProbeStarts, Schedule, ResetProbe, Supervisors
  <2>2. since' + supervisor'.probeIn >= Shortest
    BY <1>0, <1>4, <2>1, ShortestFits, LinkAssumption DEF ProbeStarts
  <2>3. ~wrongKey'
    BY <1>4 DEF ProbeStarts, Spaced
  <2>4. QED BY <1>0, <2>1, <2>2, <2>3 DEF Spaced
<1>5. CASE ProbeAnswered
  <2>1. /\ supervisor'.probe = "scheduled" /\ supervisor'.probeIn = ProbeInterval
        /\ ~supervisor'.tripped /\ since' = since /\ ~wrongKey'
    BY <1>0, <1>5 DEF ProbeAnswered, Probing, Schedule, Supervisors, Spaced
  <2>2. since' + supervisor'.probeIn >= Shortest
    BY <1>0, <2>1, ShortestFits, LinkAssumption
  <2>3. QED BY <1>0, <2>1, <2>2 DEF Spaced
<1>6. CASE ProbeUnanswered
  <2>1. /\ supervisor'.probe = "scheduled" /\ supervisor'.probeIn = ProbeRetry
        /\ ~supervisor'.tripped /\ since' = since /\ ~wrongKey'
    BY <1>0, <1>6 DEF ProbeUnanswered, Unanswered, Probing, Schedule, Supervisors, Spaced
  <2>2. since' + supervisor'.probeIn >= Shortest
    BY <1>0, <1>6, <2>1, ShortestFits, LinkAssumption
    DEF ProbeUnanswered, Unanswered, Probing, Spaced
  <2>3. QED BY <1>0, <2>1, <2>2 DEF Spaced
<1>7. CASE DeclareDead
  <2>1. ResetProbe([supervisor EXCEPT !.backoff = BackoffMin]) \in Supervisors
    BY <1>0, Updates, ResetKeepsType, Bounds
  <2>2. QED BY <1>7, <2>1, RejoinSpaces DEF DeclareDead
<1>8. CASE Trip
  <2>1. /\ supervisor'.tripped = TRUE /\ supervisor'.rejoinIn = Grace
        /\ since' = since /\ ~wrongKey'
    BY <1>0, <1>8 DEF Trip, Supervisors, Spaced
  <2>2. since' + supervisor'.rejoinIn >= Shortest
    BY <1>0, <2>1, ShortestFits, Timers
  <2>3. QED BY <1>0, <2>1, <2>2 DEF Spaced
<1>9. CASE RejoinDue
  BY <1>0, <1>9, RejoinSpaces DEF RejoinDue
<1>10. CASE ProbeSent
  <2>1. since >= Shortest
    BY <1>0, <1>10, ShortestFits DEF ProbeSent, Probing, Spaced
  <2>2. /\ supervisor'.probe = "inflight" /\ ~supervisor'.tripped
        /\ since' = since /\ ~wrongKey'
    BY <1>0, <1>10 DEF ProbeSent, Probing, Supervisors, Spaced
  <2>3. QED BY <1>0, <2>1, <2>2 DEF Spaced
<1>11. CASE ProbeNotSent
  <2>1. since >= Shortest
    BY <1>0, <1>11, ShortestFits DEF ProbeNotSent, Probing, Spaced
  <2>2. /\ supervisor'.probe = "scheduled" /\ supervisor'.probeIn = ProbeRetry
        /\ ~supervisor'.tripped /\ since' = since /\ ~wrongKey'
    BY <1>0, <1>11 DEF ProbeNotSent, Probing, Schedule, Supervisors, Spaced
  <2>3. since' + supervisor'.probeIn >= Shortest
    BY <1>0, <2>1, <2>2, ShortestFits, LinkAssumption
  <2>4. QED BY <1>0, <2>2, <2>3 DEF Spaced
<1>12. CASE UNCHANGED linkVars
  BY <1>12 DEF linkVars, Spaced, Shortest
<1>13. QED
  BY <1>1, <1>2, <1>3, <1>4, <1>5, <1>6, <1>7, <1>8, <1>9, <1>10, <1>11, <1>12
  DEF LinkNext, Supervise

\* A step that rejoins finds the distance kept.
LEMMA SpacedRejoins ==
    ASSUME LinkTypeOK, Spaced, [LinkNext]_linkVars, rejoins' # rejoins
    PROVE  since >= IF wrongKey /\ link = "badauth" THEN BackoffMax
                    ELSE Min2(Grace, BackoffMin)
<1>0. supervisor \in Supervisors /\ since \in 0..BackoffMax
  BY DEF LinkTypeOK, Supervisors
<1>1. DeclareDead \/ RejoinDue
  BY DEF LinkNext, Supervise, NetworkChanges, LinkChanges, ReplyArrives, GatewayHeard,
         Tick, ProbeStarts, ProbeAnswered, ProbeUnanswered, Trip, ProbeSent,
         ProbeNotSent, linkVars
<1>2. CASE DeclareDead
  BY <1>0, <1>2, ShortestFits DEF DeclareDead, Unanswered, Probing, Spaced, Shortest
<1>3. CASE RejoinDue
  BY <1>0, <1>3, ShortestFits, Timers DEF RejoinDue, Spaced, Shortest
<1>4. QED BY <1>1, <1>2, <1>3

(* For all timers, whatever link and network do in between, two attempts   *)
(* keep the shorter of grace period and first backoff apart, and those of  *)
(* a wrong key the longest one.                                            *)
THEOREM RejoinsKeepDistance == LinkSpec => RejoinSpaced
<1>1. LinkInit => Spaced
  <2> SUFFICES ASSUME LinkInit PROVE Spaced
    OBVIOUS
  <2>1. ~supervisor.tripped /\ supervisor.probe = "none" /\ ~wrongKey
    BY DEF LinkInit
  <2>2. QED BY <2>1 DEF Spaced
<1>2. LinkTypeOK /\ Spaced /\ [LinkNext]_linkVars =>
        [rejoins' # rejoins =>
           since >= IF wrongKey /\ link = "badauth" THEN BackoffMax
                    ELSE Min2(Grace, BackoffMin)]_linkVars
  BY SpacedRejoins
<1>3. QED
  BY <1>1, <1>2, NextSpaced, LinkInitTypeOK, LinkNextTypeOK, PTL
  DEF LinkSpec, RejoinSpaced

----------------------------------------------------------------------------
(* Joining at boot.                                                        *)

\* An attempt that is about to begin is within the limit.
AttemptsLeft == boot.at = "begin" => boot.attempt < MaxAttempts

WifiInv == WifiTypeOK /\ AttemptsLeft /\ ShownIsOurs

Boots ==
    [at : {"begin", "turn", "poll", "done"}, attempt : 0..MaxAttempts,
     time : 0..Timeout, nextStatus : 0..(Timeout + Interval),
     status : {"disconnected", "joining", "noip", "ip", "failed"},
     err : {"timeout", "error", "ok"}]

\* Of the boot of the Wi-Fi.
LEMMA WifiInitInv == WifiInit => WifiInv
<1> SUFFICES ASSUME WifiInit PROVE WifiInv
  OBVIOUS
<1>1. 0 \in 0..MaxAttempts /\ 0 \in 0..Timeout /\ 0 \in 0..(Timeout + Interval)
      /\ 0 < MaxAttempts
  BY WifiAssumption
<1>2. boot \in Boots
  BY <1>1 DEF WifiInit, Boots
<1>3. WifiTypeOK
  BY <1>2 DEF WifiInit, WifiTypeOK, Addresses, Disconnected, Boots
<1>4. QED BY <1>1, <1>3 DEF WifiInit, WifiInv, AttemptsLeft, ShownIsOurs, Disconnected

\* A join, at boot or later, leaves the address, the link and what is shown in
\* their types and in step with each other.
LEMMA BeginConnectShows ==
    ASSUME WifiInv, NEW fails \in BOOLEAN, BeginConnect(fails)
    PROVE  /\ config' \in [static : BOOLEAN, ssid : BOOLEAN]
           /\ join' \in {"down", "joining", "joined", "failed"}
           /\ linkUp' \in BOOLEAN /\ addr' \in Addresses
           /\ shown' \in [status : {"disconnected", "joining", "noip", "ip", "failed"},
                          ip : Addresses]
           /\ ShownIsOurs'
BY DEF BeginConnect, WifiInv, WifiTypeOK, Addresses, Disconnected, StatusCallback, ShownIsOurs

\* One case for each step of wifi_init and its polling loop.
LEMMA WifiStepInv == WifiInv /\ [WifiNext]_wifiVars => WifiInv'
<1> SUFFICES ASSUME WifiInv, [WifiNext]_wifiVars PROVE WifiInv'
  OBVIOUS
<1>0. WifiTypeOK /\ boot \in Boots /\ {MaxAttempts, Timeout, Interval} \subseteq Nat \ {0}
  BY WifiAssumption DEF WifiInv, WifiTypeOK, Boots
<1>1. CASE ConnectAttempt
  <2>1. boot.attempt + 1 \in 0..MaxAttempts /\ 0 \in 0..Timeout
        /\ Interval \in 0..(Timeout + Interval)
    BY <1>0, <1>1 DEF ConnectAttempt, WifiInv, AttemptsLeft, Boots
  <2>2. boot' \in Boots /\ boot'.at # "begin"
    <3>1. \/ boot' = [boot EXCEPT !.at = "turn", !.attempt = boot.attempt + 1, !.time = 0,
                                  !.nextStatus = Interval]
          \/ boot' = [boot EXCEPT !.at = "done", !.attempt = boot.attempt + 1, !.err = "error"]
      BY <1>1 DEF ConnectAttempt
    <3>2. QED BY <1>0, <2>1, <3>1 DEF Boots
  <2>3. QED
    BY <1>1, <2>2, BeginConnectShows
       DEF ConnectAttempt, WifiInv, WifiTypeOK, AttemptsLeft, Boots
<1>2. CASE ReadStatus
  <2>1. LinkStatus \in {"disconnected", "joining", "noip", "ip", "failed"}
    BY DEF LinkStatus
  <2>2. boot.time + Interval \in 0..(Timeout + Interval)
    BY <1>0 DEF Boots
  <2>3. boot' \in Boots /\ boot'.at = "poll"
    BY <1>0, <1>2, <2>1, <2>2, ZenonT(30) DEF ReadStatus, Boots, WifiTypeOK
  <2>4. shown' \in [status : {"disconnected", "joining", "noip", "ip", "failed"},
                    ip : Addresses]
        /\ shown'.ip = shown.ip
    BY <1>0, <1>2, <2>1 DEF ReadStatus, WifiTypeOK
  <2>5. QED
    BY <1>2, <2>3, <2>4
       DEF ReadStatus, WifiInv, WifiTypeOK, AttemptsLeft, ShownIsOurs, Boots
<1>3. CASE TurnEnds
  <2>1. PICK time \in boot.time..Timeout :
            boot' = IF boot.status = "ip" \/ time = Timeout THEN AttemptEnds(time)
                    ELSE [boot EXCEPT !.at = "turn", !.time = time]
    BY <1>3 DEF TurnEnds
  <2>2. time \in 0..Timeout
    BY <1>0 DEF Boots
  <2>3. boot' \in Boots /\ AttemptsLeft'
    BY <1>0, <2>1, <2>2 DEF AttemptEnds, AttemptsLeft, Boots
  <2>4. QED BY <1>3, <2>3 DEF TurnEnds, WifiInv, WifiTypeOK, ShownIsOurs, Boots
<1>4. CASE RejoinBegins
  BY <1>0, <1>4, BeginConnectShows DEF RejoinBegins, WifiInv, WifiTypeOK, AttemptsLeft
<1>5. CASE Joins
  BY <1>5, ZenonT(30) DEF Joins, LinkCallback, WifiInv, WifiTypeOK, AttemptsLeft, ShownIsOurs
<1>6. CASE LinkDrops
  BY <1>6, ZenonT(30) DEF LinkDrops, LinkCallback, Disconnected, Addresses, WifiInv, WifiTypeOK,
              AttemptsLeft, ShownIsOurs
<1>7. CASE LeaseChanges
  BY <1>7 DEF LeaseChanges, StatusCallback, Addresses, WifiInv, WifiTypeOK, AttemptsLeft,
              ShownIsOurs
<1>8. CASE UNCHANGED wifiVars
  BY <1>8 DEF wifiVars, WifiInv, WifiTypeOK, AttemptsLeft, ShownIsOurs
<1>9. QED
  BY <1>1, <1>2, <1>3, <1>4, <1>5, <1>6, <1>7, <1>8 DEF WifiNext

(* Every variable keeps its type; in particular no attempt at boot begins  *)
(* beyond the number emul_start allows.                                    *)
THEOREM WifiTypeCorrect == WifiSpec => []WifiTypeOK
<1>1. WifiInv => WifiTypeOK
  BY DEF WifiInv
<1>2. QED BY <1>1, WifiInitInv, WifiStepInv, PTL DEF WifiSpec

(* For every limit on the attempts, every timeout and every interval of    *)
(* polling: an address the menu shows is the one the interface has, over a *)
(* link that is up unless it is a static one, whatever the order of joins, *)
(* callbacks and polls.                                                    *)
THEOREM ShownIsOursHolds == WifiSpec => []ShownIsOurs
<1>1. WifiInv => ShownIsOurs
  BY DEF WifiInv
<1>2. QED BY <1>1, WifiInitInv, WifiStepInv, PTL DEF WifiSpec

----------------------------------------------------------------------------
(* AdvLoad.                                                                *)

\* The connection in the wait is still loading; a connection outside it has
\* room in its chunk and in its load; a chunk is never larger than the load.
Staged ==
    /\ waiting # "none" => loads[waiting].state = "load" /\ loads[waiting].pos > 0
    /\ \A c \in Loading :
        /\ loads[c].pos <= loads[c].received
        /\ c # waiting => loads[c].pos < Chunk /\ loads[c].received < Total

\* The target the ST works with, and the one it may take up, are real.
Targeted ==
    /\ sentinel => slots.of \in Loaders
    /\ hook = "copy" => latched.of \in Loaders
    /\ frames.now + frames.old <= MaxFrames

\* The facts LoadTypeOK needs to be kept.
LoadKept == LoadTypeOK /\ Staged /\ Targeted

\* One load at a time, and one report of it.
Alone ==
    /\ \A c, d \in Loading : c = d
    /\ frames.old = 0 /\ frames.now <= 1
    /\ frames.now = 1 => hook = "report" /\ left = Retries
    /\ hook = "report" => left \in {Retries, Retries + 1}
    /\ hook = "answered" => left = Retries

\* While a connection waits, the shared variables hold its chunk, and the hook
\* has not reported it before it is acknowledged; nobody waits: nothing is posted.
Posted ==
    /\ waiting = "none" => ~sentinel /\ hook \in {"idle", "answered"}
    /\ waiting # "none" =>
        /\ slots = [of |-> waiting, len |-> loads[waiting].pos,
                    at |-> loads[waiting].received - loads[waiting].pos]
        /\ sentinel <=> ~runnerAdvLoadAcked
        /\ runnerAdvLoadAcked => hook \in {"idle", "answered"}
    /\ hook = "copy" => latched = slots

\* The hook has copied the chunk of connection c that is posted.
Copied(c) == waiting = c /\ (hook = "report" \/ runnerAdvLoadAcked)

\* What a load has received is in the staging buffer, or in its place.
Landed ==
    \A c \in Loading :
        /\ \A j \in 0..(Chunk - 1) : j < loads[c].pos
             => staging[j] = [of |-> c, at |-> loads[c].received - loads[c].pos + j]
        /\ \A i \in 0..(Total - 1) :
             i < loads[c].received - loads[c].pos \/ (i < loads[c].received /\ Copied(c))
             => ram[c][i] = [of |-> c, at |-> i]

LoadInv == causes = {} => Alone /\ Posted /\ Landed

\* The connections, the buffers and the hook have their types.
LoadValues ==
    /\ loads \in [Loaders -> [state : {"idle", "load", "done", "failed"},
                              received : 0..Total, pos : 0..Chunk]]
    /\ waiting \in Loaders \cup {"none"}
    /\ staging \in [0..(Chunk - 1) -> Bytes]
    /\ slots \in Targets /\ latched \in Targets
    /\ hook \in {"idle", "copy", "report", "answered"} /\ left \in 0..(Retries + 1)
    /\ frames \in [now : 0..MaxFrames, old : 0..MaxFrames]
    /\ ram \in [Loaders -> [0..(Total - 1) -> Bytes]]
    /\ begun \in 0..MaxLoads

\* So have the flags and the history.
LoadFlags ==
    /\ sentinel \in BOOLEAN /\ runnerAdvLoadAcked \in BOOLEAN
    /\ causes \subseteq {"overlap", "given up", "repeated", "mistaken"}

\* The bounds are natural numbers, and no connection is called none.
LEMMA LoadBounds ==
    /\ Chunk \in Nat /\ Chunk > 0 /\ Total \in Nat /\ Total > 0
    /\ Retries \in Nat /\ Retries > 0 /\ MaxFrames \in Nat /\ MaxLoads \in Nat
    /\ "none" \notin Loaders
BY LoadAssumption

LEMMA LoadInitKept == LoadInit => LoadKept
<1> SUFFICES ASSUME LoadInit PROVE LoadKept
  OBVIOUS
<1>1. LoadValues
  BY LoadBounds DEF LoadInit, LoadValues, Bytes, Targets, NoByte, NoTarget
<1>2. LoadFlags
  BY Zenon DEF LoadInit, LoadFlags
<1>3. Staged
  BY DEF LoadInit, Staged, Loading
<1>4. Targeted
  BY LoadBounds DEF LoadInit, Targeted
<1>5. QED BY <1>1, <1>2, <1>3, <1>4 DEF LoadKept, LoadTypeOK, LoadValues, LoadFlags

\* The flags keep their types.
LEMMA FlagsKept == LoadKept /\ [LoadNext]_loadVars => LoadFlags'
<1> SUFFICES ASSUME LoadFlags, [LoadNext]_loadVars PROVE LoadFlags'
  BY DEF LoadKept, LoadTypeOK, LoadFlags
<1>1. ASSUME NEW c \in Loaders, BeginLoad(c) PROVE LoadFlags'
  BY <1>1, Zenon DEF BeginLoad, LoadFlags
<1>2. ASSUME NEW c \in Loaders, StageByte(c) PROVE LoadFlags'
  BY <1>2, Zenon DEF StageByte, LoadFlags, Dispatch
<1>3. ASSUME NEW c \in Loaders, LoadAborted(c) PROVE LoadFlags'
  BY <1>3, Zenon DEF LoadAborted, LoadFlags
<1>4. CASE ChunkAcked
  BY <1>4, Zenon DEF ChunkAcked, LoadFlags
<1>5. CASE ChunkTimesOut
  BY <1>5, Zenon DEF ChunkTimesOut, LoadFlags
<1>6. ASSUME NEW which \in {"now", "old"}, DoneLoadChunk(which) PROVE LoadFlags'
  BY <1>6, Zenon DEF DoneLoadChunk, LoadFlags
<1>7. CASE HookStarts \/ HookCopies \/ HookReturns \/ HookTakesAnother
  BY <1>7, Zenon DEF HookStarts, HookCopies, HookReturns, HookTakesAnother, HookEnds, LoadFlags
<1>8. CASE HookReports
  BY <1>8, Zenon DEF HookReports, LoadFlags
<1>9. CASE UNCHANGED loadVars
  BY <1>9, Zenon DEF loadVars, LoadFlags
<1>10. QED BY <1>1, <1>2, <1>3, <1>4, <1>5, <1>6, <1>7, <1>8, <1>9 DEF LoadNext

\* A step keeps the types, the room in a chunk, and the targets.
LEMMA LoadKeptStep == LoadKept /\ [LoadNext]_loadVars => LoadKept'
<1> SUFFICES ASSUME LoadKept, [LoadNext]_loadVars PROVE LoadKept'
  OBVIOUS
<1>f. LoadFlags'
  BY FlagsKept
<1>v. LoadValues /\ LoadFlags /\ Staged /\ Targeted
  BY DEF LoadKept, LoadTypeOK, LoadValues, LoadFlags
<1>s. SUFFICES LoadValues' /\ Staged' /\ Targeted'
  BY <1>f DEF LoadKept, LoadTypeOK, LoadValues, LoadFlags
<1> USE LoadBounds, <1>v
<1>1. ASSUME NEW c \in Loaders, BeginLoad(c) PROVE LoadValues' /\ Staged' /\ Targeted'
  <2>1. LoadValues'
    BY <1>1 DEF BeginLoad, LoadValues, Bytes, NoByte
  <2>2. Staged'
    BY <1>1 DEF BeginLoad, LoadValues, Staged, Loading
  <2>3. QED BY <1>1, <2>1, <2>2 DEF BeginLoad, Targeted
<1>2. ASSUME NEW c \in Loaders, StageByte(c) PROVE LoadValues' /\ Staged' /\ Targeted'
  <2> DEFINE p == loads[c].pos
             r == loads[c].received
  <2>1. /\ waiting = "none" /\ loads[c].state = "load" /\ c \in Loading
        /\ p \in 0..Chunk /\ r \in 0..Total /\ p < Chunk /\ r < Total /\ p <= r
    BY <1>2 DEF StageByte, Loading, LoadValues, Staged
  <2>2. /\ loads' = [loads EXCEPT ![c].received = r + 1, ![c].pos = p + 1]
        /\ staging' = [staging EXCEPT ![p] = [of |-> c, at |-> r]]
        /\ UNCHANGED <<frames, begun, causes, hook, latched, left, ram>>
    BY <1>2 DEF StageByte, stVars
  <2>3. /\ loads'[c] = [state |-> "load", received |-> r + 1, pos |-> p + 1]
        /\ \A d \in Loaders \ {c} : loads'[d] = loads[d]
    BY <2>1, <2>2 DEF LoadValues
  <2>4. \/ /\ p + 1 = Chunk \/ r + 1 = Total
           /\ waiting' = c /\ sentinel'
           /\ slots' = [of |-> c, at |-> (r + 1) - (p + 1), len |-> p + 1]
        \/ /\ p + 1 # Chunk /\ r + 1 # Total
           /\ UNCHANGED <<waiting, slots, sentinel, runnerAdvLoadAcked>>
    BY <1>2, Zenon DEF StageByte, Dispatch
  <2> HIDE DEF p, r
  <2>5. LoadValues'
    <3>1. (r + 1) - (p + 1) \in 0..(Total - 1) /\ p + 1 \in 1..Chunk /\ r + 1 \in 0..Total
      BY <2>1
    <3>2. loads' \in [Loaders -> [state : {"idle", "load", "done", "failed"},
                                 received : 0..Total, pos : 0..Chunk]]
      <4>1. DOMAIN loads' = Loaders /\ loads' = [d \in Loaders |-> loads'[d]]
        BY <2>2 DEF LoadValues
      <4>2. \A d \in Loaders :
              loads'[d] \in [state : {"idle", "load", "done", "failed"},
                             received : 0..Total, pos : 0..Chunk]
        <5>1. loads'[c] \in [state : {"idle", "load", "done", "failed"},
                             received : 0..Total, pos : 0..Chunk]
          BY <2>3, <3>1
        <5>2. QED BY <2>3, <5>1 DEF LoadValues
      <4>3. QED BY <4>1, <4>2
    <3>3. waiting' \in Loaders \cup {"none"} /\ slots' \in Targets
      BY <2>4, <3>1 DEF LoadValues, Targets
    <3>4. staging' \in [0..(Chunk - 1) -> Bytes]
      BY <2>1, <2>2, SMTT(30) DEF LoadValues, Bytes
    <3>5. QED BY <2>2, <3>2, <3>3, <3>4 DEF LoadValues
  <2>6. Staged'
    <3>1. waiting' # "none" => waiting' = c
      BY <2>1, <2>4
    <3>2. \A d \in Loading' : d # c => d \in Loading /\ d # waiting /\ loads'[d] = loads[d]
      BY <2>1, <2>3 DEF Loading
    <3>3. c # waiting' => p + 1 < Chunk /\ r + 1 < Total
      BY <2>1, <2>4
    <3>4. QED BY <2>1, <2>3, <3>1, <3>2, <3>3 DEF Staged, Loading
  <2>7. Targeted'
    BY <2>1, <2>2, <2>4 DEF Targeted
  <2>8. QED BY <2>5, <2>6, <2>7
<1>3. ASSUME NEW c \in Loaders, LoadAborted(c) PROVE LoadValues' /\ Staged' /\ Targeted'
  BY <1>3 DEF LoadAborted, LoadValues, Staged, Loading, Targeted, stVars
<1>4. CASE ChunkAcked
  <2>1. /\ waiting \in Loaders /\ waiting' = "none"
        /\ UNCHANGED <<staging, slots, sentinel, frames, begun, hook, latched, left, ram>>
    BY <1>4 DEF ChunkAcked, LoadValues, stVars
  <2>2. PICK s \in {"done", "load"} :
          /\ loads' = [loads EXCEPT ![waiting].pos = 0, ![waiting].state = s]
          /\ s = IF loads[waiting].received = Total THEN "done" ELSE "load"
    BY <1>4 DEF ChunkAcked
  <2>3. LoadValues'
    <3>1. loads' \in [Loaders -> [state : {"idle", "load", "done", "failed"},
                                 received : 0..Total, pos : 0..Chunk]]
      <4>1. DOMAIN loads' = Loaders /\ loads' = [d \in Loaders |-> loads'[d]]
        BY <2>2 DEF LoadValues
      <4>2. \A d \in Loaders :
              loads'[d] \in [state : {"idle", "load", "done", "failed"},
                             received : 0..Total, pos : 0..Chunk]
        <5>1. loads[waiting] \in [state : {"idle", "load", "done", "failed"},
                                  received : 0..Total, pos : 0..Chunk]
          BY <2>1 DEF LoadValues
        <5>2. loads'[waiting] = [state |-> s, received |-> loads[waiting].received, pos |-> 0]
          BY <2>1, <2>2, <5>1 DEF LoadValues
        <5>3. loads'[waiting] \in [state : {"idle", "load", "done", "failed"},
                                   received : 0..Total, pos : 0..Chunk]
          BY <5>1, <5>2
        <5>4. \A d \in Loaders \ {waiting} : loads'[d] = loads[d]
          BY <2>2 DEF LoadValues
        <5>5. QED BY <5>3, <5>4 DEF LoadValues
      <4>3. QED BY <4>1, <4>2
    <3>2. QED BY <2>1, <3>1 DEF LoadValues
  <2>4. Staged'
    BY <2>1, <2>2, SMTT(30) DEF Staged, Loading, LoadValues
  <2>5. QED BY <2>1, <2>3, <2>4 DEF Targeted
<1>5. CASE ChunkTimesOut
  BY <1>5 DEF ChunkTimesOut, LoadValues, Staged, Loading, Targeted, stVars
<1>6. ASSUME NEW which \in {"now", "old"}, DoneLoadChunk(which)
      PROVE LoadValues' /\ Staged' /\ Targeted'
  <2>1. frames' \in [now : 0..MaxFrames, old : 0..MaxFrames]
        /\ frames'.now + frames'.old <= MaxFrames
    <3>1. \/ /\ frames.now > 0 /\ frames' = [frames EXCEPT !.now = @ - 1]
          \/ /\ frames.old > 0 /\ frames' = [frames EXCEPT !.old = @ - 1]
      BY <1>6 DEF DoneLoadChunk
    <3>2. /\ frames = [now |-> frames.now, old |-> frames.old]
          /\ frames.now \in 0..MaxFrames /\ frames.old \in 0..MaxFrames
      BY DEF LoadValues
    <3>3. \/ /\ frames.now > 0
             /\ frames' = [now |-> frames.now - 1, old |-> frames.old]
          \/ /\ frames.old > 0
             /\ frames' = [now |-> frames.now, old |-> frames.old - 1]
      BY <3>1, <3>2
    <3>4. QED BY <3>2, <3>3 DEF Targeted
  <2>2. hook' \in {"answered", hook}
    BY <1>6 DEF DoneLoadChunk
  <2>3. ~sentinel' /\ UNCHANGED <<loads, waiting, staging, slots, begun, latched, left, ram>>
    BY <1>6 DEF DoneLoadChunk
  <2>4. LoadValues'
    BY <2>1, <2>2, <2>3 DEF LoadValues
  <2>5. Staged'
    BY <2>3 DEF Staged, Loading
  <2>6. QED BY <2>1, <2>2, <2>3, <2>4, <2>5 DEF Targeted
<1>7. CASE HookStarts
  BY <1>7 DEF HookStarts, LoadValues, Staged, Loading, Targeted
<1>8. CASE HookCopies
  <2>1. latched.of \in Loaders /\ latched \in Targets /\ latched # NoTarget
    BY <1>8 DEF HookCopies, Targeted, LoadValues, NoTarget
  <2>2. /\ latched.at \in 0..(Total - 1) /\ latched.len \in 1..Chunk
    BY <2>1 DEF Targets
  <2>3. \A i \in 0..(Total - 1) : i \in latched.at..(latched.at + latched.len - 1)
          => i - latched.at \in 0..(Chunk - 1)
    BY <2>2
  <2>4. ram' \in [Loaders -> [0..(Total - 1) -> Bytes]]
    BY <1>8, <2>1, <2>3 DEF HookCopies, LoadValues
  <2>5. QED BY <1>8, <2>4 DEF HookCopies, LoadValues, Staged, Loading, Targeted
<1>9. CASE HookReports
  <2>1. /\ frames' \in [now : 0..MaxFrames, old : 0..MaxFrames]
        /\ frames'.now + frames'.old <= MaxFrames
    <3>1. /\ frames.now + frames.old < MaxFrames
          /\ frames' = [frames EXCEPT !.now = @ + 1] \/ frames' = frames
      BY <1>9 DEF HookReports
    <3>2. /\ frames = [now |-> frames.now, old |-> frames.old]
          /\ frames.now \in 0..MaxFrames /\ frames.old \in 0..MaxFrames
      BY DEF LoadValues
    <3>3. \/ frames' = [now |-> frames.now + 1, old |-> frames.old]
          \/ frames' = [now |-> frames.now, old |-> frames.old]
      BY <3>1, <3>2
    <3>4. QED BY <3>1, <3>2, <3>3
  <2>2. QED BY <1>9, <2>1, SMTT(30) DEF HookReports, LoadValues, Staged, Loading, Targeted
<1>10. CASE HookReturns \/ HookTakesAnother
  <2>1. HookEnds
    BY <1>10 DEF HookReturns, HookTakesAnother
  <2>2. QED BY <2>1 DEF HookEnds, LoadValues, Staged, Loading, Targeted, Targets
<1>11. CASE UNCHANGED loadVars
  BY <1>11 DEF loadVars, stVars, LoadValues, Staged, Loading, Targeted
<1>12. QED BY <1>1, <1>2, <1>3, <1>4, <1>5, <1>6, <1>7, <1>8, <1>9, <1>10, <1>11 DEF LoadNext

LEMMA LoadInvInit == LoadInit => LoadInv
BY LoadBounds DEF LoadInit, LoadInv, Alone, Posted, Landed, Loading

\* What a step does while nothing has mixed the bytes of a load keeps one load
\* under way, its chunk posted, and its bytes in their place.
LEMMA LoadInvStep == LoadKept /\ LoadInv /\ [LoadNext]_loadVars => LoadInv'
<1> SUFFICES ASSUME LoadKept, LoadInv, [LoadNext]_loadVars, causes' = {} PROVE LoadInv'
  BY DEF LoadInv
<1>v. LoadValues /\ LoadFlags /\ Staged /\ Targeted
  BY DEF LoadKept, LoadTypeOK, LoadValues, LoadFlags
<1>c. causes = {}
  <2>1. causes \subseteq causes'
    BY Zenon DEF LoadNext, BeginLoad, StageByte, LoadAborted, ChunkAcked, ChunkTimesOut,
      DoneLoadChunk, HookStarts, HookCopies, HookReports, HookReturns,
      HookTakesAnother, HookEnds, loadVars
  <2>2. QED BY <2>1
<1>i. Alone /\ Posted /\ Landed
  BY <1>c DEF LoadInv
<1>s. SUFFICES Alone' /\ Posted' /\ Landed'
  BY DEF LoadInv
<1> USE LoadBounds, <1>v, <1>i
<1>1. ASSUME NEW c \in Loaders, BeginLoad(c) PROVE Alone' /\ Posted' /\ Landed'
  <2>1. Loading = {}
    BY <1>1 DEF BeginLoad
  <2>2. /\ waiting = "none" /\ loads'[c] = [state |-> "load", received |-> 0, pos |-> 0]
        /\ \A d \in Loaders \ {c} : loads'[d] = loads[d]
        /\ UNCHANGED <<waiting, slots, sentinel, runnerAdvLoadAcked, frames, hook, left, latched>>
    BY <1>1 DEF BeginLoad, LoadValues
  <2>3. Loading' = {c}
    BY <2>1, <2>2 DEF Loading
  <2>4. Alone'
    BY <2>2, <2>3 DEF Alone
  <2>5. Posted'
    BY <2>2 DEF Posted
  <2>6. Landed'
    BY <2>2, <2>3 DEF Landed, Copied
  <2>7. QED BY <2>4, <2>5, <2>6
<1>2. ASSUME NEW c \in Loaders, StageByte(c) PROVE Alone' /\ Posted' /\ Landed'
  <2> DEFINE p == loads[c].pos
             r == loads[c].received
  <2>1. /\ waiting = "none" /\ loads[c].state = "load" /\ c \in Loading
        /\ p \in 0..Chunk /\ r \in 0..Total /\ p < Chunk /\ r < Total /\ p <= r
    BY <1>2 DEF StageByte, Loading, LoadValues, Staged
  <2>2. /\ loads' = [loads EXCEPT ![c].received = r + 1, ![c].pos = p + 1]
        /\ staging' = [staging EXCEPT ![p] = [of |-> c, at |-> r]]
        /\ UNCHANGED <<frames, begun, causes, hook, latched, left, ram>>
    BY <1>2 DEF StageByte, stVars
  <2>3. /\ loads'[c] = [state |-> "load", received |-> r + 1, pos |-> p + 1]
        /\ \A d \in Loaders \ {c} : loads'[d] = loads[d]
    BY <2>1, <2>2 DEF LoadValues
  <2>4. \/ /\ waiting' = c /\ sentinel' /\ ~runnerAdvLoadAcked'
           /\ slots' = [of |-> c, at |-> (r + 1) - (p + 1), len |-> p + 1]
        \/ UNCHANGED <<waiting, slots, sentinel, runnerAdvLoadAcked>>
    BY <1>2, Zenon DEF StageByte, Dispatch
  <2> HIDE DEF p, r
  <2>5. Loading = {c} /\ Loading' = {c}
    BY <2>1, <2>3 DEF Alone, Loading
  <2>6. Alone'
    BY <2>2, <2>5 DEF Alone
  <2>7. hook \in {"idle", "answered"} /\ ~sentinel
    BY <2>1 DEF Posted
  <2>8. Posted'
    <3>1. CASE waiting' = c /\ sentinel' /\ ~runnerAdvLoadAcked'
           /\ slots' = [of |-> c, at |-> (r + 1) - (p + 1), len |-> p + 1]
      <4>1. slots' = [of |-> waiting', len |-> loads'[waiting'].pos,
                     at |-> loads'[waiting'].received - loads'[waiting'].pos]
        BY <3>1, <2>3
      <4>2. QED BY <3>1, <4>1, <2>2, <2>7 DEF Posted
    <3>2. CASE UNCHANGED <<waiting, slots, sentinel, runnerAdvLoadAcked>>
      BY <3>2, <2>1, <2>2, <2>7 DEF Posted
    <3>3. QED BY <2>4, <3>1, <3>2
  <2>9. Landed'
    <3>1. ~Copied(c)'
      BY <2>1, <2>2, <2>4, <2>7 DEF Copied
    <3>2. ASSUME NEW j \in 0..(Chunk - 1), j < p + 1
          PROVE staging'[j] = [of |-> c, at |-> (r + 1) - (p + 1) + j]
      <4>1. CASE j = p
        BY <4>1, <2>1, <2>2, SMTT(30) DEF LoadValues
      <4>2. CASE j # p
        <5>1. j < p
          BY <4>2, <3>2, <2>1
        <5>2. staging[j] = [of |-> c, at |-> r - p + j]
          BY <5>1, <2>1 DEF Landed, p, r
        <5>3. staging'[j] = staging[j]
          BY <4>2, <2>2 DEF LoadValues
        <5>4. QED BY <5>2, <5>3, <2>1
      <4>3. QED BY <4>1, <4>2
    <3>3. ASSUME NEW i \in 0..(Total - 1), i < (r + 1) - (p + 1)
          PROVE ram'[c][i] = [of |-> c, at |-> i]
      <4>1. i < r - p
        BY <3>3, <2>1
      <4>2. QED BY <4>1, <2>1, <2>2 DEF Landed, p, r
    <3>4. QED BY <2>3, <2>5, <3>1, <3>2, <3>3 DEF Landed
  <2>10. QED BY <2>6, <2>8, <2>9
<1>3. ASSUME NEW c \in Loaders, LoadAborted(c) PROVE Alone' /\ Posted' /\ Landed'
  <2>1. /\ waiting = "none" /\ c \notin Loading'
        /\ \A d \in Loaders \ {c} : loads'[d] = loads[d]
        /\ UNCHANGED <<waiting, staging, slots, sentinel, runnerAdvLoadAcked, frames,
                       hook, left, latched, ram>>
    BY <1>3 DEF LoadAborted, LoadValues, Loading, stVars
  <2>2. \A d \in Loading' : d \in Loading /\ loads'[d] = loads[d]
    BY <2>1 DEF Loading
  <2>3. Alone'
    BY <2>1, <2>2 DEF Alone
  <2>4. Posted'
    BY <2>1 DEF Posted
  <2>5. Landed'
    BY <2>1, <2>2 DEF Landed, Copied
  <2>6. QED BY <2>3, <2>4, <2>5
<1>4. CASE ChunkAcked
  <2>1. /\ waiting \in Loaders /\ waiting # "none" /\ waiting' = "none" /\ runnerAdvLoadAcked
        /\ UNCHANGED <<staging, slots, sentinel, frames, hook, latched, left, ram>>
        /\ UNCHANGED runnerAdvLoadAcked
    BY <1>4 DEF ChunkAcked, LoadValues, stVars
  <2>2. PICK s \in {"done", "load"} :
          loads' = [loads EXCEPT ![waiting].pos = 0, ![waiting].state = s]
    BY <1>4 DEF ChunkAcked
  <2>3. /\ loads'[waiting] = [state |-> s, received |-> loads[waiting].received, pos |-> 0]
        /\ \A d \in Loaders \ {waiting} : loads'[d] = loads[d]
    BY <2>1, <2>2, ZenonT(30) DEF LoadValues
  <2>4. waiting \in Loading /\ \A d \in Loading : d = waiting
    BY <2>1 DEF Staged, Loading, Alone
  <2>5. \A d \in Loading' : d = waiting
    BY <2>1, <2>3, <2>4 DEF Loading
  <2>6. Alone'
    BY <2>1, <2>5 DEF Alone
  <2>7. Posted'
    BY <2>1 DEF Posted
  <2>8. Landed'
    <3>1. Copied(waiting)
      BY <2>1 DEF Copied
    <3>2. \A i \in 0..(Total - 1) :
            i < loads[waiting].received => ram'[waiting][i] = [of |-> waiting, at |-> i]
      BY <2>1, <2>4, <3>1 DEF Landed
    <3>3. QED BY <2>1, <2>3, <2>4, <2>5, <3>2 DEF Landed, LoadValues, Copied
  <2>9. QED BY <2>6, <2>7, <2>8
<1>5. CASE ChunkTimesOut
  <2>1. "given up" \in causes'
    BY <1>5 DEF ChunkTimesOut
  <2>2. QED BY <2>1
<1>6. ASSUME NEW which \in {"now", "old"}, DoneLoadChunk(which)
      PROVE Alone' /\ Posted' /\ Landed'
  <2>1. which = "now" /\ frames.now = 1 /\ hook = "report" /\ left = Retries
    BY <1>6 DEF DoneLoadChunk, Alone, LoadValues
  <2>2. frames' = [frames EXCEPT !.now = @ - 1]
    BY <1>6, <2>1 DEF DoneLoadChunk
  <2>3. frames'.now = 0 /\ frames'.old = 0
    BY <2>1, <2>2 DEF Alone, LoadValues
  <2>4. /\ ~sentinel' /\ runnerAdvLoadAcked' /\ hook' = "answered"
        /\ UNCHANGED <<loads, waiting, staging, slots, latched, left, ram>>
    BY <1>6, <2>1 DEF DoneLoadChunk
  <2>5. Alone'
    BY <2>1, <2>3, <2>4 DEF Alone, Loading
  <2>6. waiting # "none"
    BY <2>1 DEF Posted
  <2>7. Posted'
    BY <2>4, <2>6 DEF Posted
  <2>8. \A c \in Loaders : Copied(c)' => Copied(c)
    BY <2>1, <2>4 DEF Copied
  <2>9. Landed'
    BY <2>4, <2>8 DEF Landed, Loading
  <2>10. QED BY <2>5, <2>7, <2>9
<1>7. CASE HookStarts
  <2>1. /\ hook = "idle" /\ sentinel /\ hook' = "copy" /\ latched' = slots
        /\ UNCHANGED <<loads, waiting, staging, slots, sentinel, runnerAdvLoadAcked, frames,
                       left, ram>>
    BY <1>7 DEF HookStarts
  <2>2. waiting # "none" /\ ~runnerAdvLoadAcked
    BY <2>1 DEF Posted
  <2>3. Alone'
    BY <2>1 DEF Alone, Loading
  <2>4. Posted'
    BY <2>1, <2>2 DEF Posted
  <2>5. Landed'
    BY <2>1 DEF Landed, Loading, Copied
  <2>6. QED BY <2>3, <2>4, <2>5
<1>8. CASE HookCopies
  <2> DEFINE w == waiting
             p == loads[waiting].pos
             r == loads[waiting].received
  <2>1. /\ hook = "copy" /\ hook' = "report" /\ left' = Retries + 1
        /\ UNCHANGED <<loads, waiting, staging, slots, sentinel, runnerAdvLoadAcked, frames,
                       latched>>
    BY <1>8 DEF HookCopies
  <2>2. w \in Loaders /\ ~runnerAdvLoadAcked /\ w \in Loading /\ frames.now = 0
    BY <2>1 DEF Posted, Alone, LoadValues, Staged, Loading
  <2>3. latched = [of |-> w, len |-> p, at |-> r - p]
    BY <2>1, <2>2 DEF Posted
  <2>4. p \in 1..Chunk /\ r \in 0..Total /\ p <= r
    BY <2>2 DEF LoadValues, Staged
  <2> HIDE DEF p, r
  <2>5. ram'[w] = [i \in 0..(Total - 1) |->
                     IF i \in (r - p)..((r - p) + p - 1) THEN staging[i - (r - p)] ELSE ram[w][i]]
    BY <1>8, <2>2, <2>3 DEF HookCopies, LoadValues
  <2>6. ASSUME NEW i \in 0..(Total - 1), i < r PROVE ram'[w][i] = [of |-> w, at |-> i]
    <3>1. CASE i < r - p
      <4>1. ram'[w][i] = ram[w][i]
        BY <3>1, <2>4, <2>5
      <4>2. QED BY <3>1, <4>1, <2>2 DEF Landed, p, r
    <3>2. CASE ~(i < r - p)
      <4>1. /\ i - (r - p) \in 0..(Chunk - 1) /\ i - (r - p) < p
            /\ (r - p) + (i - (r - p)) = i
        BY <3>2, <2>4, <2>6
      <4>2. ram'[w][i] = staging[i - (r - p)]
        BY <3>2, <2>4, <2>5, <2>6
      <4>3. staging[i - (r - p)] = [of |-> w, at |-> (r - p) + (i - (r - p))]
        BY <4>1, <2>2 DEF Landed, p, r
      <4>4. QED BY <4>1, <4>2, <4>3
    <3>3. QED BY <3>1, <3>2
  <2>7. Landed'
    <3>1. \A d \in Loading' : d = w
      BY <2>1, <2>2 DEF Alone, Loading
    <3>2. \A j \in 0..(Chunk - 1) : j < p => staging'[j] = [of |-> w, at |-> r - p + j]
      BY <2>1, <2>2 DEF Landed, p, r
    <3>3. \A i \in 0..(Total - 1) : i < r - p => i < r
      BY <2>4
    <3>4. QED BY <2>1, <2>6, <3>1, <3>2, <3>3 DEF Landed, p, r
  <2>8. Alone'
    BY <2>1, <2>2 DEF Alone, Loading
  <2>9. Posted'
    BY <2>1, <2>2 DEF Posted
  <2>10. QED BY <2>7, <2>8, <2>9
<1>9. CASE HookReports
  <2>1. left = Retries + 1
    <3>1. left <= Retries => "repeated" \in causes'
      BY <1>9 DEF HookReports
    <3>2. QED BY <3>1 DEF LoadValues
  <2>2. hook = "report" /\ frames.now = 0 /\ left' = Retries
    BY <1>9, <2>1 DEF HookReports, Alone, LoadValues
  <2>3. frames'.now \in {0, 1} /\ frames'.old = 0
    <3>1. frames' = [frames EXCEPT !.now = @ + 1] \/ frames' = frames
      BY <1>9 DEF HookReports
    <3>2. QED BY <2>2, <3>1 DEF Alone, LoadValues
  <2>4. UNCHANGED <<loads, waiting, staging, slots, sentinel, runnerAdvLoadAcked,
                   hook, latched, ram>>
    BY <1>9 DEF HookReports
  <2>5. Alone'
    BY <2>2, <2>3, <2>4 DEF Alone, Loading
  <2>6. Posted'
    BY <2>4 DEF Posted
  <2>7. Landed'
    BY <2>4 DEF Landed, Loading, Copied
  <2>8. QED BY <2>5, <2>6, <2>7
<1>10. CASE HookReturns \/ HookTakesAnother
  <2>0. HookReturns /\ HookEnds
    BY <1>10 DEF HookReturns, HookTakesAnother
  <2>1. hook = "answered" /\ frames.now = 0 /\ frames.old = 0
    BY <2>0 DEF HookReturns, Alone, LoadValues
  <2>2. /\ hook' = "idle" /\ frames' = [now |-> 0, old |-> 0]
        /\ UNCHANGED <<loads, waiting, staging, slots, sentinel, runnerAdvLoadAcked, ram>>
    BY <2>0, <2>1 DEF HookEnds
  <2>3. Alone'
    BY <2>2 DEF Alone, Loading
  <2>4. Posted'
    BY <2>1, <2>2 DEF Posted
  <2>5. Landed'
    BY <2>1, <2>2 DEF Landed, Loading, Copied
  <2>6. QED BY <2>3, <2>4, <2>5
<1>11. CASE UNCHANGED loadVars
  BY <1>11 DEF loadVars, stVars, Alone, Posted, Landed, Loading, Copied
<1>12. QED BY <1>1, <1>2, <1>3, <1>4, <1>5, <1>6, <1>7, <1>8, <1>9, <1>10, <1>11 DEF LoadNext

\* Connections, buffers, hook and history of adv/load keep to their types.
THEOREM LoadTypeCorrect == LoadSpec => []LoadTypeOK
<1>1. LoadInit => LoadKept
  BY LoadInitKept
<1>2. LoadKept /\ [LoadNext]_loadVars => LoadKept'
  BY LoadKeptStep
<1>3. LoadKept => LoadTypeOK
  BY DEF LoadKept
<1>4. QED BY <1>1, <1>2, <1>3, PTL DEF LoadSpec

\* A step that answers a load 200 finds every byte of it in its place.
LEMMA FinishedIsWhole ==
    LoadKept /\ LoadInv /\ [LoadNext]_loadVars
    => \A c \in Loaders :
        loads[c].state = "load" /\ loads'[c].state = "done" /\ causes' = {}
        => ram'[c] = [i \in 0..(Total - 1) |-> [of |-> c, at |-> i]]
<1> SUFFICES ASSUME LoadKept, LoadInv, [LoadNext]_loadVars, NEW c \in Loaders,
                    loads[c].state = "load", loads'[c].state = "done", causes' = {}
             PROVE  ram'[c] = [i \in 0..(Total - 1) |-> [of |-> c, at |-> i]]
  OBVIOUS
<1>v. LoadValues
  BY DEF LoadKept, LoadTypeOK, LoadValues
<1>1. ChunkAcked
  <2>1. ASSUME NEW d \in Loaders, BeginLoad(d) \/ StageByte(d) \/ LoadAborted(d) PROVE FALSE
    <3>1. loads'[c].state \in {"load", "failed", loads[c].state}
      <4>1. CASE BeginLoad(d)
        BY <1>v, <4>1 DEF BeginLoad, LoadValues
      <4>2. CASE StageByte(d)
        <5>1. loads' = [loads EXCEPT ![d].received = loads[d].received + 1,
                                     ![d].pos = loads[d].pos + 1]
          BY <4>2 DEF StageByte
        <5>2. QED BY <1>v, <5>1 DEF LoadValues
      <4>3. CASE LoadAborted(d)
        BY <1>v, <4>3 DEF LoadAborted, LoadValues
      <4>4. QED BY <2>1, <4>1, <4>2, <4>3
    <3>2. QED BY <3>1
  <2>2. ~ChunkTimesOut
    BY DEF ChunkTimesOut
  <2>3. loads' # loads
    OBVIOUS
  <2>4. QED BY <2>1, <2>2, <2>3 DEF LoadNext, DoneLoadChunk, HookStarts, HookCopies,
              HookReports, HookReturns, HookTakesAnother, HookEnds, loadVars, stVars
<1>2. /\ waiting \in Loaders /\ waiting # "none" /\ runnerAdvLoadAcked /\ causes = {}
      /\ ram' = ram
      /\ loads' = [loads EXCEPT ![waiting].pos = 0,
                               ![waiting].state = IF loads[waiting].received = Total
                                                  THEN "done" ELSE "load"]
  BY <1>1, <1>v DEF ChunkAcked, LoadValues, stVars
<1>3. c = waiting /\ loads[c].received = Total
  BY <1>2, <1>v DEF LoadValues
<1>4. Landed /\ Copied(c) /\ c \in Loading
  BY <1>2, <1>3 DEF LoadInv, Copied, Loading
<1>5. \A i \in 0..(Total - 1) : ram[c][i] = [of |-> c, at |-> i]
  BY <1>3, <1>4, LoadBounds DEF Landed
<1>6. QED BY <1>2, <1>5, <1>v DEF LoadValues

\* A load that is answered 200 has landed whole, for connections, chunks and
\* loads of any size, unless two loads overlapped, a chunk had been given up, a
\* chunk had been reported twice, or another command's answer taken for its own.
THEOREM LoadLandsWholeHolds == LoadSpec => LoadLandsWhole
<1>1. LoadInit => LoadKept /\ LoadInv
  BY LoadInitKept, LoadInvInit
<1>2. LoadKept /\ LoadInv /\ [LoadNext]_loadVars => LoadKept' /\ LoadInv'
  BY LoadKeptStep, LoadInvStep
<1>3. LoadKept /\ LoadInv /\ [LoadNext]_loadVars
      => [\A c \in Loaders :
            loads[c].state = "load" /\ loads'[c].state = "done" /\ causes' = {}
            => ram'[c] = [i \in 0..(Total - 1) |-> [of |-> c, at |-> i]]]_loadVars
  BY FinishedIsWhole
<1>4. QED BY <1>1, <1>2, <1>3, PTL DEF LoadSpec, LoadLandsWhole
====
