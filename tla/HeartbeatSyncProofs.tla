------------------------ MODULE HeartbeatSyncProofs ------------------------
(***************************************************************************)
(* The server's picture of an agent's processes is the one the agent       *)
(* reported, for any number of processes, connections and heartbeats under *)
(* way.                                                                    *)
(*                                                                         *)
(* A heartbeat says only what has changed, so the picture is the sum of    *)
(* all heartbeats since a sync, of which some are still under way.  The    *)
(* invariant tells, for each process, which of them counts: the last that  *)
(* shows or hides it, and the last that gives a reading of it.  It is      *)
(* stated for the picture with the heartbeats under way and, as a sync     *)
(* still under way will replace the picture, for these alone.              *)
(***************************************************************************)
EXTENDS HeartbeatSync, FiniteSetTheorems, SequenceTheorems, TLAPS

\* What a message says of p.
RowOf(m, p) == IF m.kind = "heartbeat" THEN m.rows[p] ELSE None

IsSync(m) == m.kind = "heartbeat" /\ m.sync

IsDelta(m) == m.kind = "heartbeat" /\ ~m.sync

Shows(m, p) == RowOf(m, p) # None /\ (IsSync(m) \/ RowOf(m, p).up)

Hides(m, p) ==
    \/ IsSync(m) /\ RowOf(m, p) = None
    \/ IsDelta(m) /\ RowOf(m, p) # None /\ ~RowOf(m, p).up

Gives(m, p) == RowOf(m, p) # None /\ RowOf(m, p).val # None

Clears(m) == IsDelta(m) /\ m.rows = NoRows /\ m.count = 0

\* Of the messages w under way: what they leave shown has been reported.
WireShows(p, rep, w) ==
    \A j \in 1..Len(w) :
        Shows(w[j], p) /\ (\A i \in (j + 1)..Len(w) : ~Hides(w[i], p)) => p \in rep

\* The same of the server's row v and the messages after it.
ViewShows(p, rep, w, v) ==
    v # None /\ (\A i \in 1..Len(w) : ~Hides(w[i], p)) => p \in rep

\* Of the messages under way about a process p that is not monitored and of which s
\* was sent last: the last reading is s; if there is any, the messages from a sync on
\* have one, and have one before they leave it out; none hides p; and
\* what empties the table is older than p.
WireFits(p, s, w) ==
    /\ \A j \in 1..Len(w) :
          Gives(w[j], p) /\ (\A i \in (j + 1)..Len(w) : ~Gives(w[i], p))
              => RowOf(w[j], p).val = s
    /\ s # None => \A b \in 1..Len(w) : IsSync(w[b]) => \E i \in b..Len(w) : Gives(w[i], p)
    /\ \A j \in 1..Len(w) : IsDelta(w[j]) /\ RowOf(w[j], p) # None =>
          /\ RowOf(w[j], p).up
          /\ RowOf(w[j], p).val = None =>
                \A b \in 1..(j - 1) : IsSync(w[b]) => \E i \in b..(j - 1) : Gives(w[i], p)
    /\ \A j \in 1..Len(w) : Clears(w[j]) => \A i \in 1..(j - 1) : RowOf(w[i], p) = None

ViewFits(p, s, w, v) ==
    /\ v # None /\ (\A i \in 1..Len(w) : ~Gives(w[i], p)) => v.val = s
    /\ s # None => v # None \/ \E i \in 1..Len(w) : Gives(w[i], p)
    /\ \A j \in 1..Len(w) :
          IsDelta(w[j]) /\ RowOf(w[j], p) # None /\ RowOf(w[j], p).val = None =>
             v # None \/ \E i \in 1..(j - 1) : Gives(w[i], p)
    /\ \A j \in 1..Len(w) : Clears(w[j]) => v = None

SyncGives(w) == \A j \in 1..Len(w), p \in Pid :
    IsSync(w[j]) /\ RowOf(w[j], p) # None => Gives(w[j], p)

\* No two objects stand for one process, and a plain one with something to report runs.
ObjectsFit ==
    /\ \A o \in Table : obj[o].pid \in used /\ obj[o].val # None
    /\ \A o, r \in Table : obj[o].pid = obj[r].pid => o = r
    /\ \A o \in Obj \ Monitored : obj[o].change => obj[o].up

UsedFit ==
    /\ reported \subseteq used
    /\ \A p \in Pid : view[p] # None => p \in used
    /\ \A c \in Conn : \A i \in 1..Len(wire[c]), p \in Pid :
          RowOf(wire[c][i], p) # None => p \in used

LinkFit ==
    /\ link.status = "up" => link.conn # 0
    /\ clean => link.status = "up" /\ registered = link.conn
    /\ \A c \in Conn : c > link.conn => wire[c] = <<>>

W == wire[link.conn]

WireFit ==
    /\ SyncGives(W)
    /\ \A p \in Pid : WireShows(p, reported, W)
    /\ \A o \in Table \ Monitored : WireFits(obj[o].pid, obj[o].sent, W)

ViewFit ==
    /\ \A p \in Pid : ViewShows(p, reported, W, view[p])
    /\ \A o \in Table \ Monitored : ViewFits(obj[o].pid, obj[o].sent, W, view[obj[o].pid])

IInv ==
    /\ TypeOK /\ ObjectsFit /\ UsedFit /\ LinkFit
    /\ link.status = "up" => WireFit
    /\ clean => ViewFit

-----------------------------------------------------------------------------
(* A message more, or the first one less.                                  *)

Extends(w2, w, m) ==
    /\ Len(w) \in Nat /\ Len(w2) = Len(w) + 1
    /\ \A i \in 1..Len(w) : w2[i] = w[i]
    /\ w2[Len(w) + 1] = m

Drops(w2, w) ==
    /\ Len(w) \in Nat /\ Len(w) > 0 /\ Len(w2) = Len(w) - 1
    /\ \A i \in 1..Len(w2) : w2[i] = w[i + 1]

LEMMA AppendExtends ==
    ASSUME NEW S, NEW w \in Seq(S), NEW m \in S
    PROVE  Append(w, m) \in Seq(S) /\ Extends(Append(w, m), w, m)
  BY DEF Extends

LEMMA TailDrops ==
    ASSUME NEW S, NEW w \in Seq(S), w # <<>>
    PROVE  Tail(w) \in Seq(S) /\ Drops(Tail(w), w) /\ Head(w) = w[1] /\ w[1] \in S
  BY DEF Drops

LEMMA WireShowsExtended ==
    ASSUME NEW p, NEW rep, NEW rep2, NEW w, NEW w2, NEW m, Extends(w2, w, m),
           WireShows(p, rep, w),
           Shows(m, p) => p \in rep2,
           p \in rep /\ ~Hides(m, p) => p \in rep2
    PROVE  WireShows(p, rep2, w2)
  <1> SUFFICES ASSUME NEW j \in 1..Len(w2), Shows(w2[j], p),
                      \A i \in (j + 1)..Len(w2) : ~Hides(w2[i], p)
               PROVE  p \in rep2
    BY DEF WireShows
  <1> DEFINE n == Len(w)
  <1>0. n \in Nat /\ Len(w2) = n + 1 /\ (\A i \in 1..n : w2[i] = w[i]) /\ w2[n + 1] = m
    BY DEF Extends
  <1> HIDE DEF n
  <1>1. CASE j = n + 1
    BY <1>0, <1>1
  <1>2. CASE j \in 1..n
    <2>1. ~Hides(m, p)
      BY <1>0, <1>2
    <2>2. \A i \in (j + 1)..n : ~Hides(w[i], p)
      BY <1>0, <1>2
    <2>3. Shows(w[j], p)
      BY <1>0, <1>2
    <2> QED
      BY <1>2, <2>1, <2>2, <2>3 DEF WireShows, n
  <1> QED
    BY <1>0, <1>1, <1>2

LEMMA ViewShowsExtended ==
    ASSUME NEW p, NEW rep, NEW rep2, NEW w, NEW w2, NEW m, NEW v, Extends(w2, w, m),
           ViewShows(p, rep, w, v),
           p \in rep /\ ~Hides(m, p) => p \in rep2
    PROVE  ViewShows(p, rep2, w2, v)
  <1> SUFFICES ASSUME v # None, \A i \in 1..Len(w2) : ~Hides(w2[i], p)
               PROVE  p \in rep2
    BY DEF ViewShows
  <1>1. ~Hides(m, p) /\ \A i \in 1..Len(w) : ~Hides(w[i], p)
    BY DEF Extends
  <1> QED
    BY <1>1 DEF ViewShows

\* What a message about a held process must be like: it gives the reading s2 that is
\* the last sent from now on, all of them if it is a sync.
Reports(m, p, s, s2) ==
    /\ Gives(m, p) => RowOf(m, p).val = s2
    /\ ~Gives(m, p) => s2 = s
    /\ IsSync(m) => Gives(m, p)
    /\ IsDelta(m) /\ RowOf(m, p) # None =>
          RowOf(m, p).up /\ (RowOf(m, p).val = None => s # None)
    /\ ~Clears(m)

LEMMA WireFitsExtended ==
    ASSUME NEW p, NEW s, NEW s2, NEW w, NEW w2, NEW m, Extends(w2, w, m),
           WireFits(p, s, w), Reports(m, p, s, s2)
    PROVE  WireFits(p, s2, w2)
  <1> DEFINE n == Len(w)
  <1>0. n \in Nat /\ Len(w2) = n + 1 /\ (\A i \in 1..n : w2[i] = w[i]) /\ w2[n + 1] = m
    BY DEF Extends
  <1>w. /\ \A j \in 1..n : Gives(w[j], p) /\ (\A i \in (j + 1)..n : ~Gives(w[i], p))
              => RowOf(w[j], p).val = s
        /\ s # None => \A b \in 1..n : IsSync(w[b]) => \E i \in b..n : Gives(w[i], p)
        /\ \A j \in 1..n : IsDelta(w[j]) /\ RowOf(w[j], p) # None =>
              /\ RowOf(w[j], p).up
              /\ RowOf(w[j], p).val = None =>
                    \A b \in 1..(j - 1) : IsSync(w[b]) => \E i \in b..(j - 1) : Gives(w[i], p)
        /\ \A j \in 1..n : Clears(w[j]) => \A i \in 1..(j - 1) : RowOf(w[i], p) = None
    BY DEF WireFits
  <1> HIDE DEF n
  <1>1. ASSUME NEW j \in 1..(n + 1), Gives(w2[j], p),
               \A i \in (j + 1)..(n + 1) : ~Gives(w2[i], p)
        PROVE  RowOf(w2[j], p).val = s2
    <2>1. CASE j = n + 1
      BY <1>0, <1>1, <2>1 DEF Reports
    <2>2. CASE j \in 1..n
      <3>1. ~Gives(m, p) /\ Gives(w[j], p) /\ \A i \in (j + 1)..n : ~Gives(w[i], p)
        BY <1>0, <1>1, <2>2
      <3>2. RowOf(w[j], p).val = s /\ s2 = s
        BY <1>w, <2>2, <3>1 DEF Reports
      <3> QED
        BY <1>0, <2>2, <3>2
    <2> QED
      BY <1>0, <2>1, <2>2
  <1>2. ASSUME s2 # None, NEW b \in 1..(n + 1), IsSync(w2[b])
        PROVE  \E i \in b..(n + 1) : Gives(w2[i], p)
    <2>1. CASE Gives(m, p)
      BY <1>0, <2>1
    <2>2. CASE ~Gives(m, p)
      <3>1. s # None /\ ~IsSync(m)
        BY <1>2, <2>2 DEF Reports
      <3>2. b \in 1..n /\ IsSync(w[b])
        BY <1>0, <1>2, <3>1
      <3>3. PICK i \in b..n : Gives(w[i], p)
        BY <1>w, <3>1, <3>2
      <3> QED
        BY <1>0, <3>2, <3>3
    <2> QED
      BY <2>1, <2>2
  <1>3. ASSUME NEW j \in 1..(n + 1), IsDelta(w2[j]), RowOf(w2[j], p) # None
        PROVE  /\ RowOf(w2[j], p).up
               /\ RowOf(w2[j], p).val = None =>
                     \A b \in 1..(j - 1) : IsSync(w2[b]) => \E i \in b..(j - 1) : Gives(w2[i], p)
    <2>1. CASE j = n + 1
      <3>1. RowOf(m, p).up /\ (RowOf(m, p).val = None => s # None)
        BY <1>0, <1>3, <2>1 DEF Reports
      <3>2. ASSUME s # None, NEW b \in 1..n, IsSync(w2[b])
            PROVE  \E i \in b..n : Gives(w2[i], p)
        <4>1. PICK i \in b..n : Gives(w[i], p)
          BY <1>0, <1>w, <3>2
        <4> QED
          BY <1>0, <4>1
      <3> QED
        BY <1>0, <2>1, <3>1, <3>2
    <2>2. CASE j \in 1..n
      <3>1. RowOf(w[j], p).up /\ w2[j] = w[j] /\ IsDelta(w[j]) /\ RowOf(w[j], p) # None
        BY <1>0, <1>w, <1>3, <2>2
      <3>2. ASSUME RowOf(w[j], p).val = None, NEW b \in 1..(j - 1), IsSync(w2[b])
            PROVE  \E i \in b..(j - 1) : Gives(w2[i], p)
        <4>1. PICK i \in b..(j - 1) : Gives(w[i], p)
          BY <1>0, <1>w, <2>2, <3>1, <3>2
        <4> QED
          BY <1>0, <2>2, <4>1
      <3> QED
        BY <3>1, <3>2
    <2> QED
      BY <1>0, <2>1, <2>2
  <1>4. ASSUME NEW j \in 1..(n + 1), Clears(w2[j]), NEW i \in 1..(j - 1)
        PROVE  RowOf(w2[i], p) = None
    <2>1. j \in 1..n /\ Clears(w[j])
      BY <1>0, <1>4 DEF Reports
    <2> QED
      BY <1>0, <1>w, <2>1
  <1> QED
    BY <1>0, <1>1, <1>2, <1>3, <1>4 DEF WireFits

LEMMA ViewFitsExtended ==
    ASSUME NEW p, NEW s, NEW s2, NEW w, NEW w2, NEW m, NEW v, Extends(w2, w, m),
           ViewFits(p, s, w, v), Reports(m, p, s, s2)
    PROVE  ViewFits(p, s2, w2, v)
  <1> DEFINE n == Len(w)
  <1>0. n \in Nat /\ Len(w2) = n + 1 /\ (\A i \in 1..n : w2[i] = w[i]) /\ w2[n + 1] = m
    BY DEF Extends
  <1>w. /\ v # None /\ (\A i \in 1..n : ~Gives(w[i], p)) => v.val = s
        /\ s # None => v # None \/ \E i \in 1..n : Gives(w[i], p)
        /\ \A j \in 1..n :
              IsDelta(w[j]) /\ RowOf(w[j], p) # None /\ RowOf(w[j], p).val = None =>
                 v # None \/ \E i \in 1..(j - 1) : Gives(w[i], p)
        /\ \A j \in 1..n : Clears(w[j]) => v = None
    BY DEF ViewFits
  <1> HIDE DEF n
  <1>1. ASSUME v # None, \A i \in 1..(n + 1) : ~Gives(w2[i], p)
        PROVE  v.val = s2
    <2>1. ~Gives(m, p) /\ \A i \in 1..n : ~Gives(w[i], p)
      BY <1>0, <1>1
    <2> QED
      BY <1>w, <1>1, <2>1 DEF Reports
  <1>2. ASSUME s2 # None
        PROVE  v # None \/ \E i \in 1..(n + 1) : Gives(w2[i], p)
    <2>1. CASE Gives(m, p)
      BY <1>0, <2>1
    <2>2. CASE ~Gives(m, p)
      <3>1. v # None \/ \E i \in 1..n : Gives(w[i], p)
        BY <1>w, <1>2, <2>2 DEF Reports
      <3> QED
        BY <1>0, <3>1
    <2> QED
      BY <2>1, <2>2
  <1>3. ASSUME NEW j \in 1..(n + 1), IsDelta(w2[j]), RowOf(w2[j], p) # None,
               RowOf(w2[j], p).val = None
        PROVE  v # None \/ \E i \in 1..(j - 1) : Gives(w2[i], p)
    <2>1. CASE j = n + 1
      <3>1. s # None
        BY <1>0, <1>3, <2>1 DEF Reports
      <3>2. v # None \/ \E i \in 1..n : Gives(w[i], p)
        BY <1>w, <3>1
      <3> QED
        BY <1>0, <2>1, <3>2
    <2>2. CASE j \in 1..n
      <3>1. v # None \/ \E i \in 1..(j - 1) : Gives(w[i], p)
        BY <1>0, <1>w, <1>3, <2>2
      <3> QED
        BY <1>0, <2>2, <3>1
    <2> QED
      BY <1>0, <2>1, <2>2
  <1>4. ASSUME NEW j \in 1..(n + 1), Clears(w2[j])
        PROVE  v = None
    BY <1>0, <1>w, <1>4 DEF Reports
  <1> QED
    BY <1>0, <1>1, <1>2, <1>3, <1>4 DEF ViewFits

LEMMA WireDropped ==
    ASSUME NEW w, NEW w2, Drops(w2, w)
    PROVE  /\ \A p, rep : WireShows(p, rep, w) => WireShows(p, rep, w2)
           /\ \A p, s : WireFits(p, s, w) => WireFits(p, s, w2)
           /\ SyncGives(w) => SyncGives(w2)
  <1> DEFINE n == Len(w2)
  <1>0. n \in Nat /\ Len(w) = n + 1 /\ \A i \in 1..n : w2[i] = w[i + 1]
    BY DEF Drops
  <1> HIDE DEF n
  <1>1. ASSUME NEW p, NEW rep, WireShows(p, rep, w) PROVE WireShows(p, rep, w2)
    <2> SUFFICES ASSUME NEW j \in 1..n, Shows(w2[j], p),
                        \A i \in (j + 1)..n : ~Hides(w2[i], p)
                 PROVE  p \in rep
      BY DEF WireShows, n
    <2>1. \A i \in (j + 2)..(n + 1) : ~Hides(w[i], p)
      <3> SUFFICES ASSUME NEW i \in (j + 2)..(n + 1) PROVE ~Hides(w[i], p)
        OBVIOUS
      <3>1. i - 1 \in (j + 1)..n /\ w2[i - 1] = w[i]
        BY <1>0
      <3> QED
        BY <3>1
    <2>2. j + 1 \in 1..Len(w) /\ Shows(w[j + 1], p)
      BY <1>0
    <2> QED
      BY <1>0, <1>1, <2>1, <2>2 DEF WireShows
  <1>2. ASSUME NEW p, NEW s, WireFits(p, s, w) PROVE WireFits(p, s, w2)
    <2>w. /\ \A j \in 1..(n + 1) :
                Gives(w[j], p) /\ (\A i \in (j + 1)..(n + 1) : ~Gives(w[i], p))
                => RowOf(w[j], p).val = s
          /\ s # None => \A b \in 1..(n + 1) : IsSync(w[b]) =>
                             \E i \in b..(n + 1) : Gives(w[i], p)
          /\ \A j \in 1..(n + 1) : IsDelta(w[j]) /\ RowOf(w[j], p) # None =>
                /\ RowOf(w[j], p).up
                /\ RowOf(w[j], p).val = None =>
                      \A b \in 1..(j - 1) : IsSync(w[b]) => \E i \in b..(j - 1) : Gives(w[i], p)
          /\ \A j \in 1..(n + 1) : Clears(w[j]) => \A i \in 1..(j - 1) : RowOf(w[i], p) = None
      BY <1>0, <1>2 DEF WireFits
    <2>1. ASSUME NEW j \in 1..n, Gives(w2[j], p), \A i \in (j + 1)..n : ~Gives(w2[i], p)
          PROVE  RowOf(w2[j], p).val = s
      <3>1. \A i \in (j + 2)..(n + 1) : ~Gives(w[i], p)
        <4> SUFFICES ASSUME NEW i \in (j + 2)..(n + 1) PROVE ~Gives(w[i], p)
          OBVIOUS
        <4>1. i - 1 \in (j + 1)..n /\ w2[i - 1] = w[i]
          BY <1>0
        <4> QED
          BY <2>1, <4>1
      <3>2. j + 1 \in 1..(n + 1) /\ Gives(w[j + 1], p) /\ w2[j] = w[j + 1]
        BY <1>0, <2>1
      <3> QED
        BY <1>0, <2>w, <3>1, <3>2
    <2>2. ASSUME s # None, NEW b \in 1..n, IsSync(w2[b])
          PROVE  \E i \in b..n : Gives(w2[i], p)
      <3>1. PICK i \in (b + 1)..(n + 1) : Gives(w[i], p)
        BY <1>0, <2>w, <2>2
      <3>2. i - 1 \in b..n /\ w2[i - 1] = w[i]
        BY <1>0
      <3> QED
        BY <3>1, <3>2
    <2>3. ASSUME NEW j \in 1..n, IsDelta(w2[j]), RowOf(w2[j], p) # None
          PROVE  /\ RowOf(w2[j], p).up
                 /\ RowOf(w2[j], p).val = None =>
                       \A b \in 1..(j - 1) : IsSync(w2[b]) => \E i \in b..(j - 1) : Gives(w2[i], p)
      <3>1. /\ j + 1 \in 1..(n + 1) /\ w2[j] = w[j + 1]
            /\ IsDelta(w[j + 1]) /\ RowOf(w[j + 1], p) # None
        BY <1>0, <2>3
      <3>2. /\ RowOf(w[j + 1], p).up
            /\ RowOf(w[j + 1], p).val = None =>
                 \A b \in 1..j : IsSync(w[b]) => \E i \in b..j : Gives(w[i], p)
        BY <1>0, <2>w, <3>1
      <3>3. ASSUME RowOf(w2[j], p).val = None, NEW b \in 1..(j - 1), IsSync(w2[b])
            PROVE  \E i \in b..(j - 1) : Gives(w2[i], p)
        <4>0. b + 1 \in 1..j /\ IsSync(w[b + 1]) /\ RowOf(w[j + 1], p).val = None
          BY <1>0, <3>1, <3>3
        <4>1. PICK i \in (b + 1)..j : Gives(w[i], p)
          BY <3>2, <4>0
        <4>2. i - 1 \in b..(j - 1) /\ w2[i - 1] = w[i]
          BY <1>0
        <4> QED
          BY <4>1, <4>2
      <3> QED
        BY <3>1, <3>2, <3>3
    <2>4. ASSUME NEW j \in 1..n, Clears(w2[j]), NEW i \in 1..(j - 1)
          PROVE  RowOf(w2[i], p) = None
      <3>1. j + 1 \in 1..(n + 1) /\ Clears(w[j + 1]) /\ i + 1 \in 1..((j + 1) - 1)
        BY <1>0, <2>4
      <3>2. RowOf(w[i + 1], p) = None
        BY <2>w, <3>1
      <3> QED
        BY <1>0, <3>2
    <2> QED
      BY <2>1, <2>2, <2>3, <2>4 DEF WireFits, n
  <1>3. ASSUME SyncGives(w) PROVE SyncGives(w2)
    BY <1>0, <1>3 DEF SyncGives, n
  <1> QED
    BY <1>1, <1>2, <1>3

LEMMA ViewShowsDropped ==
    ASSUME NEW p, NEW rep, NEW w, NEW w2, NEW v, NEW v2, Drops(w2, w), WireShows(p, rep, w),
           v2 # None => \/ Shows(w[1], p)
                        \/ ViewShows(p, rep, w, v) /\ v # None /\ ~Hides(w[1], p)
    PROVE  ViewShows(p, rep, w2, v2)
  <1> SUFFICES ASSUME v2 # None, \A i \in 1..Len(w2) : ~Hides(w2[i], p)
               PROVE  p \in rep
    BY DEF ViewShows
  <1>1. \A i \in 2..Len(w) : ~Hides(w[i], p)
    <2> SUFFICES ASSUME NEW i \in 2..Len(w) PROVE ~Hides(w[i], p)
      OBVIOUS
    <2>1. i - 1 \in 1..Len(w2) /\ w2[i - 1] = w[i]
      BY DEF Drops
    <2> QED
      BY <2>1
  <1>2. CASE Shows(w[1], p)
    BY <1>1, <1>2 DEF WireShows, Drops
  <1>3. CASE ViewShows(p, rep, w, v) /\ v # None /\ ~Hides(w[1], p)
    <2>1. \A i \in 1..Len(w) : ~Hides(w[i], p)
      BY <1>1, <1>3 DEF Drops
    <2> QED
      BY <1>3, <2>1 DEF ViewShows
  <1> QED
    BY <1>2, <1>3

\* A sync is merged: the picture is what it says.
LEMMA ViewFitsSynced ==
    ASSUME NEW p \in Pid, NEW s, NEW w, NEW w2, NEW v2, Drops(w2, w), WireFits(p, s, w),
           IsSync(w[1]), v2 = RowOf(w[1], p), v2 # None => Gives(w[1], p)
    PROVE  ViewFits(p, s, w2, v2)
  <1> DEFINE n == Len(w2)
  <1>0. n \in Nat /\ Len(w) = n + 1 /\ \A i \in 1..n : w2[i] = w[i + 1]
    BY DEF Drops
  <1>s. \A i \in 2..(n + 1) : i - 1 \in 1..n /\ w2[i - 1] = w[i]
    BY <1>0
  <1> HIDE DEF n
  <1>1. ASSUME v2 # None, \A i \in 1..n : ~Gives(w2[i], p)
        PROVE  v2.val = s
    <2>1. \A i \in 2..(n + 1) : ~Gives(w[i], p)
      BY <1>s, <1>1
    <2>2. Gives(w[1], p) /\ 1 \in 1..(n + 1)
      BY <1>0, <1>1
    <2> QED
      BY <1>0, <2>1, <2>2 DEF WireFits
  <1>2. ASSUME s # None
        PROVE  v2 # None \/ \E i \in 1..n : Gives(w2[i], p)
    <2>1. PICK i \in 1..(n + 1) : Gives(w[i], p)
      BY <1>0, <1>2 DEF WireFits
    <2>2. CASE i = 1
      BY <2>1, <2>2 DEF Gives
    <2>3. CASE i # 1
      <3>1. i - 1 \in 1..n /\ w2[i - 1] = w[i]
        BY <1>s, <2>3
      <3> QED
        BY <2>1, <3>1
    <2> QED
      BY <2>2, <2>3
  <1>3. ASSUME NEW j \in 1..n, IsDelta(w2[j]), RowOf(w2[j], p) # None, RowOf(w2[j], p).val = None
        PROVE  v2 # None \/ \E i \in 1..(j - 1) : Gives(w2[i], p)
    <2>1. /\ j + 1 \in 1..(n + 1) /\ IsDelta(w[j + 1]) /\ RowOf(w[j + 1], p) # None
          /\ RowOf(w[j + 1], p).val = None /\ 1 \in 1..((j + 1) - 1)
      BY <1>0, <1>3
    <2>2. PICK i \in 1..((j + 1) - 1) : Gives(w[i], p)
      BY <1>0, <2>1 DEF WireFits
    <2>3. CASE i = 1
      BY <2>2, <2>3 DEF Gives
    <2>4. CASE i # 1
      <3>1. i - 1 \in 1..(j - 1) /\ w2[i - 1] = w[i]
        BY <1>0, <2>4
      <3> QED
        BY <2>2, <3>1
    <2> QED
      BY <2>3, <2>4
  <1>4. ASSUME NEW j \in 1..n, Clears(w2[j])
        PROVE  v2 = None
    <2>1. j + 1 \in 1..(n + 1) /\ Clears(w[j + 1]) /\ 1 \in 1..((j + 1) - 1)
      BY <1>0, <1>4
    <2> QED
      BY <1>0, <2>1 DEF WireFits
  <1> QED
    BY <1>1, <1>2, <1>3, <1>4 DEF ViewFits, n

\* A delta is merged: the row it leaves follows it, or the row there was.
LEMMA ViewFitsMerged ==
    ASSUME NEW p \in Pid, NEW s, NEW w, NEW w2, NEW v, NEW v2, Drops(w2, w),
           WireFits(p, s, w), ViewFits(p, s, w, v), IsDelta(w[1]),
           v # None => v \in Row, RowOf(w[1], p) # None => RowOf(w[1], p) \in Row,
           v2 = IF Clears(w[1]) THEN None ELSE Merged(v, RowOf(w[1], p))
    PROVE  ViewFits(p, s, w2, v2)
  <1> DEFINE n == Len(w2)
  <1>0. n \in Nat /\ Len(w) = n + 1 /\ \A i \in 1..n : w2[i] = w[i + 1]
    BY DEF Drops
  <1>s. \A i \in 2..(n + 1) : i - 1 \in 1..n /\ w2[i - 1] = w[i]
    BY <1>0
  <1> HIDE DEF n
  <1>x. PICK x : x = RowOf(w[1], p)
    OBVIOUS
  <1>c. Clears(w[1]) => v = None /\ x = None
    BY <1>0, <1>x DEF ViewFits, Clears, IsDelta, RowOf, NoRows
  <1>d. x # None => x.up /\ (x.val = None => v # None)
    <2>1. 1 \in 1..Len(w) /\ \A i \in 1..(1 - 1) : FALSE
      BY <1>0
    <2> QED
      BY <1>x, <2>1 DEF WireFits, ViewFits
  <1>v. v2 = Merged(v, x)
    BY <1>c, <1>x DEF Merged
  <1>m. /\ x = None => v2 = v
        /\ x # None => v2 # None /\ v2.val = IF x.val # None THEN x.val ELSE v.val
    <2>1. CASE x = None
      BY <1>v, <2>1 DEF Merged
    <2>2. CASE x # None /\ v = None
      BY <1>v, <1>d, <2>2 DEF Merged
    <2>3. CASE x # None /\ v # None
      <3>1. PICK st, up, val : /\ v2 = [static |-> st, up |-> up, val |-> val]
                               /\ val = IF x.val # None THEN x.val ELSE v.val
                               /\ st = (v.static \/ x.static) /\ up = TRUE
        BY <1>v, <1>d, <2>3, Zenon DEF Merged
      <3>2. st \in BOOLEAN /\ up \in BOOLEAN /\ val \in Val \cup {None}
        <4>1. st \in BOOLEAN /\ up \in BOOLEAN
          BY <3>1, Zenon
        <4>2. val \in Val \cup {None}
          BY <1>x, <2>3, <3>1 DEF Row
        <4> QED
          BY <4>1, <4>2
      <3>r. v2 = [static |-> st, up |-> up, val |-> val]
        BY <3>1
      <3>3. v2 \in Row /\ v2.val = val
        BY ONLY <3>r, <3>2 DEF Row
      <3> QED
        BY <2>3, <3>1, <3>3, NoRowAssumption
    <2> QED
      BY <2>1, <2>2, <2>3
  <1>g. Gives(w[1], p) <=> x # None /\ x.val # None
    BY <1>x DEF Gives
  <1>1. ASSUME v2 # None, \A i \in 1..n : ~Gives(w2[i], p)
        PROVE  v2.val = s
    <2>1. \A i \in 2..(n + 1) : ~Gives(w[i], p)
      BY <1>s, <1>1
    <2>2. CASE Gives(w[1], p)
      <3>1. RowOf(w[1], p).val = s
        BY <1>0, <2>1, <2>2 DEF WireFits
      <3> QED
        BY <1>g, <1>m, <1>x, <2>2, <3>1
    <2>3. CASE ~Gives(w[1], p)
      <3>1. \A i \in 1..(n + 1) : ~Gives(w[i], p)
        BY <2>1, <2>3
      <3>2. v # None /\ v2.val = v.val
        BY <1>d, <1>g, <1>m, <1>1, <2>3
      <3> QED
        BY <1>0, <3>1, <3>2 DEF ViewFits
    <2> QED
      BY <2>2, <2>3
  <1>2. ASSUME s # None
        PROVE  v2 # None \/ \E i \in 1..n : Gives(w2[i], p)
    <2>1. v # None \/ \E i \in 1..(n + 1) : Gives(w[i], p)
      BY <1>0, <1>2 DEF ViewFits
    <2>2. CASE v # None
      BY <1>m, <2>2
    <2>3. ASSUME NEW i \in 1..(n + 1), Gives(w[i], p)
          PROVE  v2 # None \/ \E k \in 1..n : Gives(w2[k], p)
      <3>1. CASE i = 1
        BY <1>g, <1>m, <2>3, <3>1
      <3>2. CASE i # 1
        <4>1. i - 1 \in 1..n /\ w2[i - 1] = w[i]
          BY <1>s, <3>2
        <4> QED
          BY <2>3, <4>1
      <3> QED
        BY <3>1, <3>2
    <2> QED
      BY <2>1, <2>2, <2>3
  <1>3. ASSUME NEW j \in 1..n, IsDelta(w2[j]), RowOf(w2[j], p) # None, RowOf(w2[j], p).val = None
        PROVE  v2 # None \/ \E i \in 1..(j - 1) : Gives(w2[i], p)
    <2>1. /\ j + 1 \in 1..(n + 1) /\ IsDelta(w[j + 1]) /\ RowOf(w[j + 1], p) # None
          /\ RowOf(w[j + 1], p).val = None
      BY <1>0, <1>3
    <2>2. v # None \/ \E i \in 1..((j + 1) - 1) : Gives(w[i], p)
      BY <1>0, <2>1 DEF ViewFits
    <2>3. CASE v # None
      BY <1>m, <2>3
    <2>4. ASSUME NEW i \in 1..((j + 1) - 1), Gives(w[i], p)
          PROVE  v2 # None \/ \E k \in 1..(j - 1) : Gives(w2[k], p)
      <3>1. CASE i = 1
        BY <1>g, <1>m, <2>4, <3>1
      <3>2. CASE i # 1
        <4>1. i - 1 \in 1..(j - 1) /\ w2[i - 1] = w[i]
          BY <1>0, <3>2
        <4> QED
          BY <2>4, <4>1
      <3> QED
        BY <3>1, <3>2
    <2> QED
      BY <2>2, <2>3, <2>4
  <1>4. ASSUME NEW j \in 1..n, Clears(w2[j])
        PROVE  v2 = None
    <2>1. j + 1 \in 1..(n + 1) /\ Clears(w[j + 1]) /\ 1 \in 1..((j + 1) - 1)
      BY <1>0, <1>4
    <2>2. v = None /\ x = None
      BY <1>0, <1>x, <2>1 DEF WireFits, ViewFits
    <2> QED
      BY <1>m, <2>2
  <1> QED
    BY <1>1, <1>2, <1>3, <1>4 DEF ViewFits, n

\* Nothing under way is about p.
LEMMA NoHistory ==
    ASSUME NEW p, NEW w, \A i \in 1..Len(w) : RowOf(w[i], p) = None
    PROVE  WireFits(p, None, w) /\ ViewFits(p, None, w, None)
  <1>1. \A i \in 1..Len(w) : ~Gives(w[i], p)
    BY DEF Gives
  <1>2. \A j \in 1..Len(w) : Clears(w[j]) => \A i \in 1..(j - 1) : RowOf(w[i], p) = None
    <2> SUFFICES ASSUME NEW j \in 1..Len(w), NEW i \in 1..(j - 1) PROVE RowOf(w[i], p) = None
      OBVIOUS
    <2>1. i \in 1..Len(w)
      OBVIOUS
    <2> QED
      BY <2>1
  <1> QED
    BY <1>1, <1>2 DEF WireFits, ViewFits

-----------------------------------------------------------------------------
(* Objects.                                                                *)

Object == [pid : Pid \cup {None}, up : BOOLEAN, denied : BOOLEAN,
           change : BOOLEAN, val : Val \cup {None}, sent : Val \cup {None}]

LEMMA FreshUnused ==
    ASSUME NEW p \in Fresh(Pid \ used)
    PROVE  p \in Pid \ used
  BY DEF Fresh

LEMMA UnusedIs ==
    Unused \in Object /\ Unused.pid = None /\ Unused.sent = None
    /\ (Unused.change => Unused.up)
  <1>1. PICK b \in BOOLEAN : b = FALSE
    BY Zenon
  <1>2. PICK y : y = [pid |-> None, up |-> b, denied |-> b, change |-> b,
                      val |-> None, sent |-> None]
    OBVIOUS
  <1>3. Unused = y
    BY <1>1, <1>2 DEF Unused
  <1>4. y \in Object /\ y.pid = None /\ y.sent = None /\ y.change = b /\ y.up = b
    BY ONLY <1>2, b \in BOOLEAN DEF Object
  <1> QED
    BY <1>3, <1>4

LEMMA OnStartIs ==
    ASSUME NEW x \in Object, NEW p \in Pid, NEW v \in Val
    PROVE  /\ OnStart(x, p, v) \in Object /\ OnStart(x, p, v).pid = p
           /\ OnStart(x, p, v).sent = x.sent /\ OnStart(x, p, v).val = v
           /\ OnStart(x, p, v).up
  <1>1. PICK b \in BOOLEAN : b = TRUE
    BY Zenon
  <1>2. PICK y : y = [x EXCEPT !.pid = p, !.up = b, !.change = b, !.val = v]
    OBVIOUS
  <1>3. OnStart(x, p, v) = y
    BY <1>1, <1>2 DEF OnStart
  <1>4. y \in Object /\ y.pid = p /\ y.sent = x.sent /\ y.val = v /\ y.up = b
    BY <1>2 DEF Object
  <1> QED
    BY <1>1, <1>3, <1>4

LEMMA TickedIs ==
    ASSUME NEW x \in Object, NEW v \in Val \cup {None}, NEW monitored \in BOOLEAN
    PROVE  /\ Ticked(x, v, monitored) \in Object
           /\ Ticked(x, v, monitored).pid \in {x.pid, None}
           /\ Ticked(x, v, monitored).pid # None =>
                 /\ Ticked(x, v, monitored).sent = x.sent
                 /\ x.val # None => Ticked(x, v, monitored).val # None
           /\ ~monitored /\ (x.change => x.up) =>
                 (Ticked(x, v, monitored).change => Ticked(x, v, monitored).up)
  <1>1. PICK t \in BOOLEAN, f \in BOOLEAN : t = TRUE /\ f = FALSE
    BY Zenon
  <1>2. PICK y : y = Ticked(x, v, monitored)
    OBVIOUS
  <1>3. \/ y = x /\ x.pid = None
        \/ y = [x EXCEPT !.change = f]
        \/ y = Unused
        \/ y = [x EXCEPT !.change = t, !.val = v] /\ v # None /\ x.up
        \/ y = [x EXCEPT !.up = f, !.change = x.up] /\ monitored
    BY <1>1, <1>2 DEF Ticked, TickedRunning
  <1>4. CASE y = x /\ x.pid = None
    BY <1>2, <1>4
  <1>5. CASE y = [x EXCEPT !.change = f]
    <2>1. y \in Object /\ y.pid = x.pid /\ y.sent = x.sent /\ y.val = x.val /\ y.change = f
      BY <1>5 DEF Object
    <2> QED
      BY <1>1, <1>2, <2>1
  <1>6. CASE y = Unused
    BY <1>2, <1>6, UnusedIs
  <1>7. CASE y = [x EXCEPT !.change = t, !.val = v] /\ v # None /\ x.up
    <2>1. y \in Object /\ y.pid = x.pid /\ y.sent = x.sent /\ y.val = v /\ y.up = x.up
      BY <1>7 DEF Object
    <2> QED
      BY <1>2, <1>7, <2>1
  <1>8. CASE y = [x EXCEPT !.up = f, !.change = x.up] /\ monitored
    <2>1. y \in Object /\ y.pid = x.pid /\ y.sent = x.sent /\ y.val = x.val
      BY <1>8 DEF Object
    <2> QED
      BY <1>2, <1>8, <2>1
  <1> QED
    BY <1>3, <1>4, <1>5, <1>6, <1>7, <1>8

\* What is sent of an object.
LEMMA DeltaIs ==
    ASSUME NEW x \in Object, NEW sync \in BOOLEAN, x.val # None
    PROVE  /\ Delta(x, sync) \in Row \cup {None}
           /\ Delta(x, sync) # None <=> sync \/ x.change
           /\ Delta(x, sync) # None =>
                 /\ Delta(x, sync).up = x.up
                 /\ Delta(x, sync).val \in {x.val, None}
                 /\ sync \/ x.sent = None => Delta(x, sync).val = x.val
                 /\ Delta(x, sync).val = None => x.val = x.sent
  <1>1. PICK st \in BOOLEAN : st = (sync \/ x.sent = None)
    BY Zenon
  <1>2. PICK val : val = IF sync \/ x.sent = None \/ x.val # x.sent THEN x.val ELSE None
    OBVIOUS
  <1>3. PICK y : y = [static |-> st, up |-> x.up, val |-> val]
    OBVIOUS
  <1>4. x.up \in BOOLEAN /\ val \in Val \cup {None} /\ val \in {x.val, None}
    BY <1>2 DEF Object
  <1>5. y \in Row /\ y.up = x.up /\ y.val = val
    BY ONLY <1>3, <1>4, st \in BOOLEAN DEF Row
  <1>6. y # None
    BY <1>5, NoRowAssumption
  <1>7. CASE ~sync /\ ~x.change
    BY <1>7 DEF Delta
  <1>8. CASE sync \/ x.change
    <2>1. Delta(x, sync) = y
      BY <1>1, <1>2, <1>3, <1>8, Zenon DEF Delta
    <2> QED
      BY <1>2, <1>4, <1>5, <1>6, <1>8, <2>1
  <1> QED
    BY <1>7, <1>8

-----------------------------------------------------------------------------
(* The agent's steps.                                                      *)

\* Windows and the life cycle: an object keeps its process, gives it up, or takes one
\* whose id is new.
LEMMA ObjectsMove ==
    ASSUME IInv, UNCHANGED <<reported, linkVars, wire, serverVars, clean>>,
           alive' \subseteq used', used' \subseteq Pid, used \subseteq used',
           obj' \in [Obj -> Object], ObjectsFit',
           \A o \in Obj \ Monitored : obj'[o].pid # None =>
               \/ obj'[o].pid = obj[o].pid /\ obj'[o].sent = obj[o].sent
               \/ obj'[o].pid \notin used /\ obj'[o].sent = None
    PROVE  IInv'
  <1>u. UNCHANGED <<reported, link, init, syncSent, wire, srv, registered, view, clean>>
    BY DEF linkVars, serverVars
  <1>1. TypeOK'
    BY <1>u DEF IInv, TypeOK, Object
  <1>2. UsedFit' /\ LinkFit'
    BY <1>u DEF IInv, UsedFit, LinkFit
  <1>3. W' = W
    BY <1>u DEF W
  <1>4. ASSUME link.status = "up", NEW o \in Obj \ Monitored, obj'[o].pid # None
        PROVE  /\ WireFits(obj'[o].pid, obj'[o].sent, W)
               /\ clean => ViewFits(obj'[o].pid, obj'[o].sent, W, view[obj'[o].pid])
    <2>1. CASE obj'[o].pid = obj[o].pid /\ obj'[o].sent = obj[o].sent
      <3>1. o \in Table \ Monitored
        BY <1>4, <2>1 DEF Table
      <3> QED
        BY <1>4, <2>1, <3>1 DEF IInv, WireFit, ViewFit
    <2>2. CASE obj'[o].pid \notin used /\ obj'[o].sent = None
      <3>1. PICK p \in Pid : p = obj'[o].pid
        BY <1>4 DEF Object
      <3>2. view[p] = None /\ link.conn \in Conn
        BY <1>4, <2>2, <3>1 DEF IInv, UsedFit, LinkFit, TypeOK, Conn
      <3>3. \A i \in 1..Len(W) : RowOf(W[i], p) = None
        BY <2>2, <3>1, <3>2 DEF IInv, UsedFit, W
      <3>4. WireFits(p, None, W) /\ ViewFits(p, None, W, None)
        BY <3>3, NoHistory
      <3> QED
        BY <2>2, <3>1, <3>2, <3>4
    <2> QED
      BY <1>4, <2>1, <2>2
  <1>5. link'.status = "up" => WireFit'
    BY <1>u, <1>3, <1>4 DEF IInv, WireFit, Table
  <1>6. clean' => ViewFit'
    <2>1. clean => link.status = "up"
      BY DEF IInv, LinkFit
    <2> QED
      BY <1>u, <1>3, <1>4, <2>1 DEF IInv, ViewFit, Table
  <1> QED
    BY <1>1, <1>2, <1>5, <1>6 DEF IInv

\* One object takes a process whose id is new, the others are ticked or stay.
LEMMA ObjectTakes ==
    ASSUME IInv, UNCHANGED <<reported, linkVars, wire, serverVars, clean>>,
           NEW r \in Obj, NEW p \in Pid \ used,
           alive' = alive \cup {p}, used' = used \cup {p}, obj' \in [Obj -> Object],
           obj'[r].pid = p, obj'[r].val # None,
           r \notin Monitored => obj'[r].sent = None /\ (obj'[r].change => obj'[r].up),
           \A o \in Obj \ {r} :
               /\ obj'[o].pid \in {obj[o].pid, None}
               /\ obj'[o].pid # None => /\ obj'[o].sent = obj[o].sent
                                        /\ obj[o].val # None => obj'[o].val # None
               /\ o \notin Monitored => (obj'[o].change => obj'[o].up)
    PROVE  IInv'
  <1>1. TypeOK /\ ObjectsFit
    BY DEF IInv
  <1>2. ASSUME NEW o \in Obj, obj'[o].pid # None
        PROVE  obj'[o].pid \in used' /\ obj'[o].val # None
    BY <1>1, <1>2 DEF ObjectsFit, Table
  <1>3. ASSUME NEW o \in Obj, NEW q \in Obj, obj'[o].pid # None, obj'[o].pid = obj'[q].pid
        PROVE  o = q
    BY <1>1, <1>3 DEF ObjectsFit, Table
  <1>4. ObjectsFit'
    <2>1. \A o \in Obj \ Monitored : obj'[o].change => obj'[o].up
      OBVIOUS
    <2> QED
      BY <1>2, <1>3, <2>1 DEF ObjectsFit, Table
  <1>5. alive' \subseteq used' /\ used' \subseteq Pid /\ used \subseteq used'
    BY <1>1 DEF TypeOK
  <1>6. \A o \in Obj \ Monitored : obj'[o].pid # None =>
           \/ obj'[o].pid = obj[o].pid /\ obj'[o].sent = obj[o].sent
           \/ obj'[o].pid \notin used /\ obj'[o].sent = None
    OBVIOUS
  <1> QED
    BY <1>4, <1>5, <1>6, ObjectsMove

LEMMA StartStep ==
    ASSUME IInv, NEW o \in Obj, NEW p \in Pid, NEW v \in Val,
           StartProgram(o, p, v) \/ \E denied \in BOOLEAN : Discover(o, p, v, denied)
    PROVE  IInv'
  <1>i. TypeOK /\ ObjectsFit /\ obj \in [Obj -> Object]
    BY DEF IInv, TypeOK, Object
  <1>1. /\ UNCHANGED <<reported, linkVars, wire, serverVars, clean>> /\ p \in Pid \ used
        /\ alive' = alive \cup {p} /\ used' = used \cup {p} /\ obj[o] = Unused
    BY FreshUnused DEF StartProgram, Discover
  <1>2. PICK y \in Object : /\ y = OnStart(obj[o], p, v) /\ y.pid = p /\ y.sent = None
                            /\ y.val = v /\ y.up
    BY <1>i, <1>1, OnStartIs, UnusedIs
  <1>3. PICK z \in Object : /\ obj' = [obj EXCEPT ![o] = z]
                            /\ z.pid = p /\ z.sent = None /\ z.val = v /\ (z.change => z.up)
    <2>1. CASE StartProgram(o, p, v)
      BY <1>2, <2>1 DEF StartProgram
    <2>2. ASSUME NEW denied \in BOOLEAN, Discover(o, p, v, denied)
          PROVE  \E z \in Object : /\ obj' = [obj EXCEPT ![o] = z]
                                   /\ z.pid = p /\ z.sent = None /\ z.val = v
                                   /\ (z.change => z.up)
      <3>1. PICK f \in BOOLEAN, up \in BOOLEAN : f = FALSE /\ up = ~denied
        BY Zenon
      <3>2. PICK z : z = [y EXCEPT !.denied = denied, !.up = up, !.change = f]
        OBVIOUS
      <3>3. z \in Object /\ z.pid = p /\ z.sent = None /\ z.val = v /\ z.change = f
        BY <1>2, <3>2, ZenonT(60) DEF Object
      <3>4. obj' = [obj EXCEPT ![o] = z]
        BY <1>2, <2>2, <3>1, <3>2, ZenonT(60) DEF Discover
      <3> QED
        BY <3>1, <3>3, <3>4
    <2> QED
      BY <2>1, <2>2
  <1>4. obj' \in [Obj -> Object] /\ obj'[o] = z /\ \A r \in Obj \ {o} : obj'[r] = obj[r]
    BY <1>i, <1>3
  <1>5. v # None /\ \A r \in Obj \ Monitored : obj[r].change => obj[r].up
    BY <1>i, NoneAssumption DEF ObjectsFit
  <1> QED
    BY <1>1, <1>3, <1>4, <1>5, ObjectTakes

LEMMA TickSteps ==
    ASSUME IInv, TickStep \/ \E v \in Reading, r \in Obj, p \in Pid : TickRestarts(v, r, p)
    PROVE  IInv'
  <1>i. TypeOK /\ ObjectsFit /\ obj \in [Obj -> Object]
    BY DEF IInv, TypeOK, Object
  <1>t. ASSUME NEW o \in Obj, NEW v \in Reading
        PROVE  LET y == Ticked(obj[o], v[o], o \in Monitored) IN
               /\ y \in Object
               /\ y.pid \in {obj[o].pid, None}
               /\ y.pid # None => y.sent = obj[o].sent /\ (obj[o].val # None => y.val # None)
               /\ o \notin Monitored => (y.change => y.up)
    <2>1. PICK m \in BOOLEAN : m = (o \in Monitored)
      <3>1. (o \in Monitored) \in BOOLEAN
        OBVIOUS
      <3> QED
        BY <3>1, Zenon
    <2>2. v[o] \in Val \cup {None} /\ (o \notin Monitored => (obj[o].change => obj[o].up))
      BY <1>i DEF Reading, ObjectsFit
    <2>3. PICK y : y = Ticked(obj[o], v[o], m)
      OBVIOUS
    <2>4. /\ y \in Object
          /\ y.pid \in {obj[o].pid, None}
          /\ y.pid # None => y.sent = obj[o].sent /\ (obj[o].val # None => y.val # None)
          /\ ~m /\ (obj[o].change => obj[o].up) => (y.change => y.up)
      BY <1>i, <2>2, <2>3, TickedIs
    <2> QED
      BY <2>1, <2>2, <2>3, <2>4
  <1>1. ASSUME NEW v \in Reading, Tick(v) PROVE IInv'
    <2>1. UNCHANGED <<alive, used, reported, linkVars, wire, serverVars, clean>>
      BY <1>1 DEF Tick
    <2>2. \A o \in Obj : obj'[o] = Ticked(obj[o], v[o], o \in Monitored)
      BY <1>1 DEF Tick
    <2>3. \A o \in Obj :
             /\ obj'[o] \in Object
             /\ obj'[o].pid \in {obj[o].pid, None}
             /\ obj'[o].pid # None => /\ obj'[o].sent = obj[o].sent
                                      /\ obj[o].val # None => obj'[o].val # None
             /\ o \notin Monitored => (obj'[o].change => obj'[o].up)
      BY <1>t, <2>2
    <2>4. obj' \in [Obj -> Object]
      BY <1>1, <2>3 DEF Tick
    <2>5. ObjectsFit'
      BY <1>i, <2>1, <2>3 DEF ObjectsFit, Table
    <2>6. alive' \subseteq used' /\ used' \subseteq Pid /\ used \subseteq used'
      BY <1>i, <2>1 DEF TypeOK
    <2> QED
      BY <2>1, <2>3, <2>4, <2>5, <2>6, ObjectsMove
  <1>2. ASSUME NEW v \in Reading, NEW r \in Obj, NEW p \in Pid, TickRestarts(v, r, p)
        PROVE  IInv'
    <2>1. /\ UNCHANGED <<reported, linkVars, wire, serverVars, clean>> /\ p \in Pid \ used
          /\ alive' = alive \cup {p} /\ used' = used \cup {p} /\ r \in Monitored
          /\ v[r] \in Val
      BY <1>2, FreshUnused DEF TickRestarts, Reading
    <2>2. \A o \in Obj \ {r} : obj'[o] = Ticked(obj[o], v[o], o \in Monitored)
      BY <1>2 DEF TickRestarts
    <2>3. obj'[r] \in Object /\ obj'[r].pid = p /\ obj'[r].val # None
      <3>1. obj'[r] = OnStart(obj[r], p, v[r])
        BY <1>2 DEF TickRestarts
      <3> QED
        BY <1>i, <2>1, <3>1, OnStartIs, NoneAssumption
    <2>4. \A o \in Obj \ {r} :
             /\ obj'[o] \in Object
             /\ obj'[o].pid \in {obj[o].pid, None}
             /\ obj'[o].pid # None => /\ obj'[o].sent = obj[o].sent
                                      /\ obj[o].val # None => obj'[o].val # None
             /\ o \notin Monitored => (obj'[o].change => obj'[o].up)
      BY <1>t, <2>2
    <2>5. obj' \in [Obj -> Object]
      BY <1>2, <2>3, <2>4 DEF TickRestarts
    <2> QED
      BY <2>1, <2>3, <2>4, <2>5, ObjectTakes
  <1> QED
    BY <1>1, <1>2 DEF TickStep

LEMMA ExitStep ==
    ASSUME IInv, NEW p \in Pid, Exit(p)
    PROVE  IInv'
  <1>1. UNCHANGED <<used, obj, reported, linkVars, wire, serverVars, clean>>
    BY DEF Exit, agentVars
  <1>2. alive' \subseteq used' /\ used' \subseteq Pid /\ used \subseteq used'
        /\ obj' \in [Obj -> Object] /\ ObjectsFit'
    BY <1>1 DEF Exit, IInv, TypeOK, Object, ObjectsFit, Table
  <1> QED
    BY <1>1, <1>2, ObjectsMove

\* What a heartbeat says of each process.
LEMMA StatusIs ==
    ASSUME IInv, NEW sync \in BOOLEAN
    PROVE  /\ Status(sync) \in Rows
           /\ \A o \in Table : obj[o].pid \in Pid /\ Status(sync)[obj[o].pid] = Delta(obj[o], sync)
           /\ \A p \in Pid \ Pids : Status(sync)[p] = IF ~sync /\ p \in reported THEN Gone ELSE None
  <1>1. obj \in [Obj -> Object]
    BY DEF IInv, TypeOK, Object
  <1>2. ASSUME NEW o \in Table
        PROVE  /\ obj[o] \in Object /\ obj[o].pid \in Pids \cap Pid /\ obj[o].val # None
               /\ HolderOf(obj[o].pid) = o
    <2>1. obj[o].pid \in Pids \cap Pid /\ obj[o] \in Object /\ obj[o].val # None
      BY <1>1 DEF Pids, Table, Object, IInv, ObjectsFit
    <2>2. \A r \in Table : obj[r].pid = obj[o].pid => r = o
      BY DEF IInv, ObjectsFit
    <2> QED
      BY <2>1, <2>2 DEF HolderOf
  <1>3. PICK d : d = Status(sync)
    OBVIOUS
  <1>4. \A o \in Table : d[obj[o].pid] = Delta(obj[o], sync)
    BY <1>2, <1>3 DEF Status
  <1>5. \A p \in Pid \ Pids : d[p] = IF ~sync /\ p \in reported THEN Gone ELSE None
    BY <1>3 DEF Status
  <1>6. Gone \in Row
    <2>1. PICK f \in BOOLEAN : f = FALSE
      BY Zenon
    <2>2. [static |-> f, up |-> f, val |-> None] \in Row
      BY ONLY f \in BOOLEAN DEF Row
    <2> QED
      BY <2>1, <2>2 DEF Gone
  <1>7. ASSUME NEW p \in Pid PROVE d[p] \in Row \cup {None}
    <2>1. CASE p \in Pids
      <3>1. PICK o \in Table : obj[o].pid = p
        BY <2>1 DEF Pids
      <3> QED
        BY <1>2, <1>4, <3>1, DeltaIs
    <2>2. CASE p \notin Pids
      BY <1>5, <1>6, <2>2
    <2> QED
      BY <2>1, <2>2
  <1>8. d \in Rows
    BY <1>3, <1>7 DEF Status, Rows
  <1> QED
    BY <1>2, <1>3, <1>4, <1>5, <1>8

\* The heartbeat fits what is under way: it shows what the agent has from now on
\* reported, and gives what it has from now on sent.
LEMMA BeatFits ==
    ASSUME IInv, NEW sync \in BOOLEAN
    PROVE  /\ Beat(sync) \in Message
           /\ \A p \in Pid : /\ RowOf(Beat(sync), p) # None => p \in Pids \cup reported
                             /\ Shows(Beat(sync), p) => p \in Pids
                             /\ p \in reported /\ ~Hides(Beat(sync), p) => p \in Pids
                             /\ IsSync(Beat(sync)) /\ RowOf(Beat(sync), p) # None
                                   => Gives(Beat(sync), p)
           /\ \A o \in Table \ Monitored :
                 Reports(Beat(sync), obj[o].pid, obj[o].sent, Sent(sync)[o].sent)
  <1>1. obj \in [Obj -> Object]
    BY DEF IInv, TypeOK, Object
  <1>2. PICK m : m = Beat(sync)
    OBVIOUS
  <1>3. PICK d \in Rows : /\ d = Status(sync)
                          /\ \A o \in Table : /\ obj[o].pid \in Pid
                                               /\ d[obj[o].pid] = Delta(obj[o], sync)
                          /\ \A p \in Pid \ Pids :
                                d[p] = IF ~sync /\ p \in reported THEN Gone ELSE None
    BY StatusIs
  <1>4. IsFiniteSet(Table) /\ Cardinality(Table) \in Nat
        /\ (Cardinality(Table) = 0 => Table = {})
    BY FiniteAssumption, FS_Subset, FS_CardinalityType, FS_EmptySet DEF Table
  <1>5. m = [kind |-> "heartbeat", sync |-> sync, count |-> Cardinality(Table), rows |-> d]
    BY <1>2, <1>3 DEF Beat
  <1>6. m \in Message
    BY <1>4, <1>5 DEF Message
  <1>7. /\ m.kind = "heartbeat" /\ m.sync = sync /\ m.count = Cardinality(Table)
        /\ \A p : RowOf(m, p) = d[p]
    BY <1>5 DEF RowOf
  <1>8. (IsSync(m) <=> sync) /\ (IsDelta(m) <=> ~sync)
    BY <1>7 DEF IsSync, IsDelta
  <1>g. ~Gone.up /\ Gone # None
    <2>1. PICK f \in BOOLEAN : f = FALSE
      BY Zenon
    <2>2. PICK y : y = [static |-> f, up |-> f, val |-> None]
      OBVIOUS
    <2>3. y \in Row /\ y.up = f
      BY ONLY <2>2, f \in BOOLEAN DEF Row
    <2>4. Gone = y
      BY <2>1, <2>2 DEF Gone
    <2> QED
      BY <2>1, <2>3, <2>4, NoRowAssumption
  <1>o. \A o \in Table : obj[o] \in Object /\ obj[o].val # None
    BY <1>1 DEF Table, IInv, ObjectsFit
  <1>9. ASSUME NEW p \in Pid
        PROVE  /\ RowOf(m, p) # None => p \in Pids \cup reported
               /\ Shows(m, p) => p \in Pids
               /\ p \in reported /\ ~Hides(m, p) => p \in Pids
               /\ IsSync(m) /\ RowOf(m, p) # None => Gives(m, p)
    <2>1. CASE p \in Pids
      <3>1. PICK o \in Table : obj[o].pid = p
        BY <2>1 DEF Pids
      <3>2. RowOf(m, p) = Delta(obj[o], sync)
        BY <1>3, <1>7, <3>1
      <3>3. sync /\ RowOf(m, p) # None => RowOf(m, p).val = obj[o].val
        BY <1>o, <3>2, DeltaIs
      <3> QED
        BY <1>8, <1>o, <2>1, <3>3 DEF Gives
    <2>2. CASE p \notin Pids
      <3>1. RowOf(m, p) = IF ~sync /\ p \in reported THEN Gone ELSE None
        BY <1>3, <1>7, <2>2
      <3> QED
        BY <1>8, <1>g, <3>1 DEF Shows, Hides
    <2> QED
      BY <2>1, <2>2
  <1>10. ASSUME NEW o \in Table \ Monitored
         PROVE  Reports(m, obj[o].pid, obj[o].sent, Sent(sync)[o].sent)
    <2>1. PICK x \in Object : x = obj[o] /\ x.val # None /\ (x.change => x.up)
      BY <1>o DEF IInv, ObjectsFit, Table
    <2>2. PICK y : y = Delta(x, sync)
      OBVIOUS
    <2>3. /\ y # None <=> sync \/ x.change
          /\ y # None => /\ y.up = x.up
                         /\ y.val \in {x.val, None}
                         /\ sync \/ x.sent = None => y.val = x.val
                         /\ y.val = None => x.val = x.sent
      BY <2>1, <2>2, DeltaIs
    <2>4. RowOf(m, x.pid) = y
      BY <1>3, <1>7, <2>1, <2>2
    <2>5. Sent(sync)[o].sent = IF y # None THEN x.val ELSE x.sent
      <3>1. o \in Obj
        BY DEF Table
      <3>2. Sent(sync)[o] = IF y # None THEN [x EXCEPT !.sent = x.val] ELSE x
        BY <2>1, <2>2, <3>1 DEF Sent
      <3> QED
        BY <3>2 DEF Object
    <2>6. ~Clears(m)
      BY <1>4, <1>7 DEF Clears
    <2>7. Gives(m, x.pid) <=> y # None /\ y.val # None
      BY <2>4 DEF Gives
    <2>8. Reports(m, x.pid, x.sent, Sent(sync)[o].sent)
      BY <1>8, <2>1, <2>3, <2>4, <2>5, <2>6, <2>7 DEF Reports
    <2> QED
      BY <2>1, <2>8
  <1> QED
    BY <1>2, <1>6, <1>9, <1>10

LEMMA ReportStep ==
    ASSUME IInv, NEW sync \in BOOLEAN, Report(sync),
           UNCHANGED <<alive, used, link, init, serverVars>>, syncSent' \in BOOLEAN
    PROVE  IInv'
  <1>i. TypeOK /\ ObjectsFit /\ UsedFit /\ LinkFit /\ obj \in [Obj -> Object]
    BY DEF IInv, TypeOK, Object
  <1>u. UNCHANGED <<alive, used, link, init, srv, registered, view>>
    BY DEF serverVars
  <1>1. obj' = Sent(sync) /\ reported' = Pids /\ (clean' <=> clean /\ link.status = "up")
        /\ clean' \in BOOLEAN
    <2>1. clean' = (clean /\ link.status = "up")
      BY DEF Report
    <2>2. clean' \in BOOLEAN /\ (clean' <=> clean /\ link.status = "up")
      BY <2>1, Zenon
    <2> QED
      BY <2>2 DEF Report
  <1>2. \A o \in Obj : /\ obj'[o] \in Object /\ obj'[o].pid = obj[o].pid
                       /\ obj'[o].val = obj[o].val /\ obj'[o].change = obj[o].change
                       /\ obj'[o].up = obj[o].up
    <2> SUFFICES ASSUME NEW o \in Obj
                 PROVE  /\ obj'[o] \in Object /\ obj'[o].pid = obj[o].pid
                        /\ obj'[o].val = obj[o].val /\ obj'[o].change = obj[o].change
                        /\ obj'[o].up = obj[o].up
      OBVIOUS
    <2>1. PICK x \in Object : x = obj[o]
      BY <1>i
    <2>2. PICK y : y = [x EXCEPT !.sent = x.val]
      OBVIOUS
    <2>3. /\ y \in Object /\ y.pid = x.pid /\ y.val = x.val /\ y.change = x.change
          /\ y.up = x.up
      BY <2>2 DEF Object
    <2>4. obj'[o] = y \/ obj'[o] = x
      BY <1>1, <2>1, <2>2 DEF Sent
    <2> QED
      BY <2>1, <2>3, <2>4
  <1>3. obj' \in [Obj -> Object]
    BY <1>1, <1>2 DEF Sent
  <1>4. Table' = Table /\ ObjectsFit'
    BY <1>i, <1>u, <1>2 DEF Table, ObjectsFit
  <1>5. Pids \subseteq Pid /\ Pids \subseteq used
    BY <1>i DEF Pids, Table, Object, ObjectsFit
  <1>6. CASE link.status # "up"
    <2>1. wire' = wire
      BY <1>6 DEF Report, Send
    <2>2. TypeOK'
      BY <1>i, <1>u, <1>1, <1>3, <1>5, <2>1 DEF TypeOK, Object
    <2>3. UsedFit' /\ LinkFit'
      BY <1>i, <1>u, <1>1, <1>5, <1>6, <2>1 DEF UsedFit, LinkFit
    <2> QED
      BY <1>u, <1>1, <1>4, <1>6, <2>2, <2>3 DEF IInv
  <1>7. CASE link.status = "up"
    <2>1. PICK m \in Message :
             /\ m = Beat(sync)
             /\ \A p \in Pid : /\ RowOf(m, p) # None => p \in Pids \cup reported
                               /\ Shows(m, p) => p \in Pids
                               /\ p \in reported /\ ~Hides(m, p) => p \in Pids
                               /\ IsSync(m) /\ RowOf(m, p) # None => Gives(m, p)
             /\ \A o \in Table \ Monitored :
                   Reports(m, obj[o].pid, obj[o].sent, Sent(sync)[o].sent)
      BY BeatFits
    <2>2. link.conn \in Conn
      BY <1>i, <1>7 DEF LinkFit, TypeOK, Conn
    <2>3. W \in Seq(Message) /\ wire \in [Conn -> Seq(Message)]
      BY <1>i, <2>2 DEF W, TypeOK
    <2>4. PICK w2 : w2 = Append(W, m)
      OBVIOUS
    <2>5. w2 \in Seq(Message) /\ Extends(w2, W, m)
      BY <2>3, <2>4, AppendExtends
    <2>6. wire' = [wire EXCEPT ![link.conn] = w2]
      BY <1>7, <2>1, <2>4 DEF Report, Send, W
    <2>7. W' = w2 /\ wire' \in [Conn -> Seq(Message)]
          /\ \A c \in Conn \ {link.conn} : wire'[c] = wire[c]
      BY <1>u, <2>2, <2>3, <2>5, <2>6 DEF W
    <2>8. TypeOK'
      BY <1>i, <1>u, <1>1, <1>3, <1>5, <2>7 DEF TypeOK, Object
    <2>9. UsedFit'
      <3>1. ASSUME NEW c \in Conn, NEW i \in 1..Len(wire'[c]), NEW p \in Pid,
                   RowOf(wire'[c][i], p) # None
            PROVE  p \in used
        <4>1. CASE c # link.conn
          BY <1>i, <2>7, <3>1, <4>1 DEF UsedFit
        <4>2. CASE c = link.conn
          <5>1. wire'[c] = w2
            BY <1>u, <2>7, <4>2 DEF W
          <5>2. CASE i = Len(W) + 1
            BY <1>i, <1>5, <2>1, <2>5, <3>1, <5>1, <5>2 DEF UsedFit, Extends
          <5>3. CASE i \in 1..Len(W)
            BY <1>i, <2>2, <2>5, <3>1, <5>1, <5>3 DEF UsedFit, Extends, W
          <5> QED
            BY <2>5, <5>1, <5>2, <5>3 DEF Extends
        <4> QED
          BY <4>1, <4>2
      <3> QED
        BY <1>i, <1>u, <1>1, <1>5, <3>1 DEF UsedFit
    <2>10. LinkFit'
      <3>1. \A c \in Conn : c > link.conn => wire'[c] = <<>>
        BY <1>i, <2>2, <2>7 DEF LinkFit, Conn
      <3> QED
        BY <1>i, <1>u, <1>1, <3>1 DEF LinkFit
    <2>11. WireFit'
      <3>0. WireFit
        BY <1>7 DEF IInv
      <3>1. SyncGives(w2)
        <4> SUFFICES ASSUME NEW j \in 1..Len(w2), NEW p \in Pid, IsSync(w2[j]),
                            RowOf(w2[j], p) # None
                     PROVE  Gives(w2[j], p)
          BY DEF SyncGives
        <4>1. CASE j = Len(W) + 1
          BY <2>1, <2>5, <4>1 DEF Extends
        <4>2. CASE j \in 1..Len(W)
          BY <2>5, <3>0, <4>2 DEF Extends, WireFit, SyncGives
        <4> QED
          BY <2>5, <4>1, <4>2 DEF Extends
      <3>2. \A p \in Pid : WireShows(p, Pids, w2)
        BY <2>1, <2>5, <3>0, WireShowsExtended DEF WireFit
      <3>3. ASSUME NEW o \in Table \ Monitored
            PROVE  WireFits(obj'[o].pid, obj'[o].sent, w2)
        <4>1. Reports(m, obj[o].pid, obj[o].sent, obj'[o].sent)
          BY <1>1, <2>1
        <4>2. WireFits(obj[o].pid, obj[o].sent, W)
          BY <3>0 DEF WireFit
        <4>3. WireFits(obj[o].pid, obj'[o].sent, w2)
          BY <2>5, <4>1, <4>2, WireFitsExtended
        <4> QED
          BY <1>2, <4>3 DEF Table
      <3> QED
        BY <1>1, <1>4, <2>7, <3>1, <3>2, <3>3 DEF WireFit
    <2>12. ASSUME clean PROVE ViewFit'
      <3>0. ViewFit
        BY <2>12 DEF IInv
      <3>1. \A p \in Pid : ViewShows(p, Pids, w2, view[p])
        BY <2>1, <2>5, <3>0, ViewShowsExtended DEF ViewFit
      <3>2. ASSUME NEW o \in Table \ Monitored
            PROVE  ViewFits(obj'[o].pid, obj'[o].sent, w2, view[obj'[o].pid])
        <4>1. Reports(m, obj[o].pid, obj[o].sent, obj'[o].sent)
          BY <1>1, <2>1
        <4>2. ViewFits(obj[o].pid, obj[o].sent, W, view[obj[o].pid])
          BY <3>0 DEF ViewFit
        <4>3. ViewFits(obj[o].pid, obj'[o].sent, w2, view[obj[o].pid])
          BY <2>5, <4>1, <4>2, ViewFitsExtended
        <4> QED
          BY <1>2, <4>3 DEF Table
      <3> QED
        BY <1>1, <1>4, <1>u, <2>7, <3>1, <3>2 DEF ViewFit
    <2> QED
      BY <1>1, <1>4, <2>8, <2>9, <2>10, <2>11, <2>12 DEF IInv
  <1> QED
    BY <1>6, <1>7

LEMMA BeatSteps ==
    ASSUME IInv, MainLoop \/ TrackingEnabled
    PROVE  IInv'
  <1>1. CASE MainLoopBeats
    <2>1. PICK b \in BOOLEAN, t \in BOOLEAN : b = ~syncSent /\ t = TRUE
      BY Zenon
    <2>2. Report(b) /\ syncSent' = t /\ UNCHANGED <<alive, used, link, init, serverVars>>
      BY <1>1, <2>1 DEF MainLoopBeats
    <2> QED
      BY <2>2, ReportStep
  <1>2. CASE MainLoopWaits
    <2>1. PICK f \in BOOLEAN : f = FALSE
      BY Zenon
    <2>2. /\ UNCHANGED <<alive, used, obj, reported, link, init, wire, srv, registered, view, clean>>
          /\ syncSent' = f
      BY <1>2, <2>1 DEF MainLoopWaits, agentVars, serverVars
    <2>3. TypeOK'
      BY <2>2 DEF IInv, TypeOK
    <2>4. ObjectsFit' /\ UsedFit' /\ LinkFit'
      BY <2>2 DEF IInv, ObjectsFit, Table, UsedFit, LinkFit
    <2>5. (link'.status = "up" => WireFit') /\ (clean' => ViewFit')
      BY <2>2 DEF IInv, WireFit, ViewFit, W, Table
    <2> QED
      BY <2>3, <2>4, <2>5 DEF IInv
  <1>3. CASE TrackingEnabled
    <2>1. PICK t \in BOOLEAN : t = TRUE
      BY Zenon
    <2>2. Report(t) /\ UNCHANGED <<alive, used, link, init, serverVars>> /\ syncSent' = syncSent
      BY <1>3, <2>1 DEF TrackingEnabled, linkVars
    <2>3. syncSent \in BOOLEAN
      BY DEF IInv, TypeOK
    <2> QED
      BY <2>2, <2>3, ReportStep
  <1> QED
    BY <1>1, <1>2, <1>3 DEF MainLoop

-----------------------------------------------------------------------------
(* The connection.                                                         *)

LEMMA BreakStep ==
    ASSUME IInv, NEW n \in 0..MaxWire + 1, Break(n)
    PROVE  IInv'
  <1>i. TypeOK /\ ObjectsFit /\ UsedFit /\ LinkFit
    BY DEF IInv
  <1>1. /\ UNCHANGED <<alive, used, obj, reported, init, syncSent, srv, registered, view>>
        /\ link.status = "up" /\ link' = [link EXCEPT !.status = "down"]
        /\ n \in 0..Len(wire[link.conn])
        /\ wire' = [wire EXCEPT ![link.conn] = SubSeq(wire[link.conn], 1, n)]
    BY DEF Break, agentVars, serverVars
  <1>2. link.conn \in Conn /\ link'.conn = link.conn /\ link'.status = "down"
        /\ link' \in [status : {"down", "up"}, conn : 0..MaxConn]
    BY <1>i, <1>1 DEF LinkFit, TypeOK, Conn
  <1>3. PICK w \in Seq(Message) : w = wire[link.conn]
    BY <1>i, <1>2 DEF TypeOK
  <1>4. PICK w2 : w2 = SubSeq(w, 1, n)
    OBVIOUS
  <1>5. w2 \in Seq(Message) /\ Len(w2) = n /\ n <= Len(w) /\ \A i \in 1..n : w2[i] = w[i]
    <2>1. n \in Int /\ 1 \in Int /\ n <= Len(w) /\ \A i \in 1..n : w[i] \in Message
      BY <1>1, <1>3
    <2>2. /\ w2 \in Seq(Message) /\ Len(w2) = IF 1 <= n THEN n - 1 + 1 ELSE 0
          /\ \A i \in 1..(n - 1 + 1) : w2[i] = w[1 + i - 1]
      BY <1>4, <2>1, SubSeqProperties
    <2> QED
      BY <2>1, <2>2
  <1>6. wire' = [wire EXCEPT ![link.conn] = w2]
    BY <1>1, <1>3, <1>4
  <1>7. /\ wire' \in [Conn -> Seq(Message)] /\ wire'[link.conn] = w2
        /\ \A c \in Conn \ {link.conn} : wire'[c] = wire[c]
    BY <1>i, <1>2, <1>5, <1>6 DEF TypeOK
  <1>8. clean' \in BOOLEAN /\ ~clean'
    <2>1. clean' = FALSE
      BY DEF Break
    <2> QED
      BY <2>1, Zenon
  <1>9. TypeOK'
    BY <1>i, <1>1, <1>2, <1>7, <1>8 DEF TypeOK
  <1>10. ObjectsFit'
    BY <1>i, <1>1 DEF ObjectsFit, Table
  <1>11. ASSUME NEW c \in Conn, NEW i \in 1..Len(wire'[c]), NEW p \in Pid,
                RowOf(wire'[c][i], p) # None
         PROVE  p \in used
    BY <1>i, <1>2, <1>3, <1>5, <1>7, <1>11 DEF UsedFit
  <1>12. UsedFit'
    BY <1>i, <1>1, <1>11 DEF UsedFit
  <1>13. LinkFit'
    BY <1>i, <1>2, <1>7, <1>8 DEF LinkFit, Conn, TypeOK
  <1> QED
    BY <1>2, <1>8, <1>9, <1>10, <1>12, <1>13 DEF IInv

LEMMA ReconnectStep ==
    ASSUME IInv, Reconnect
    PROVE  IInv'
  <1>i. TypeOK /\ ObjectsFit /\ UsedFit /\ LinkFit
    BY DEF IInv
  <1>1. /\ UNCHANGED <<alive, used, obj, reported, syncSent, wire, registered, view, clean>>
        /\ link.status = "down" /\ link.conn < MaxConn
        /\ link' = [status |-> "up", conn |-> link.conn + 1]
        /\ srv' = [srv EXCEPT ![link.conn + 1] = "open"]
    BY DEF Reconnect, agentVars
  <1>2. PICK c \in Conn : c = link.conn + 1 /\ link'.conn = c /\ link'.status = "up"
    BY <1>i, <1>1, ConnAssumption DEF TypeOK, Conn
  <1>3. link' \in [status : {"down", "up"}, conn : 0..MaxConn] /\ ~clean
    BY <1>i, <1>1, <1>2, ConnAssumption DEF TypeOK, Conn, LinkFit
  <1>4. init' \in BOOLEAN
    <2>1. init' = FALSE
      BY DEF Reconnect
    <2> QED
      BY <2>1, Zenon
  <1>5. TypeOK'
    BY <1>i, <1>1, <1>3, <1>4 DEF TypeOK
  <1>6. ObjectsFit' /\ UsedFit'
    BY <1>i, <1>1 DEF ObjectsFit, Table, UsedFit
  <1>7. W' = <<>>
    BY <1>i, <1>1, <1>2 DEF W, LinkFit, TypeOK, Conn
  <1>8. LinkFit'
    BY <1>i, <1>1, <1>2, <1>3, ConnAssumption DEF LinkFit, TypeOK, Conn
  <1>9. WireFit'
    <2>1. Len(W') = 0 /\ 1..Len(W') = {}
      BY <1>7
    <2>2. /\ SyncGives(W') /\ \A p \in Pid : WireShows(p, reported', W')
          /\ \A p, s : WireFits(p, s, W')
      BY <2>1 DEF SyncGives, WireShows, WireFits
    <2> QED
      BY <2>2 DEF WireFit
  <1> QED
    BY <1>1, <1>3, <1>5, <1>6, <1>8, <1>9 DEF IInv

LEMMA GreetedStep ==
    ASSUME IInv, Greeted
    PROVE  IInv'
  <1>i. TypeOK /\ ObjectsFit /\ UsedFit /\ LinkFit /\ WireFit
    BY DEF IInv, Greeted
  <1>1. PICK m \in Message : m = [kind |-> "handshake"]
    BY DEF Message
  <1>2. /\ UNCHANGED <<alive, used, obj, reported, link, syncSent, srv, registered, view, clean>>
        /\ link.status = "up"
        /\ wire' = [wire EXCEPT ![link.conn] = Append(@, m)]
    BY <1>1 DEF Greeted, agentVars, serverVars, Send
  <1>3. \A p : /\ RowOf(m, p) = None /\ ~Shows(m, p) /\ ~Hides(m, p) /\ ~IsSync(m)
              /\ \A s : Reports(m, p, s, s)
    BY <1>1 DEF RowOf, Shows, Hides, IsSync, Reports, Gives, IsDelta, Clears
  <1>4. link.conn \in Conn /\ W \in Seq(Message)
    BY <1>i, <1>2 DEF LinkFit, TypeOK, Conn, W
  <1>5. PICK w2 \in Seq(Message) : w2 = Append(W, m) /\ Extends(w2, W, m)
    BY <1>4, AppendExtends
  <1>6. /\ W' = w2 /\ wire' \in [Conn -> Seq(Message)] /\ wire'[link.conn] = w2
        /\ \A c \in Conn \ {link.conn} : wire'[c] = wire[c]
    <2>1. wire' = [wire EXCEPT ![link.conn] = w2]
      BY <1>2, <1>5 DEF W
    <2> QED
      BY <1>i, <1>2, <1>4, <2>1 DEF TypeOK, W
  <1>7. init' \in BOOLEAN
    <2>1. init' = TRUE
      BY DEF Greeted
    <2> QED
      BY <2>1, Zenon
  <1>8. TypeOK'
    BY <1>i, <1>2, <1>6, <1>7 DEF TypeOK
  <1>9. ObjectsFit'
    BY <1>i, <1>2 DEF ObjectsFit, Table
  <1>10. ASSUME NEW c \in Conn, NEW i \in 1..Len(wire'[c]), NEW p \in Pid,
                RowOf(wire'[c][i], p) # None
         PROVE  p \in used
    <2>1. CASE c # link.conn
      BY <1>i, <1>6, <1>10, <2>1 DEF UsedFit
    <2>2. CASE c = link.conn
      <3>1. i \in 1..Len(W) /\ w2[i] = W[i]
        BY <1>3, <1>5, <1>6, <1>10, <2>2 DEF Extends
      <3> QED
        BY <1>i, <1>4, <1>6, <1>10, <2>2, <3>1 DEF UsedFit, W
    <2> QED
      BY <2>1, <2>2
  <1>11. UsedFit'
    BY <1>i, <1>2, <1>10 DEF UsedFit
  <1>12. LinkFit'
    BY <1>i, <1>2, <1>4, <1>6 DEF LinkFit, Conn
  <1>13. WireFit'
    <2>1. SyncGives(w2)
      BY <1>i, <1>3, <1>5 DEF Extends, SyncGives, WireFit
    <2>2. \A p \in Pid : WireShows(p, reported, w2)
      BY <1>i, <1>3, <1>5, WireShowsExtended DEF WireFit
    <2>3. \A o \in Table \ Monitored : WireFits(obj[o].pid, obj[o].sent, w2)
      BY <1>i, <1>3, <1>5, WireFitsExtended DEF WireFit
    <2> QED
      BY <1>2, <1>6, <2>1, <2>2, <2>3 DEF WireFit, Table
  <1>14. ASSUME clean PROVE ViewFit'
    <2>0. ViewFit
      BY <1>14 DEF IInv
    <2>1. \A p \in Pid : ViewShows(p, reported, w2, view[p])
      BY <1>3, <1>5, <2>0, ViewShowsExtended DEF ViewFit
    <2>2. \A o \in Table \ Monitored : ViewFits(obj[o].pid, obj[o].sent, w2, view[obj[o].pid])
      BY <1>3, <1>5, <2>0, ViewFitsExtended DEF ViewFit
    <2> QED
      BY <1>2, <1>6, <2>1, <2>2 DEF ViewFit, Table
  <1> QED
    BY <1>2, <1>8, <1>9, <1>11, <1>12, <1>13, <1>14 DEF IInv

-----------------------------------------------------------------------------
(* The server.                                                             *)

\* What the server does to what is under way and to its picture: it takes or discards
\* messages, and what it shows afterwards has been used.
LEMMA ServerMoves ==
    ASSUME IInv, UNCHANGED <<alive, used, agentVars, linkVars>>,
           wire' \in [Conn -> Seq(Message)],
           \A c \in Conn : wire'[c] = wire[c] \/ wire'[c] = <<>> \/ Drops(wire'[c], wire[c]),
           link.status = "up" => wire'[link.conn] = wire[link.conn]
                                 \/ Drops(wire'[link.conn], wire[link.conn]),
           srv' \in [Conn -> {"none", "open", "auth", "ended"}], registered' \in 0..MaxConn,
           view' \in Rows, \A p \in Pid : view'[p] # None => p \in used,
           clean' \in BOOLEAN,
           clean' => link.status = "up" /\ registered' = link.conn /\ ViewFit'
    PROVE  IInv'
  <1>i. TypeOK /\ ObjectsFit /\ UsedFit /\ LinkFit
    BY DEF IInv
  <1>u. UNCHANGED <<alive, used, obj, reported, link, init, syncSent>>
    BY DEF agentVars, linkVars
  <1>1. TypeOK' /\ ObjectsFit'
    BY <1>i, <1>u DEF TypeOK, ObjectsFit, Table
  <1>2. ASSUME NEW c \in Conn, NEW i \in 1..Len(wire'[c]), NEW p \in Pid,
               RowOf(wire'[c][i], p) # None
        PROVE  p \in used
    <2>1. CASE wire'[c] = wire[c]
      BY <1>i, <1>2, <2>1 DEF UsedFit
    <2>2. CASE wire'[c] = <<>>
      BY <1>2, <2>2
    <2>3. CASE Drops(wire'[c], wire[c])
      <3>1. i + 1 \in 1..Len(wire[c]) /\ wire'[c][i] = wire[c][i + 1]
        BY <1>2, <2>3 DEF Drops
      <3> QED
        BY <1>i, <1>2, <3>1 DEF UsedFit
    <2> QED
      BY <2>1, <2>2, <2>3
  <1>3. UsedFit'
    BY <1>i, <1>u, <1>2 DEF UsedFit
  <1>4. \A c \in Conn : wire[c] = <<>> => wire'[c] = <<>>
    BY DEF Drops
  <1>5. LinkFit'
    BY <1>i, <1>u, <1>4 DEF LinkFit
  <1>6. link.status = "up" => WireFit'
    <2> SUFFICES ASSUME link.status = "up" PROVE WireFit'
      OBVIOUS
    <2>1. WireFit /\ (W' = W \/ Drops(W', W))
      BY <1>u DEF IInv, W
    <2>2. /\ SyncGives(W') /\ \A p \in Pid : WireShows(p, reported, W')
          /\ \A o \in Table \ Monitored : WireFits(obj[o].pid, obj[o].sent, W')
      <3>1. CASE W' = W
        BY <2>1, <3>1 DEF WireFit
      <3>2. CASE Drops(W', W)
        BY <2>1, <3>2, WireDropped DEF WireFit
      <3> QED
        BY <2>1, <3>1, <3>2
    <2> QED
      BY <1>u, <2>2 DEF WireFit, Table
  <1> QED
    BY <1>1, <1>3, <1>5, <1>6, <1>u DEF IInv

LEMMA MergedIs ==
    ASSUME NEW old \in Row \cup {None}, NEW new \in Row \cup {None}
    PROVE  /\ Merged(old, new) \in Row \cup {None}
           /\ Merged(old, new) # None => /\ old # None \/ new # None
                                         /\ new # None => new.up
  <1>1. CASE new = None \/ (new # None /\ ~new.up) \/ old = None
    BY <1>1 DEF Merged
  <1>2. CASE new # None /\ new.up /\ old # None
    <2>1. PICK st \in BOOLEAN, t \in BOOLEAN : st = (old.static \/ new.static) /\ t = TRUE
      BY Zenon
    <2>2. PICK val : val = IF new.val # None THEN new.val ELSE old.val
      OBVIOUS
    <2>3. PICK y : y = [static |-> st, up |-> t, val |-> val]
      OBVIOUS
    <2>4. val \in Val \cup {None}
      BY <1>2, <2>2 DEF Row
    <2>5. y \in Row
      BY ONLY <2>3, <2>4, st \in BOOLEAN, t \in BOOLEAN DEF Row
    <2>6. Merged(old, new) = y
      BY <1>2, <2>1, <2>2, <2>3, Zenon DEF Merged
    <2> QED
      BY <1>2, <2>5, <2>6
  <1> QED
    BY <1>1, <1>2

LEMMA AcceptStep ==
    ASSUME IInv, NEW c \in Conn, Accept(c)
    PROVE  IInv'
  <1>1. /\ UNCHANGED <<alive, used, agentVars, linkVars, view>> /\ wire[c] # <<>>
        /\ wire' = [wire EXCEPT ![c] = Tail(wire[c])] /\ registered' = c
        /\ srv' = [srv EXCEPT ![c] = "auth"]
    BY DEF Accept
  <1>2. TypeOK /\ UsedFit /\ wire[c] \in Seq(Message) /\ c \in 0..MaxConn
    BY ConnAssumption DEF IInv, TypeOK, Conn
  <1>3. Tail(wire[c]) \in Seq(Message) /\ Drops(Tail(wire[c]), wire[c])
    BY <1>1, <1>2, TailDrops
  <1>4. wire' \in [Conn -> Seq(Message)]
        /\ \A b \in Conn : wire'[b] = wire[b] \/ Drops(wire'[b], wire[b])
    BY <1>1, <1>2, <1>3 DEF TypeOK
  <1>5. clean' \in BOOLEAN /\ ~clean'
    <2>1. clean' = FALSE
      BY DEF Accept
    <2> QED
      BY <2>1, Zenon
  <1>6. srv' \in [Conn -> {"none", "open", "auth", "ended"}] /\ registered' \in 0..MaxConn
        /\ view' \in Rows /\ \A p \in Pid : view'[p] # None => p \in used
    BY <1>1, <1>2 DEF TypeOK, UsedFit
  <1>7. link.status = "up" => link.conn \in Conn
    BY DEF IInv, LinkFit, TypeOK, Conn
  <1> QED
    BY <1>1, <1>4, <1>5, <1>6, <1>7, ServerMoves

LEMMA MergeStep ==
    ASSUME IInv, NEW c \in Conn, MergeHeartbeat(c)
    PROVE  IInv'
  <1>i. TypeOK /\ UsedFit /\ LinkFit
    BY DEF IInv
  <1>1. /\ UNCHANGED <<alive, used, agentVars, linkVars, srv, registered>> /\ wire[c] # <<>>
        /\ wire' = [wire EXCEPT ![c] = Tail(wire[c])]
    BY DEF MergeHeartbeat
  <1>2. PICK w \in Seq(Message), w2 \in Seq(Message) : w = wire[c] /\ w2 = Tail(w)
    BY <1>i, <1>1, TailDrops DEF TypeOK
  <1>3. w2 \in Seq(Message) /\ Drops(w2, w) /\ Head(w) = w[1] /\ w[1] \in Message
    BY <1>1, <1>2, TailDrops
  <1>4. PICK m \in Message : m = w[1]
    BY <1>3
  <1>5. m.kind = "heartbeat" /\ view' = MergedView(m)
    BY <1>2, <1>3, <1>4 DEF MergeHeartbeat
  <1>6. m.rows \in Rows /\ m.sync \in BOOLEAN /\ (\A p : RowOf(m, p) = m.rows[p])
        /\ (IsSync(m) <=> m.sync) /\ (IsDelta(m) <=> ~m.sync)
    <2>1. m \in [kind : {"heartbeat"}, sync : BOOLEAN, count : Nat, rows : Rows]
      BY <1>5 DEF Message
    <2> QED
      BY <1>5, <2>1 DEF RowOf, IsSync, IsDelta
  <1>7. \A p \in Pid : m.rows[p] \in Row \cup {None} /\ view[p] \in Row \cup {None}
    BY <1>i, <1>6 DEF Rows, TypeOK
  <1>8. \A p \in Pid : view'[p] = IF m.sync THEN RowOf(m, p)
                                  ELSE IF Clears(m) THEN None
                                  ELSE Merged(view[p], RowOf(m, p))
    BY <1>5, <1>6 DEF MergedView, Clears, NoRows
  <1>9. \A p \in Pid : view'[p] \in Row \cup {None}
    BY <1>6, <1>7, <1>8, MergedIs
  <1>10. view' \in Rows
    <2>1. CASE m.sync
      BY <1>5, <1>6, <2>1 DEF MergedView
    <2>2. CASE ~m.sync /\ m.rows = NoRows /\ m.count = 0
      BY <1>5, <2>2 DEF MergedView, NoRows, Rows
    <2>3. CASE ~m.sync /\ ~(m.rows = NoRows /\ m.count = 0)
      <3>1. view' = [p \in Pid |-> Merged(view[p], m.rows[p])]
        BY <1>5, <2>3 DEF MergedView
      <3> QED
        BY <1>7, <3>1, MergedIs DEF Rows
    <2> QED
      BY <2>1, <2>2, <2>3
  <1>11. \A p \in Pid : view'[p] # None => p \in used
    <2> SUFFICES ASSUME NEW p \in Pid, view'[p] # None PROVE p \in used
      OBVIOUS
    <2>1. view[p] # None \/ RowOf(m, p) # None
      BY <1>6, <1>7, <1>8, MergedIs
    <2>2. 1 \in 1..Len(wire[c]) /\ m = wire[c][1]
      BY <1>2, <1>3, <1>4 DEF Drops
    <2> QED
      BY <1>i, <2>1, <2>2 DEF UsedFit
  <1>12. wire' \in [Conn -> Seq(Message)] /\ wire'[c] = w2
         /\ \A b \in Conn : wire'[b] = wire[b] \/ Drops(wire'[b], wire[b])
    BY <1>i, <1>1, <1>2, <1>3 DEF TypeOK
  <1>13. /\ clean' \in BOOLEAN
         /\ clean' <=> /\ c = registered /\ c = link.conn /\ link.status = "up"
                       /\ clean \/ m.sync
    <2>1. clean' = (c = registered /\ c = link.conn /\ link.status = "up"
                    /\ (clean \/ m.sync))
      BY <1>2, <1>3, <1>4 DEF MergeHeartbeat
    <2> QED
      BY <2>1, Zenon
  <1>14. ASSUME clean' PROVE ViewFit'
    <2>1. c = link.conn /\ link.status = "up" /\ (clean \/ m.sync)
      BY <1>13, <1>14
    <2>2. WireFit /\ W = w
      BY <1>2, <2>1 DEF IInv, W
    <2>3. W' = w2 /\ UNCHANGED <<obj, reported>>
      BY <1>1, <1>12, <2>1 DEF W, linkVars, agentVars
    <2>4. ASSUME NEW p \in Pid PROVE ViewShows(p, reported, w2, view'[p])
      <3>1. WireShows(p, reported, w)
        BY <2>2 DEF WireFit
      <3>2. ASSUME view'[p] # None
            PROVE  \/ Shows(w[1], p)
                   \/ ViewShows(p, reported, w, view[p]) /\ view[p] # None /\ ~Hides(w[1], p)
        <4>1. CASE m.sync
          BY <1>4, <1>6, <1>8, <3>2, <4>1 DEF Shows
        <4>2. CASE ~m.sync
          <5>1. view'[p] = Merged(view[p], RowOf(m, p))
            BY <1>8, <3>2, <4>2
          <5>2. /\ view[p] # None \/ RowOf(m, p) # None
                /\ RowOf(m, p) # None => RowOf(m, p).up
            BY <1>6, <1>7, <3>2, <5>1, MergedIs
          <5>3. ViewShows(p, reported, w, view[p])
            BY <2>1, <2>2, <4>2 DEF IInv, ViewFit
          <5> QED
            BY <1>4, <1>6, <4>2, <5>2, <5>3 DEF Shows, Hides
        <4> QED
          BY <4>1, <4>2
      <3> QED
        BY <1>3, <3>1, <3>2, ViewShowsDropped
    <2>5. ASSUME NEW o \in Table \ Monitored
          PROVE  ViewFits(obj[o].pid, obj[o].sent, w2, view'[obj[o].pid])
      <3>1. PICK p \in Pid : p = obj[o].pid
        BY <1>i DEF TypeOK, Table
      <3>2. PICK s, v2 : s = obj[o].sent /\ v2 = view'[p]
        OBVIOUS
      <3>3. WireFits(p, s, w)
        BY <2>2, <3>1, <3>2 DEF WireFit
      <3>4. CASE m.sync
        <4>1. IsSync(w[1]) /\ v2 = RowOf(w[1], p)
          BY <1>4, <1>6, <1>8, <3>2, <3>4
        <4>2. v2 # None => Gives(w[1], p)
          <5>1. 1 \in 1..Len(w)
            BY <1>3 DEF Drops
          <5> QED
            BY <2>2, <4>1, <5>1 DEF WireFit, SyncGives
        <4>3. ViewFits(p, s, w2, v2)
          BY <1>3, <3>3, <4>1, <4>2, ViewFitsSynced
        <4> QED
          BY <3>1, <3>2, <4>3
      <3>5. CASE ~m.sync
        <4>1. PICK v : v = view[p]
          OBVIOUS
        <4>2. ViewFits(p, s, w, v)
          BY <2>1, <2>2, <3>1, <3>2, <3>5, <4>1 DEF IInv, ViewFit
        <4>3. /\ IsDelta(w[1]) /\ (v # None => v \in Row)
              /\ (RowOf(w[1], p) # None => RowOf(w[1], p) \in Row)
              /\ v2 = IF Clears(w[1]) THEN None ELSE Merged(v, RowOf(w[1], p))
          BY <1>4, <1>6, <1>7, <1>8, <3>2, <3>5, <4>1
        <4>4. ViewFits(p, s, w2, v2)
          BY ONLY p \in Pid, <1>3, <3>3, <4>2, <4>3, ViewFitsMerged
        <4> QED
          BY <3>1, <3>2, <4>4
      <3> QED
        BY <3>4, <3>5
    <2> QED
      BY <2>3, <2>4, <2>5 DEF ViewFit, Table
  <1>15. /\ srv' \in [Conn -> {"none", "open", "auth", "ended"}] /\ registered' \in 0..MaxConn
         /\ clean' => link.status = "up" /\ registered' = link.conn /\ ViewFit'
         /\ link.status = "up" => link.conn \in Conn
    BY <1>i, <1>1, <1>13, <1>14 DEF TypeOK, LinkFit, Conn
  <1> QED
    BY <1>1, <1>10, <1>11, <1>12, <1>13, <1>15, ServerMoves

LEMMA EndSteps ==
    ASSUME IInv, TimeoutAgent \/ \E c \in Conn : SessionEnds(c)
    PROVE  IInv'
  <1>i. TypeOK /\ UsedFit /\ LinkFit /\ (link.status = "up" => link.conn \in Conn)
    BY DEF IInv, LinkFit, TypeOK, Conn
  <1>n. NoRows \in Rows /\ \A p \in Pid : NoRows[p] = None
    BY DEF NoRows, Rows
  <1>f. ASSUME clean' = FALSE PROVE clean' \in BOOLEAN /\ ~clean'
    BY <1>f, Zenon
  <1>1. CASE TimeoutAgent
    <2>1. /\ UNCHANGED <<alive, used, agentVars, linkVars, wire, srv>> /\ registered' = 0
          /\ view' = NoRows /\ clean' = FALSE
      BY <1>1 DEF TimeoutAgent, Reset
    <2>2. /\ wire' \in [Conn -> Seq(Message)] /\ registered' \in 0..MaxConn
          /\ srv' \in [Conn -> {"none", "open", "auth", "ended"}]
      BY <1>i, <2>1, ConnAssumption DEF TypeOK
    <2>3. clean' \in BOOLEAN /\ ~clean'
      BY <1>f, <2>1
    <2>4. view' \in Rows /\ \A p \in Pid : view'[p] # None => p \in used
      BY <1>n, <2>1
    <2>5. /\ \A c \in Conn : wire'[c] = wire[c]
          /\ link.status = "up" => wire'[link.conn] = wire[link.conn]
      BY <2>1
    <2>6. UNCHANGED <<alive, used, agentVars, linkVars>>
      BY <2>1
    <2> QED
      BY <2>2, <2>3, <2>4, <2>5, <2>6, ServerMoves
  <1>2. ASSUME NEW c \in Conn, SessionEnds(c) PROVE IInv'
    <2>1. /\ UNCHANGED <<alive, used, agentVars, linkVars>>
          /\ link.conn # c \/ link.status # "up"
          /\ srv' = [srv EXCEPT ![c] = "ended"] /\ wire' = [wire EXCEPT ![c] = <<>>]
          /\ \/ registered \in {0, c} /\ view' = NoRows /\ registered' = 0 /\ clean' = FALSE
             \/ UNCHANGED <<registered, view, clean>>
      BY <1>2 DEF SessionEnds, Reset
    <2>2. /\ wire' \in [Conn -> Seq(Message)]
          /\ \A b \in Conn : wire'[b] = wire[b] \/ wire'[b] = <<>>
          /\ link.status = "up" => wire'[link.conn] = wire[link.conn]
          /\ srv' \in [Conn -> {"none", "open", "auth", "ended"}]
      BY <1>i, <2>1 DEF TypeOK
    <2>3. CASE view' = NoRows /\ registered' = 0 /\ clean' = FALSE
      <3>1. clean' \in BOOLEAN /\ ~clean'
        BY <1>f, <2>3
      <3>2. registered' \in 0..MaxConn
        BY <2>3, ConnAssumption
      <3>3. view' \in Rows /\ \A p \in Pid : view'[p] # None => p \in used
        BY <1>n, <2>3
      <3> QED
        BY <2>1, <2>2, <3>1, <3>2, <3>3, ServerMoves
    <2>4. CASE UNCHANGED <<registered, view, clean>>
      <3>1. /\ registered' \in 0..MaxConn /\ view' \in Rows /\ clean' \in BOOLEAN
            /\ \A p \in Pid : view'[p] # None => p \in used
        BY <1>i, <2>4 DEF TypeOK, UsedFit
      <3>2. ASSUME clean' PROVE link.status = "up" /\ registered' = link.conn /\ ViewFit'
        <4>1. clean /\ link.status = "up" /\ registered' = link.conn /\ ViewFit
          BY <1>i, <2>4, <3>2 DEF LinkFit, IInv
        <4>2. UNCHANGED <<obj, reported, link, view>>
          BY <2>1, <2>4 DEF agentVars, linkVars
        <4>3. W' = W
          BY <2>2, <4>1, <4>2 DEF W
        <4> QED
          BY <4>1, <4>2, <4>3 DEF ViewFit, Table
      <3> QED
        BY <2>1, <2>2, <3>1, <3>2, ServerMoves
    <2> QED
      BY <2>1, <2>3, <2>4
  <1> QED
    BY <1>1, <1>2

-----------------------------------------------------------------------------
(* The theorems.                                                           *)

LEMMA InitIInv ==
    ASSUME Init
    PROVE  IInv
  <1>1. PICK f \in BOOLEAN : f = FALSE
    BY Zenon
  <1>2. init = f /\ syncSent = f /\ clean = f /\ ~clean
    BY <1>1 DEF Init
  <1>3. obj \in [Obj -> Object] /\ \A o \in Obj : obj[o] = Unused
    BY UnusedIs DEF Init
  <1>4. view \in Rows /\ \A p \in Pid : view[p] = None
    BY DEF Init, NoRows, Rows
  <1>5. wire \in [Conn -> Seq(Message)] /\ \A c \in Conn : wire[c] = <<>>
    BY DEF Init
  <1>6. link \in [status : {"down", "up"}, conn : 0..MaxConn] /\ link.status = "down"
        /\ registered \in 0..MaxConn
    BY ConnAssumption DEF Init
  <1>7. TypeOK
    BY <1>2, <1>3, <1>4, <1>5, <1>6 DEF Init, TypeOK, Object
  <1>8. ObjectsFit
    BY <1>3, UnusedIs DEF ObjectsFit, Table
  <1>9. UsedFit
    BY <1>4, <1>5 DEF UsedFit, Init
  <1>10. LinkFit
    BY <1>2, <1>5, <1>6 DEF LinkFit
  <1> QED
    BY <1>2, <1>6, <1>7, <1>8, <1>9, <1>10 DEF IInv

LEMMA NextIInv ==
    ASSUME IInv, [Next]_vars
    PROVE  IInv'
  <1>1. CASE UNCHANGED vars
    <2>1. /\ UNCHANGED <<alive, used, obj, reported, link, init, syncSent, wire>>
          /\ UNCHANGED <<srv, registered, view, clean>>
      BY <1>1 DEF vars, agentVars, linkVars, serverVars
    <2>2. TypeOK' /\ ObjectsFit' /\ UsedFit' /\ LinkFit'
      BY <2>1 DEF IInv, TypeOK, ObjectsFit, Table, UsedFit, LinkFit
    <2>3. (link'.status = "up" => WireFit') /\ (clean' => ViewFit')
      BY <2>1 DEF IInv, WireFit, ViewFit, W, Table
    <2> QED
      BY <2>2, <2>3 DEF IInv
  <1>2. CASE \E c \in Conn : Receive(c) \/ SessionEnds(c)
    BY <1>2, AcceptStep, MergeStep, EndSteps DEF Receive
  <1>3. CASE \E n \in 0..MaxWire + 1 : Break(n)
    BY <1>3, BreakStep
  <1>4. CASE \E o \in Obj, p \in Pid, v \in Val :
                StartProgram(o, p, v) \/ \E denied \in BOOLEAN : Discover(o, p, v, denied)
    BY <1>4, StartStep
  <1>5. CASE \E p \in Pid : Exit(p)
    BY <1>5, ExitStep
  <1> QED
    BY <1>1, <1>2, <1>3, <1>4, <1>5, TickSteps, BeatSteps, ReconnectStep, GreetedStep,
       EndSteps DEF Next

\* Whatever the loops of the agent, Windows, the network and the server do in whatever
\* order, the picture and the heartbeats under way add up.
THEOREM HeartbeatsInvariant == Spec => []IInv
  <1>1. Init => IInv
    BY InitIInv
  <1>2. IInv /\ [Next]_vars => IInv'
    BY NextIInv
  <1> QED
    BY <1>1, <1>2, PTL DEF Spec

\* Deltas add up: once a sync has been merged, and as long as no heartbeat is lost, the
\* server shows, whenever nothing is under way, only processes the agent last reported,
\* each with the reading the agent last sent of it (get_status on the agent,
\* merge_heartbeat on the server).
THEOREM ViewOKCorrect == Spec => []ViewOK
  <1>1. IInv => ViewOK
    <2> SUFFICES ASSUME IInv PROVE ViewOK
      OBVIOUS
    <2>1. ASSUME clean, Quiet, NEW p \in Pid, view[p] # None
          PROVE  /\ p \in reported
                 /\ p \in Pids /\ HolderOf(p) \notin Monitored => view[p].val = obj[HolderOf(p)].sent
      <3>1. ViewFit /\ W = <<>>
        BY <2>1 DEF IInv, Quiet, W
      <3>2. 1..Len(W) = {}
        BY <3>1
      <3>3. p \in reported
        BY <2>1, <3>1, <3>2 DEF ViewFit, ViewShows
      <3>4. ASSUME p \in Pids, HolderOf(p) \notin Monitored
            PROVE  view[p].val = obj[HolderOf(p)].sent
        <4>1. PICK o : o = HolderOf(p)
          OBVIOUS
        <4>2. o \in Table /\ obj[o].pid = p
          BY <3>4, <4>1 DEF Pids, HolderOf
        <4>3. ViewFits(p, obj[o].sent, W, view[p])
          BY <3>1, <3>4, <4>1, <4>2 DEF ViewFit
        <4> QED
          BY <2>1, <3>2, <4>1, <4>3 DEF ViewFits
      <3> QED
        BY <3>3, <3>4
    <2>2. ViewFollowsReports
      BY <2>1 DEF ViewFollowsReports
    <2> QED
      BY <2>2 DEF ViewOK, IInv
  <1> QED
    BY <1>1, HeartbeatsInvariant, PTL
=============================================================================
