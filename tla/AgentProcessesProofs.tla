------------------------ MODULE AgentProcessesProofs ------------------------
(***************************************************************************)
(* The agent's tables stay consistent, and a monitored program stays in    *)
(* them, for any number of users, sessions, processes and programs.        *)
(*                                                                         *)
(* No entry of a table can be judged alone.  That a restart or a take-over *)
(* leaves a program one object rests on where its processes carry its      *)
(* mark: an entry another one takes the place of is never that of another  *)
(* program.  That a new process is in no table rests on its id being       *)
(* unused.  And a monitored entry is given up only for an exit code that   *)
(* was seen.                                                               *)
(***************************************************************************)
EXTENDS AgentProcesses, TLAPS

Table == [Owner -> [Pid -> Object \cup {None}]]

\* An entry x for p in o's table fits the processes pr, the programs st that were
\* started and the ones dn whose process ended with the code "access denied".
EntryFits(o, p, x, pr, st, dn) ==
    /\ x.pid = p
    /\ pr[p].state # "unused"
    /\ x.prog # None =>
          /\ o \in User /\ x.prog \in st /\ pr[p].tag = x.prog
          /\ x.status = "denied" => x.prog \in dn
          /\ x.handle /\ pr[p].state = "denied" => x.prog \in dn

Fits(t, pr, st, dn) ==
    /\ t \in Table
    /\ \A o \in Owner, p \in Pid : t[o][p] # None => EntryFits(o, p, t[o][p], pr, st, dn)
    /\ \A o, r \in Owner, p \in Pid : t[o][p] # None /\ t[r][p] # None => o = r
    /\ \A o, r \in Owner, p, q \in Pid :
          /\ t[o][p] # None /\ t[r][q] # None
          /\ t[o][p].prog = t[r][q].prog /\ t[o][p].prog # None
          => o = r /\ p = q

\* Every program of S has an object.
Keeps(t, S) == \A g \in S : \E u \in User, p \in Pid : t[u][p] # None /\ t[u][p].prog = g

\* What is still to be restarted in this tick.
TodoFits ==
    \A o \in Owner, p \in Pid : <<o, p>> \in todo =>
        /\ o \in User /\ sess[o] # None
        /\ tab[o][p] # None /\ tab[o][p].prog # None /\ tab[o][p].status = "failed"

Surviving == started \ (adopted \cup denied)

IInv == TypeOK /\ Fits(tab, proc, started, denied) /\ Keeps(tab, Surviving) /\ TodoFits

-----------------------------------------------------------------------------
(* Processes and entries.                                                  *)

LEMMA FreshUnused ==
    ASSUME NEW p \in FreshPid
    PROVE  p \in Pid /\ proc[p].state = "unused"
  BY DEF FreshPid, Fresh

LEMMA RunningType ==
    ASSUME NEW s \in Sid \cup {System}, NEW g \in Prog \cup {None}, NEW c \in BOOLEAN
    PROVE  /\ Running(s, g, c) \in Process
           /\ Running(s, g, c).state = "up" /\ Running(s, g, c).tag = g
  BY DEF Running, Process

\* Windows may start and end processes: an entry still fits as long as its process
\* keeps its mark and an exit with "access denied" is noted.
LEMMA ProcessesMove ==
    ASSUME NEW t, NEW pr, NEW st, NEW dn, Fits(t, pr, st, dn), NEW pr2, NEW st2, NEW dn2,
           st \subseteq st2, dn \subseteq dn2,
           \A p \in Pid : pr[p].state # "unused" =>
               pr2[p].state # "unused" /\ pr2[p].tag = pr[p].tag,
           \A o \in Owner, p \in Pid :
               t[o][p] # None /\ t[o][p].prog # None /\ pr2[p].state = "denied"
                   => pr[p].state = "denied" \/ t[o][p].prog \in dn2
    PROVE  Fits(t, pr2, st2, dn2)
  <1>1. ASSUME NEW o \in Owner, NEW p \in Pid, t[o][p] # None
        PROVE  EntryFits(o, p, t[o][p], pr2, st2, dn2)
    BY <1>1 DEF Fits, EntryFits
  <1> QED
    BY <1>1 DEF Fits

\* Entries are dropped or replaced by ones of the same program.
LEMMA Thinned ==
    ASSUME NEW t, NEW pr, NEW st, NEW dn, Fits(t, pr, st, dn), NEW d \in Table,
           \A o \in Owner, p \in Pid : d[o][p] # None =>
               /\ t[o][p] # None /\ d[o][p].prog = t[o][p].prog
               /\ EntryFits(o, p, d[o][p], pr, st, dn)
    PROVE  Fits(d, pr, st, dn)
  BY DEF Fits

\* The entry of p makes way for one of q (rebind_process).
LEMMA PutFits ==
    ASSUME NEW t, NEW pr, NEW st, NEW dn, Fits(t, pr, st, dn),
           NEW o \in Owner, NEW p \in Pid, NEW q \in Pid, NEW x \in Object,
           EntryFits(o, q, x, pr, st, dn),
           \A r \in Owner : r # o => t[r][q] = None,
           \A r \in Owner, k \in Pid :
               t[r][k] # None /\ t[r][k].prog = x.prog /\ x.prog # None => r = o /\ k \in {p, q}
    PROVE  Fits([t EXCEPT ![o][p] = None, ![o][q] = x], pr, st, dn)
  <1>1. PICK d : d = [t EXCEPT ![o][p] = None, ![o][q] = x]
    OBVIOUS
  <1>t. t \in Table /\ x # None
    BY NoneAssumption DEF Fits
  <1>2. d \in Table
    BY <1>1, <1>t DEF Table
  <1>3. /\ \A r \in Owner, k \in Pid : (r # o \/ k \notin {p, q}) => d[r][k] = t[r][k]
        /\ d[o][q] = x
        /\ p # q => d[o][p] = None
    BY <1>1, <1>t DEF Table
  <1>4. ASSUME NEW r \in Owner, NEW k \in Pid, d[r][k] # None
        PROVE  EntryFits(r, k, d[r][k], pr, st, dn)
    BY <1>3, <1>4 DEF Fits
  <1>5. ASSUME NEW r \in Owner, NEW w \in Owner, NEW k \in Pid, d[r][k] # None, d[w][k] # None
        PROVE  r = w
    BY <1>3, <1>5 DEF Fits
  <1>6. ASSUME NEW r \in Owner, NEW w \in Owner, NEW k \in Pid, NEW l \in Pid,
               d[r][k] # None, d[w][l] # None, d[r][k].prog = d[w][l].prog, d[r][k].prog # None
        PROVE  r = w /\ k = l
    BY <1>3, <1>6 DEF Fits
  <1>7. Fits(d, pr, st, dn)
    BY <1>2, <1>4, <1>5, <1>6 DEF Fits
  <1> QED
    BY <1>1, <1>7

LEMMA StatusOfIs ==
    ASSUME TypeOK, NEW x \in Object
    PROVE  /\ StatusOf(x) \in {"running", "failed", "denied"}
           /\ StatusOf(x) = "denied" =>
                 x.status = "denied" \/ (x.handle /\ proc[x.pid].state = "denied")
  <1>1. x.pid \in Pid /\ proc[x.pid].state \in {"unused", "up", "ended", "denied"}
    BY DEF TypeOK, Object, Process
  <1> QED
    BY <1>1 DEF StatusOf

\* A tick keeps an entry's id and program; one that is not dropped is typed, and a
\* monitored one is dropped for "access denied" only.
LEMMA TickedIs ==
    ASSUME TypeOK, NEW x \in Object
    PROVE  /\ Ticked(x).pid = x.pid /\ Ticked(x).prog = x.prog /\ Ticked(x).handle = x.handle
           /\ Ticked(x).status = StatusOf(x)
           /\ ~Drops(Ticked(x)) => Ticked(x) \in Object
           /\ Drops(Ticked(x)) /\ x.prog # None => StatusOf(x) = "denied"
           /\ Restarts(Ticked(x)) => ~Drops(Ticked(x))
  <1>1. PICK st : st = StatusOf(x)
    OBVIOUS
  <1>2. st \in {"running", "failed", "denied"}
    BY <1>1, StatusOfIs
  <1>3. PICK n : n = IF st = "denied" \/ (st = "failed" /\ x.prog # None /\ x.down < RestartAfter)
                     THEN x.down + 1 ELSE x.down
    OBVIOUS
  <1>4. x.down \in 0..RestartAfter + DeniedLimit /\ n \in Nat
    BY <1>3, LimitsAssumption DEF Object
  <1>5. PICK y : y = [x EXCEPT !.status = st, !.down = n]
    OBVIOUS
  <1>6. Ticked(x) = y
    BY <1>1, <1>3, <1>5 DEF Ticked, Object
  <1>7. /\ y.pid = x.pid /\ y.prog = x.prog /\ y.handle = x.handle /\ y.status = st /\ y.down = n
        /\ n \in 0..RestartAfter + DeniedLimit => y \in Object
    BY <1>2, <1>5 DEF Object
  <1>8. ~Drops(y) => n \in 0..RestartAfter + DeniedLimit
    BY <1>3, <1>4, <1>7, LimitsAssumption DEF Drops
  <1>9. Drops(y) /\ x.prog # None => st = "denied"
    BY <1>7 DEF Drops
  <1>10. Restarts(y) => ~Drops(y)
    BY <1>7 DEF Drops, Restarts
  <1> QED
    BY <1>1, <1>6, <1>7, <1>8, <1>9, <1>10

-----------------------------------------------------------------------------
(* Sessions.                                                               *)

LEMMA RefreshedSessionIs ==
    ASSUME TypeOK, NEW u \in User
    PROVE  /\ RefreshedSession(u) \in Session \cup {None}
           /\ sess[u] # None => RefreshedSession(u) # None
  <1> DEFINE now == {s \in Sid : user[s] = u}
  <1>1. CASE now = {}
    BY <1>1 DEF RefreshedSession, TypeOK
  <1>2. CASE now # {}
    <2>1. PICK s \in Sid : s = CHOOSE r \in now : TRUE
      BY <1>2
    <2>2. RefreshedSession(u) = IF sess[u] = None
                                THEN [sid |-> s, token |-> None, explorer |-> None]
                                ELSE [sess[u] EXCEPT !.sid = s]
      BY <1>2, <2>1 DEF RefreshedSession
    <2>3. [sid |-> s, token |-> None, explorer |-> None] \in Session
      BY DEF Session
    <2>4. sess[u] # None => [sess[u] EXCEPT !.sid = s] \in Session
      BY DEF TypeOK, Session
    <2> QED
      BY <2>2, <2>3, <2>4, NoneAssumption
  <1> QED
    BY <1>1, <1>2

LEMMA WithExplorerIs ==
    ASSUME NEW x \in Session \cup {None}
    PROVE  WithExplorer(x) \in Session \cup {None} /\ (x # None => WithExplorer(x) # None)
  BY NoneAssumption DEF WithExplorer, Session

LEMMA WithTokenIs ==
    ASSUME TypeOK, NEW o \in User, sess[o] # None
    PROVE  /\ WithToken(o) \in [User -> Session \cup {None}]
           /\ \A u \in User : sess[u] # None => WithToken(o)[u] # None
           /\ SessionFor(o) \in Sid
  <1>1. sess[o] \in Session /\ TokenOf(o) \in Sid
    BY DEF TypeOK, Session, TokenOf
  <1>2. PICK y : y = [sess[o] EXCEPT !.token = IF Up(TokenOf(o)) THEN TokenOf(o) ELSE @]
    OBVIOUS
  <1>3. y \in Session
    BY <1>1, <1>2 DEF Session
  <1>4. WithToken(o) = [sess EXCEPT ![o] = y]
    BY <1>2 DEF WithToken
  <1>5. SessionFor(o) \in Sid
    BY <1>1 DEF SessionFor, Session
  <1> QED
    BY <1>3, <1>4, <1>5, NoneAssumption DEF TypeOK

-----------------------------------------------------------------------------
(* What a tick and a restart make of the tables.                           *)

LEMMA RefreshedTableIs ==
    ASSUME IInv
    PROVE  /\ Fits(RefreshedTable, proc, started, denied)
           /\ \A o \in Owner, p \in Pid : tab[o][p] # None /\ tab[o][p].prog # None
                  => RefreshedTable[o][p] = tab[o][p]
  <1>1. PICK d : d = RefreshedTable
    OBVIOUS
  <1>2. tab \in Table /\ Fits(tab, proc, started, denied)
    BY DEF IInv, Fits
  <1>3. d \in Table
    BY <1>1, <1>2 DEF RefreshedTable, Closed, Table
  <1>4. \A o \in Owner, p \in Pid :
           /\ d[o][p] \in {tab[o][p], None}
           /\ tab[o][p] # None /\ tab[o][p].prog # None => d[o][p] = tab[o][p]
    BY <1>1 DEF RefreshedTable, Closed
  <1>5. \A o \in Owner, p \in Pid : d[o][p] # None =>
           /\ tab[o][p] # None /\ d[o][p].prog = tab[o][p].prog
           /\ EntryFits(o, p, d[o][p], proc, started, denied)
    BY <1>2, <1>4 DEF Fits
  <1>6. Fits(d, proc, started, denied)
    BY <1>2, <1>3, <1>5, Thinned
  <1> QED
    BY <1>1, <1>4, <1>6

LEMMA DiscoveredIs ==
    ASSUME TypeOK, NEW t, Fits(t, proc, started, denied), NEW ss
    PROVE  /\ Fits(Discovered(t, ss), proc, started, denied)
           /\ \A o \in Owner, p \in Pid : t[o][p] # None /\ t[o][p].prog # None
                  => Discovered(t, ss)[o][p] = t[o][p]
           /\ \A o \in Owner, p \in Pid :
                  Discovered(t, ss)[o][p] # None /\ Discovered(t, ss)[o][p].prog # None
                  => Discovered(t, ss)[o][p] = t[o][p]
           /\ \A o \in Owner, p \in Pid : Discovered(t, ss)[o][p] # None
                  => proc[p].state # "unused"
  <1>1. PICK d : d = Discovered(t, ss)
    OBVIOUS
  <1>2. t \in Table
    BY DEF Fits
  <1>3. ASSUME NEW p \in Pid
        PROVE  Found(p) \in Object /\ Found(p).pid = p /\ Found(p).prog = None
    <2>1. proc[p].closed \in BOOLEAN
      BY DEF TypeOK, Process
    <2>2. PICK h \in BOOLEAN : h = ~proc[p].closed
      BY <2>1, Zenon
    <2>3. PICK st \in {"running", "denied"} : st = IF proc[p].closed THEN "denied" ELSE "running"
      OBVIOUS
    <2>4. PICK x : x = [prog |-> None, pid |-> p, status |-> st, handle |-> h, down |-> 0]
      OBVIOUS
    <2>5. Found(p) = x
      BY <2>2, <2>3, <2>4, Zenon DEF Found
    <2>6. 0 \in 0..RestartAfter + DeniedLimit
      BY LimitsAssumption
    <2>7. x \in Object /\ x.pid = p /\ x.prog = None
      BY <2>4, <2>6 DEF Object
    <2> QED
      BY <2>5, <2>7
  <1>4. \A o \in Owner, p \in Pid :
           \/ d[o][p] = None /\ (t[o][p] # None => t[o][p].prog = None)
           \/ d[o][p] = t[o][p]
           \/ d[o][p] = Found(p) /\ p \in Live /\ ~Managed(t, p) /\ HomeOf(p, ss) = o
    BY <1>1 DEF Discovered, Stale
  <1>5. d \in Table
    <2>1. \A o \in Owner, p \in Pid : d[o][p] \in Object \cup {None}
      BY <1>2, <1>3, <1>4 DEF Table
    <2> QED
      BY <1>1, <2>1 DEF Discovered, Table
  <1>6. ASSUME NEW o \in Owner, NEW p \in Pid, d[o][p] # None
        PROVE  EntryFits(o, p, d[o][p], proc, started, denied)
    <2>1. CASE d[o][p] = t[o][p]
      BY <1>6, <2>1 DEF Fits
    <2>2. CASE d[o][p] = Found(p) /\ p \in Live
      BY <1>3, <2>2 DEF EntryFits, Live
    <2> QED
      BY <1>4, <1>6, <2>1, <2>2
  <1>7. ASSUME NEW o \in Owner, NEW r \in Owner, NEW p \in Pid, d[o][p] # None, d[r][p] # None
        PROVE  o = r
    BY <1>4, <1>7 DEF Fits, Managed
  <1>8. ASSUME NEW o \in Owner, NEW p \in Pid
        PROVE  /\ t[o][p] # None /\ t[o][p].prog # None => d[o][p] = t[o][p]
               /\ d[o][p] # None /\ d[o][p].prog # None => d[o][p] = t[o][p]
    BY <1>3, <1>4, <1>8 DEF Managed
  <1>9. ASSUME NEW o \in Owner, NEW r \in Owner, NEW p \in Pid, NEW q \in Pid,
               d[o][p] # None, d[r][q] # None, d[o][p].prog = d[r][q].prog, d[o][p].prog # None
        PROVE  o = r /\ p = q
    BY <1>8, <1>9 DEF Fits
  <1>10. Fits(d, proc, started, denied)
    BY <1>5, <1>6, <1>7, <1>9 DEF Fits
  <1>11. \A o \in Owner, p \in Pid : d[o][p] # None => proc[p].state # "unused"
    BY <1>6 DEF EntryFits
  <1> QED
    BY <1>1, <1>8, <1>10, <1>11

LEMMA TickedTableIs ==
    ASSUME TypeOK, NEW t, Fits(t, proc, started, denied), NEW ss
    PROVE  /\ Fits(TickedTable(t, ss), proc, started, denied)
           /\ \A o \in Owner, p \in Pid :
                  t[o][p] # None /\ t[o][p].prog # None /\ t[o][p].prog \notin denied
                  => /\ TickedTable(t, ss)[o][p] # None
                     /\ TickedTable(t, ss)[o][p].prog = t[o][p].prog
           /\ \A o \in Owner, p \in Pid :
                  t[o][p] # None /\ Restarts(Ticked(t[o][p])) /\ Visited(o, ss)
                  => /\ TickedTable(t, ss)[o][p] # None
                     /\ TickedTable(t, ss)[o][p].prog # None
                     /\ TickedTable(t, ss)[o][p].status = "failed"
                     /\ o \in User
  <1>1. PICK d : d = TickedTable(t, ss)
    OBVIOUS
  <1>2. t \in Table
    BY DEF Fits
  <1>3. \A o \in Owner, p \in Pid :
           /\ t[o][p] = None \/ ~Visited(o, ss) => d[o][p] = t[o][p]
           /\ t[o][p] # None /\ Visited(o, ss) =>
                 d[o][p] = IF Drops(Ticked(t[o][p])) THEN None ELSE Ticked(t[o][p])
    BY <1>1 DEF TickedTable
  <1>4. ASSUME NEW o \in Owner, NEW p \in Pid, t[o][p] # None
        PROVE  /\ t[o][p] \in Object /\ EntryFits(o, p, t[o][p], proc, started, denied)
               /\ Ticked(t[o][p]).prog = t[o][p].prog
               /\ ~Drops(Ticked(t[o][p])) => Ticked(t[o][p]) \in Object
               /\ EntryFits(o, p, Ticked(t[o][p]), proc, started, denied)
               /\ Drops(Ticked(t[o][p])) /\ t[o][p].prog # None => t[o][p].prog \in denied
    <2>1. t[o][p] \in Object /\ EntryFits(o, p, t[o][p], proc, started, denied)
      BY <1>2, <1>4 DEF Table, Fits
    <2>2. PICK x \in Object : x = t[o][p]
      BY <2>1
    <2>3. /\ Ticked(x).pid = x.pid /\ Ticked(x).prog = x.prog /\ Ticked(x).handle = x.handle
          /\ Ticked(x).status = StatusOf(x)
          /\ ~Drops(Ticked(x)) => Ticked(x) \in Object
          /\ Drops(Ticked(x)) /\ x.prog # None => StatusOf(x) = "denied"
      BY TickedIs
    <2>4. StatusOf(x) = "denied" =>
             x.status = "denied" \/ (x.handle /\ proc[x.pid].state = "denied")
      BY StatusOfIs
    <2>5. StatusOf(x) = "denied" /\ x.prog # None => x.prog \in denied
      BY <2>1, <2>2, <2>4 DEF EntryFits
    <2>6. EntryFits(o, p, Ticked(x), proc, started, denied)
      BY <2>1, <2>2, <2>3, <2>5 DEF EntryFits
    <2> QED
      BY <2>1, <2>2, <2>3, <2>5, <2>6
  <1>5. \A o \in Owner, p \in Pid : d[o][p] \in Object \cup {None}
    BY <1>2, <1>3, <1>4 DEF Table
  <1>6. d \in Table
    BY <1>1, <1>5 DEF TickedTable, Table
  <1>7. \A o \in Owner, p \in Pid : d[o][p] # None =>
           /\ t[o][p] # None /\ d[o][p].prog = t[o][p].prog
           /\ EntryFits(o, p, d[o][p], proc, started, denied)
    BY <1>3, <1>4
  <1>8. Fits(d, proc, started, denied)
    BY <1>6, <1>7, Thinned
  <1>9. \A o \in Owner, p \in Pid :
           t[o][p] # None /\ t[o][p].prog # None /\ t[o][p].prog \notin denied
           => d[o][p] # None /\ d[o][p].prog = t[o][p].prog
    BY <1>3, <1>4, NoneAssumption
  <1>10. ASSUME NEW o \in Owner, NEW p \in Pid,
                t[o][p] # None, Restarts(Ticked(t[o][p])), Visited(o, ss)
         PROVE  d[o][p] # None /\ d[o][p].prog # None /\ d[o][p].status = "failed" /\ o \in User
    <2>1. ~Drops(Ticked(t[o][p]))
      BY <1>4, <1>10, TickedIs
    <2>2. d[o][p] = Ticked(t[o][p]) /\ d[o][p] \in Object
      BY <1>3, <1>4, <1>10, <2>1
    <2>3. d[o][p] # None /\ d[o][p].prog # None /\ d[o][p].status = "failed"
      BY <1>10, <2>2, NoneAssumption DEF Restarts
    <2> QED
      BY <1>7, <2>3 DEF EntryFits
  <1> QED
    BY <1>1, <1>8, <1>9, <1>10

-----------------------------------------------------------------------------
(* The steps.                                                              *)

LEMMA StillKept ==
    ASSUME NEW t, NEW d, NEW S, NEW S2, Keeps(t, S), S2 \subseteq S,
           \A u \in User, p \in Pid : t[u][p] # None /\ t[u][p].prog \in S2 =>
               \E k \in Pid : d[u][k] # None /\ d[u][k].prog = t[u][p].prog
    PROVE  Keeps(d, S2)
  BY DEF Keeps

LEMMA BegunIs ==
    ASSUME NEW g \in Prog \cup {None}, NEW p \in Pid
    PROVE  /\ Begun(g, p) \in Object /\ Begun(g, p).prog = g /\ Begun(g, p).pid = p
           /\ Begun(g, p).status = "running"
  <1>1. 0 \in 0..RestartAfter + DeniedLimit
    BY LimitsAssumption
  <1> QED
    BY <1>1 DEF Begun, Object

\* A process that is started in a session: what the tables hold fits the processes
\* after it, and so does its own entry.
LEMMA StartFits ==
    ASSUME TypeOK, NEW t, Fits(t, proc, started, denied),
           NEW n \in FreshPid, NEW s \in Sid \cup {System}, NEW g \in Prog \cup {None},
           proc' = [proc EXCEPT ![n] = Running(s, g, FALSE)],
           started \subseteq started', g # None => g \in started',
           NEW u \in User, NEW p \in Pid,
           \A r \in Owner, k \in Pid :
               t[r][k] # None /\ t[r][k].prog = g /\ g # None => r = u /\ k = p
    PROVE  /\ proc' \in [Pid -> Process]
           /\ \A r \in Owner : t[r][n] = None
           /\ Fits([t EXCEPT ![u][p] = None, ![u][n] = Begun(g, n)], proc', started', denied)
  <1>1. n \in Pid /\ proc[n].state = "unused"
    BY FreshUnused
  <1>2. PICK y \in Process : y = Running(s, g, FALSE) /\ y.state = "up" /\ y.tag = g
    BY RunningType
  <1>3. proc' = [proc EXCEPT ![n] = y]
    BY <1>2
  <1>4. proc' \in [Pid -> Process] /\ proc'[n] = y /\ \A k \in Pid : k # n => proc'[k] = proc[k]
    BY <1>1, <1>3 DEF TypeOK
  <1>5. \A r \in Owner : t[r][n] = None
    BY <1>1 DEF Fits, EntryFits
  <1>6. Fits(t, proc', started', denied)
    <2>1. \A k \in Pid : proc[k].state # "unused" =>
              proc'[k].state # "unused" /\ proc'[k].tag = proc[k].tag
      BY <1>1, <1>4
    <2>2. \A k \in Pid : proc'[k].state = "denied" => proc[k].state = "denied"
      BY <1>2, <1>4
    <2> QED
      BY <2>1, <2>2, ProcessesMove
  <1>7. PICK x \in Object : x = Begun(g, n) /\ x.prog = g /\ x.pid = n /\ x.status = "running"
    BY <1>1, BegunIs
  <1>8. u \in Owner /\ EntryFits(u, n, x, proc', started', denied)
    BY <1>2, <1>4, <1>7 DEF EntryFits, Owner
  <1>9. Fits([t EXCEPT ![u][p] = None, ![u][n] = x], proc', started', denied)
    BY <1>1, <1>5, <1>6, <1>7, <1>8, PutFits
  <1> QED
    BY <1>4, <1>5, <1>7, <1>9

LEMMA WindowsStep ==
    ASSUME IInv,
           \/ \E u \in User, s \in Sid : LogOn(u, s)
           \/ \E s \in Sid : LogOff(s)
           \/ \E p \in Pid, s \in Sid \cup {System}, g \in Prog \cup {None}, c \in BOOLEAN :
                 Spawn(p, s, g, c)
           \/ \E p \in Pid, code \in {"ended", "denied"} : Exit(p, code)
    PROVE  IInv'
  <1>i. TypeOK /\ Fits(tab, proc, started, denied) /\ Keeps(tab, Surviving) /\ TodoFits
    BY DEF IInv
  <1>u. UNCHANGED <<sess, tab, todo, started, adopted>>
    BY DEF LogOn, LogOff, Spawn, Exit, ghosts
  <1>t. TodoFits'
    BY <1>i, <1>u DEF TodoFits
  <1>k. ASSUME denied \subseteq denied' PROVE Keeps(tab, Surviving)'
    BY <1>i, <1>u, <1>k DEF Keeps, Surviving
  <1>f. ASSUME user' \in [Sid -> User \cup {None}], usedSid' \subseteq Sid,
               proc' \in [Pid -> Process], denied \subseteq denied', denied' \subseteq started,
               Fits(tab, proc', started, denied')
        PROVE  IInv'
    <2>1. TypeOK'
      BY <1>i, <1>u, <1>f DEF TypeOK
    <2>2. Fits(tab, proc, started, denied)'
      BY <1>u, <1>f DEF Fits
    <2> QED
      BY <1>t, <1>k, <1>f, <2>1, <2>2 DEF IInv
  <1>d. denied \subseteq started
    BY <1>i DEF TypeOK
  <1>1. ASSUME NEW u \in User, NEW s \in Sid, LogOn(u, s) PROVE IInv'
    <2>1. UNCHANGED <<proc, denied>>
      BY <1>1 DEF LogOn, ghosts
    <2>2. user' \in [Sid -> User \cup {None}] /\ usedSid' \subseteq Sid
      BY <1>1, <1>i DEF LogOn, TypeOK
    <2>3. Fits(tab, proc', started, denied') /\ proc' \in [Pid -> Process]
      BY <1>i, <2>1 DEF TypeOK
    <2> QED
      BY <1>d, <1>f, <2>1, <2>2, <2>3
  <1>2. ASSUME NEW s \in Sid, LogOff(s) PROVE IInv'
    <2>1. UNCHANGED <<usedSid, denied>> /\ user' \in [Sid -> User \cup {None}]
      BY <1>2, <1>i DEF LogOff, TypeOK, ghosts
    <2>2. \A p \in Pid : \/ proc'[p] = proc[p]
                         \/ proc[p].state = "up" /\ proc'[p] = [proc[p] EXCEPT !.state = "ended"]
      BY <1>2 DEF LogOff, Live
    <2>3. \A p \in Pid : proc[p] \in Process
      BY <1>i DEF TypeOK
    <2>4. \A p \in Pid : /\ proc'[p] \in Process /\ proc'[p].tag = proc[p].tag
                         /\ proc[p].state # "unused" => proc'[p].state # "unused"
                         /\ proc'[p].state = "denied" => proc[p].state = "denied"
      BY <2>2, <2>3, ZenonT(60) DEF Process
    <2>5. proc' \in [Pid -> Process]
      BY <1>2, <2>4 DEF LogOff
    <2>6. Fits(tab, proc', started, denied')
      BY <1>i, <2>1, <2>4, ProcessesMove
    <2> QED
      BY <1>d, <1>f, <1>i, <2>1, <2>5, <2>6 DEF TypeOK
  <1>3. ASSUME NEW p \in Pid, NEW s \in Sid \cup {System}, NEW g \in Prog \cup {None},
               NEW c \in BOOLEAN, Spawn(p, s, g, c)
        PROVE  IInv'
    <2>1. UNCHANGED <<user, usedSid, denied>> /\ p \in FreshPid
      BY <1>3 DEF Spawn, ghosts
    <2>2. PICK y \in Process : y = Running(s, g, c) /\ y.state = "up"
      BY RunningType
    <2>3. proc' = [proc EXCEPT ![p] = y]
      BY <1>3, <2>2 DEF Spawn
    <2>4. proc' \in [Pid -> Process] /\ proc'[p] = y /\ \A k \in Pid : k # p => proc'[k] = proc[k]
      BY <1>i, <2>3 DEF TypeOK
    <2>5. proc[p].state = "unused"
      BY <2>1, FreshUnused
    <2>6. /\ \A k \in Pid : proc[k].state # "unused" =>
                 proc'[k].state # "unused" /\ proc'[k].tag = proc[k].tag
          /\ \A k \in Pid : proc'[k].state = "denied" => proc[k].state = "denied"
      BY <2>2, <2>4, <2>5
    <2>7. Fits(tab, proc', started, denied')
      BY <1>i, <2>1, <2>6, ProcessesMove
    <2> QED
      BY <1>d, <1>f, <1>i, <2>1, <2>4, <2>7 DEF TypeOK
  <1>4. ASSUME NEW p \in Pid, NEW code \in {"ended", "denied"}, Exit(p, code) PROVE IInv'
    <2>1. UNCHANGED <<user, usedSid>> /\ proc[p].state = "up"
      BY <1>4 DEF Exit, Live
    <2>2. denied \subseteq denied' /\ denied' \subseteq started
      BY <1>4, <1>d DEF Exit
    <2>3. PICK y : y = [proc[p] EXCEPT !.state = code]
      OBVIOUS
    <2>4. proc[p] \in Process /\ y \in Process /\ y.tag = proc[p].tag /\ y.state = code
      BY <1>i, <2>3 DEF TypeOK, Process
    <2>5. proc' = [proc EXCEPT ![p] = y]
      BY <1>4, <2>3 DEF Exit
    <2>6. proc' \in [Pid -> Process] /\ proc'[p] = y /\ \A k \in Pid : k # p => proc'[k] = proc[k]
      BY <1>i, <2>4, <2>5 DEF TypeOK
    <2>7. ASSUME NEW o \in Owner, NEW k \in Pid, tab[o][k] # None, tab[o][k].prog # None,
                 proc'[k].state = "denied"
          PROVE  proc[k].state = "denied" \/ tab[o][k].prog \in denied'
      <3>1. CASE k # p
        BY <2>6, <2>7, <3>1
      <3>2. CASE k = p
        <4>1. tab[o][k].pid = p /\ tab[o][k].prog \in started
          BY <1>i, <2>7, <3>2 DEF Fits, EntryFits
        <4>2. code = "denied"
          BY <2>4, <2>6, <2>7, <3>2
        <4> QED
          BY <1>4, <2>7, <4>1, <4>2 DEF Exit
      <3> QED
        BY <3>1, <3>2
    <2>8. \A k \in Pid : proc[k].state # "unused" =>
              proc'[k].state # "unused" /\ proc'[k].tag = proc[k].tag
      BY <2>4, <2>6
    <2>9. Fits(tab, proc', started, denied')
      BY <1>i, <2>2, <2>7, <2>8, ProcessesMove
    <2> QED
      BY <1>f, <1>i, <2>1, <2>2, <2>6, <2>9 DEF TypeOK
  <1> QED
    BY <1>1, <1>2, <1>3, <1>4

LEMMA StartStep ==
    ASSUME IInv, NEW u \in User, NEW g \in Prog \cup {None}, NEW p \in Pid, StartProcess(u, g, p)
    PROVE  IInv'
  <1>i. TypeOK /\ Fits(tab, proc, started, denied) /\ Keeps(tab, Surviving) /\ todo = {}
    BY DEF IInv, StartProcess, Idle
  <1>1. sess' \in [User -> Session \cup {None}] /\ SessionFor(u) \in Sid
    BY <1>i, WithTokenIs DEF StartProcess
  <1>2. UNCHANGED <<user, usedSid, todo, adopted, denied>> /\ g \notin started /\ u \in Owner
    BY DEF StartProcess, Owner
  <1>t. TodoFits'
    BY <1>i, <1>2 DEF TodoFits
  <1>3. CASE CanCreate(u)
    <2>1. /\ p \in FreshPid
          /\ proc' = [proc EXCEPT ![p] = Running(SessionFor(u), g, FALSE)]
          /\ tab' = [tab EXCEPT ![u][p] = Begun(g, p)]
          /\ started' = started \cup ({g} \ {None})
      BY <1>3 DEF StartProcess
    <2>2. \A r \in Owner, k \in Pid : tab[r][k] # None /\ g # None => tab[r][k].prog # g
      BY <1>i, <1>2 DEF Fits, EntryFits
    <2>3. /\ proc' \in [Pid -> Process]
          /\ \A r \in Owner : tab[r][p] = None
          /\ Fits([tab EXCEPT ![u][p] = None, ![u][p] = Begun(g, p)], proc', started', denied)
      <3>1. PICK s \in Sid \cup {System} : s = SessionFor(u)
        BY <1>1
      <3>2. started \subseteq started' /\ (g # None => g \in started')
        BY <2>1
      <3>3. PICK n \in FreshPid : n = p
        BY <2>1
      <3>4. proc' = [proc EXCEPT ![n] = Running(s, g, FALSE)]
        BY <2>1, <3>1, <3>3
      <3>5. PICK t : t = tab /\ Fits(t, proc, started, denied)
        BY <1>i
      <3>6. \A r \in Owner, k \in Pid :
               t[r][k] # None /\ t[r][k].prog = g /\ g # None => r = u /\ k = p
        BY <2>2, <3>5
      <3>7. u \in User /\ p \in Pid /\ g \in Prog \cup {None}
        OBVIOUS
      <3>8. /\ proc' \in [Pid -> Process]
            /\ \A r \in Owner : t[r][n] = None
            /\ Fits([t EXCEPT ![u][p] = None, ![u][n] = Begun(g, n)], proc', started', denied)
        <4>1. Fits(t, proc, started, denied) /\ TypeOK /\ n \in FreshPid
          BY <1>i, <3>5
        <4> QED
          BY ONLY <3>2, <3>4, <3>6, <3>7, <4>1, StartFits
      <3> QED
        BY <3>2, <3>3, <3>5, <3>8
    <2>4. tab \in Table
      BY <1>i DEF Fits
    <2>5. tab' = [tab EXCEPT ![u][p] = None, ![u][p] = Begun(g, p)]
      BY <1>2, <2>1, <2>4 DEF Table
    <2>6. Fits(tab, proc, started, denied)'
      BY <1>2, <2>3, <2>5
    <2>7. /\ tab'[u][p] = Begun(g, p) /\ Begun(g, p) # None /\ Begun(g, p).prog = g
          /\ \A r \in Owner, k \in Pid : (r # u \/ k # p) => tab'[r][k] = tab[r][k]
      BY <1>2, <2>1, <2>4, BegunIs, NoneAssumption DEF Table
    <2>8. Keeps(tab, Surviving)'
      <3>1. ASSUME NEW h \in Surviving'
            PROVE  \E w \in User, k \in Pid : tab'[w][k] # None /\ tab'[w][k].prog = h
        <4>1. CASE h = g
          BY <2>7, <4>1
        <4>2. CASE h # g
          <5>1. h \in Surviving
            BY <1>2, <2>1, <3>1, <4>2 DEF Surviving
          <5>2. PICK w \in User, k \in Pid : tab[w][k] # None /\ tab[w][k].prog = h
            BY <1>i, <5>1 DEF Keeps
          <5>3. tab'[w][k] = tab[w][k]
            BY <2>3, <2>7, <1>2, <5>2 DEF Owner
          <5> QED
            BY <5>2, <5>3
        <4> QED
          BY <4>1, <4>2
      <3> QED
        BY <3>1 DEF Keeps
    <2>9. TypeOK'
      BY <1>i, <1>1, <1>2, <2>1, <2>3, <2>6 DEF TypeOK, Fits, Table
    <2> QED
      BY <1>t, <2>6, <2>8, <2>9 DEF IInv
  <1>4. CASE ~CanCreate(u)
    <2>1. UNCHANGED <<proc, tab, started>>
      BY <1>4 DEF StartProcess
    <2>2. TypeOK'
      BY <1>i, <1>1, <1>2, <2>1 DEF TypeOK
    <2>3. Fits(tab, proc, started, denied)' /\ Keeps(tab, Surviving)'
      BY <1>i, <1>2, <2>1 DEF Fits, Keeps, Surviving
    <2> QED
      BY <1>t, <2>2, <2>3 DEF IInv
  <1> QED
    BY <1>3, <1>4

LEMMA TickStep ==
    ASSUME IInv, NEW due \in BOOLEAN, Tick(due)
    PROVE  IInv'
  <1>i. TypeOK /\ Fits(tab, proc, started, denied) /\ Keeps(tab, Surviving)
    BY DEF IInv
  <1>u. UNCHANGED <<user, usedSid, proc, started, adopted, denied>>
    BY DEF Tick, osVars, ghosts
  <1>1. PICK ss, t :
           /\ ss = IF due THEN [u \in User |-> RefreshedSession(u)] ELSE sess
           /\ t = IF due THEN Discovered(RefreshedTable, ss) ELSE tab
           /\ sess' = [u \in User |-> WithExplorer(ss[u])]
           /\ tab' = TickedTable(t, ss)
           /\ todo' = {e \in Owner \X Pid : LET x == t[e[1]][e[2]] IN
                         x # None /\ Restarts(Ticked(x)) /\ Visited(e[1], ss)}
    BY DEF Tick
  <1>2. ss \in [User -> Session \cup {None}]
    BY <1>i, <1>1, RefreshedSessionIs DEF TypeOK
  <1>3. sess' \in [User -> Session \cup {None}] /\ \A u \in User : ss[u] # None => sess'[u] # None
    BY <1>1, <1>2, WithExplorerIs
  <1>4. /\ Fits(t, proc, started, denied)
        /\ \A o \in Owner, p \in Pid : tab[o][p] # None /\ tab[o][p].prog # None
               => t[o][p] = tab[o][p]
    <2>1. CASE due
      <3>1. t = Discovered(RefreshedTable, ss)
        BY <1>1, <2>1
      <3>2. /\ Fits(t, proc, started, denied)
            /\ \A o \in Owner, p \in Pid :
                  RefreshedTable[o][p] # None /\ RefreshedTable[o][p].prog # None
                  => t[o][p] = RefreshedTable[o][p]
        BY <1>i, <3>1, RefreshedTableIs, DiscoveredIs
      <3> QED
        BY <3>2, RefreshedTableIs
    <2>2. CASE ~due
      BY <1>i, <1>1, <2>2
    <2> QED
      BY <2>1, <2>2
  <1>5. Fits(tab', proc, started, denied)
    BY <1>i, <1>1, <1>4, TickedTableIs
  <1>6. Fits(tab, proc, started, denied)'
    BY <1>u, <1>5 DEF Fits
  <1>7. \A u \in User, p \in Pid : tab[u][p] # None /\ tab[u][p].prog \in Surviving
           => tab'[u][p] # None /\ tab'[u][p].prog = tab[u][p].prog
    <2>1. ASSUME NEW u \in User, NEW p \in Pid, tab[u][p] # None, tab[u][p].prog \in Surviving
          PROVE  tab'[u][p] # None /\ tab'[u][p].prog = tab[u][p].prog
      <3>1. tab[u][p].prog # None /\ tab[u][p].prog \notin denied /\ u \in Owner
        BY <1>i, <2>1, NamesAssumption DEF Surviving, TypeOK, Owner
      <3>2. t[u][p] = tab[u][p]
        BY <1>4, <2>1, <3>1
      <3> QED
        BY <1>i, <1>1, <1>4, <2>1, <3>1, <3>2, TickedTableIs
    <2> QED
      BY <2>1
  <1>8. Keeps(tab, Surviving)'
    BY <1>i, <1>u, <1>7 DEF Keeps, Surviving
  <1>9. TodoFits' /\ todo' \subseteq Owner \X Pid
    <2>1. ASSUME NEW o \in Owner, NEW p \in Pid, <<o, p>> \in todo'
          PROVE  /\ o \in User /\ sess'[o] # None
                 /\ tab'[o][p] # None /\ tab'[o][p].prog # None /\ tab'[o][p].status = "failed"
      <3>1. t[o][p] # None /\ Restarts(Ticked(t[o][p])) /\ Visited(o, ss)
        BY <1>1, <2>1
      <3>2. /\ tab'[o][p] # None /\ tab'[o][p].prog # None /\ tab'[o][p].status = "failed"
            /\ o \in User
        BY <1>i, <1>1, <1>4, <3>1, TickedTableIs
      <3>3. ss[o] # None
        BY <3>1, <3>2, NamesAssumption DEF Visited
      <3> QED
        BY <1>3, <3>2, <3>3
    <2> QED
      BY <1>1, <2>1 DEF TodoFits
  <1>10. TypeOK'
    BY <1>i, <1>u, <1>3, <1>6, <1>9 DEF TypeOK, Fits, Table
  <1> QED
    BY <1>6, <1>8, <1>9, <1>10 DEF IInv

\* What is left of the list of restarts still fits, if only entries that are not on
\* it are replaced.
LEMMA TodoGoesOn ==
    ASSUME TodoFits, NEW o \in Owner, NEW p \in Pid, todo' = todo \ {<<o, p>>},
           \A u \in User : sess[u] # None => sess'[u] # None,
           \A u \in User, k \in Pid : <<u, k>> \in todo /\ <<u, k>> # <<o, p>>
               => tab'[u][k] = tab[u][k]
    PROVE  TodoFits'
  <1>1. ASSUME NEW r \in Owner, NEW k \in Pid, <<r, k>> \in todo'
        PROVE  /\ r \in User /\ sess'[r] # None
               /\ tab'[r][k] # None /\ tab'[r][k].prog # None /\ tab'[r][k].status = "failed"
    <2>1. <<r, k>> \in todo /\ <<r, k>> # <<o, p>>
      BY <1>1
    <2>2. /\ r \in User /\ sess[r] # None
          /\ tab[r][k] # None /\ tab[r][k].prog # None /\ tab[r][k].status = "failed"
      BY <2>1 DEF TodoFits
    <2>3. tab'[r][k] = tab[r][k]
      BY <2>1, <2>2
    <2> QED
      BY <2>2, <2>3
  <1> QED
    BY <1>1 DEF TodoFits

LEMMA RestartStep ==
    ASSUME IInv, NEW o \in Owner, NEW p \in Pid, NEW n \in Pid, Restart(o, p, n)
    PROVE  IInv'
  <1>i. TypeOK /\ Fits(tab, proc, started, denied) /\ Keeps(tab, Surviving) /\ TodoFits
    BY DEF IInv
  <1>u. UNCHANGED <<user, usedSid, started, adopted, denied>> /\ todo' = todo \ {<<o, p>>}
    BY DEF Restart, ghosts
  <1>1. PICK x, t :
           /\ x = tab[o][p] /\ t = Discovered(tab, sess)
           /\ IF CanCreate(o)
              THEN /\ n \in FreshPid
                   /\ proc' = [proc EXCEPT ![n] = Running(SessionFor(o), x.prog, FALSE)]
                   /\ tab' = Rebound(t, o, p, Begun(x.prog, n))
              ELSE proc' = proc /\ tab' = t
    BY DEF Restart
  <1>2. o \in User /\ sess[o] # None /\ x # None /\ x.prog # None
    BY <1>i, <1>1 DEF Restart, TodoFits
  <1>3. /\ sess' \in [User -> Session \cup {None}] /\ SessionFor(o) \in Sid
        /\ \A u \in User : sess[u] # None => sess'[u] # None
    BY <1>i, <1>2, WithTokenIs DEF Restart
  <1>4. /\ Fits(t, proc, started, denied) /\ t \in Table
        /\ \A r \in Owner, k \in Pid : tab[r][k] # None /\ tab[r][k].prog # None
               => t[r][k] = tab[r][k]
    BY <1>i, <1>1, DiscoveredIs DEF Fits
  <1>5. t[o][p] = x /\ x.prog \in Prog /\ x.prog \in started
    <2>1. t[o][p] = x
      BY <1>1, <1>2, <1>4
    <2>2. x.prog \in started
      BY <1>2, <1>4, <2>1 DEF Fits, EntryFits
    <2> QED
      BY <1>i, <2>1, <2>2 DEF TypeOK
  <1>6. ASSUME NEW d, tab' = d, Fits(d, proc', started, denied), proc' \in [Pid -> Process],
               \A u \in User, k \in Pid : t[u][k] # None /\ <<u, k>> # <<o, p>> => d[u][k] = t[u][k],
               \E k \in Pid : d[o][k] # None /\ d[o][k].prog = x.prog
        PROVE  IInv'
    <2>1. TypeOK'
      BY <1>i, <1>u, <1>3, <1>6 DEF TypeOK, Fits, Table
    <2>2. Fits(tab, proc, started, denied)'
      BY <1>u, <1>6 DEF Fits
    <2>3. ASSUME NEW u \in User, NEW k \in Pid, tab[u][k] # None, tab[u][k].prog # None,
                 <<u, k>> # <<o, p>>
          PROVE  d[u][k] = tab[u][k]
      BY <1>4, <1>6, <2>3 DEF Owner
    <2>4. TodoFits'
      <3>1. \A u \in User, k \in Pid : <<u, k>> \in todo /\ <<u, k>> # <<o, p>>
               => tab'[u][k] = tab[u][k]
        BY <1>i, <1>6, <2>3 DEF TodoFits, Owner
      <3> QED
        BY <1>i, <1>u, <1>3, <3>1, TodoGoesOn
    <2>5. ASSUME NEW u \in User, NEW k \in Pid, tab[u][k] # None, tab[u][k].prog \in Surviving
          PROVE  \E l \in Pid : d[u][l] # None /\ d[u][l].prog = tab[u][k].prog
      <3>1. CASE <<u, k>> = <<o, p>>
        BY <1>1, <1>6, <3>1
      <3>2. CASE <<u, k>> # <<o, p>>
        <4>1. tab[u][k].prog # None
          BY <1>i, <2>5, NamesAssumption DEF Surviving, TypeOK
        <4> QED
          BY <2>3, <2>5, <3>2, <4>1
      <3> QED
        BY <3>1, <3>2
    <2>6. Keeps(d, Surviving)
      BY <1>i, <2>5, StillKept
    <2>7. Keeps(tab, Surviving)'
      BY <1>u, <1>6, <2>6 DEF Keeps, Surviving
    <2> QED
      BY <2>1, <2>2, <2>4, <2>7 DEF IInv
  <1>7. CASE CanCreate(o)
    <2>1. /\ n \in FreshPid
          /\ proc' = [proc EXCEPT ![n] = Running(SessionFor(o), x.prog, FALSE)]
          /\ tab' = Rebound(t, o, p, Begun(x.prog, n))
      BY <1>1, <1>7
    <2>2. \A r \in Owner, k \in Pid : t[r][k] # None /\ t[r][k].prog = x.prog => r = o /\ k = p
      BY <1>2, <1>4, <1>5 DEF Fits
    <2>3. /\ proc' \in [Pid -> Process]
          /\ \A r \in Owner : t[r][n] = None
          /\ Fits([t EXCEPT ![o][p] = None, ![o][n] = Begun(x.prog, n)], proc', started, denied)
      <3>1. PICK s \in Sid \cup {System} : s = SessionFor(o)
        BY <1>3
      <3>2. PICK g \in Prog \cup {None} : g = x.prog
        BY <1>5
      <3>3. proc' = [proc EXCEPT ![n] = Running(s, g, FALSE)]
        BY <2>1, <3>1, <3>2
      <3>4. \A r \in Owner, k \in Pid :
               t[r][k] # None /\ t[r][k].prog = g /\ g # None => r = o /\ k = p
        BY <2>2, <3>2
      <3>5. started \subseteq started' /\ (g # None => g \in started')
        BY <1>5, <1>u, <3>2
      <3>6. /\ proc' \in [Pid -> Process]
            /\ \A r \in Owner : t[r][n] = None
            /\ Fits([t EXCEPT ![o][p] = None, ![o][n] = Begun(g, n)], proc', started', denied)
        BY ONLY <1>i, <1>2, <1>4, <2>1, <3>3, <3>4, <3>5, StartFits
      <3> QED
        BY <1>u, <3>2, <3>6
    <2>4. PICK y \in Object : y = Begun(x.prog, n) /\ y.prog = x.prog /\ y.pid = n /\ y # None
      BY <1>5, BegunIs, NoneAssumption
    <2>5. PICK d : d = [t EXCEPT ![o][p] = None, ![o][n] = y]
      OBVIOUS
    <2>6. tab' = d /\ Fits(d, proc', started, denied)
      BY <2>1, <2>3, <2>4, <2>5 DEF Rebound
    <2>7. d[o][n] = y
      BY <1>4, <2>5 DEF Table
    <2>8. ASSUME NEW u \in User, NEW k \in Pid, t[u][k] # None, <<u, k>> # <<o, p>>
          PROVE  d[u][k] = t[u][k]
      <3>1. u \in Owner /\ k # n
        BY <2>3, <2>8 DEF Owner
      <3> QED
        BY <1>4, <2>5, <2>8, <3>1 DEF Table
    <2> QED
      BY <1>6, <2>3, <2>4, <2>6, <2>7, <2>8
  <1>8. CASE ~CanCreate(o)
    BY <1>i, <1>1, <1>2, <1>4, <1>5, <1>6, <1>8 DEF TypeOK
  <1> QED
    BY <1>7, <1>8

LEMMA AdoptStep ==
    ASSUME IInv, NEW o \in Owner, NEW p \in Pid, NEW q \in Pid, NEW later \in BOOLEAN,
           Adopt(o, p, q, later)
    PROVE  IInv'
  <1>i. TypeOK /\ Fits(tab, proc, started, denied) /\ Keeps(tab, Surviving) /\ TodoFits
    BY DEF IInv
  <1>u. UNCHANGED <<user, usedSid, proc, sess, started, denied>> /\ todo' = todo \ {<<o, p>>}
    BY DEF Adopt, osVars
  <1>1. PICK x, t :
           /\ x = tab[o][p] /\ t = Discovered(tab, sess)
           /\ q \in Twins(t, o, p, x.prog)
           /\ tab' = IF later /\ q \notin Live THEN [t EXCEPT ![o][p] = None, ![o][q] = None]
                     ELSE Rebound(t, o, p, [x EXCEPT !.pid = q, !.handle = FALSE])
           /\ adopted' = adopted \cup {x.prog}
    BY DEF Adopt
  <1>2. o \in User /\ x # None /\ x.prog # None /\ x.status = "failed"
    BY <1>i, <1>1 DEF Adopt, TodoFits
  <1>3. /\ Fits(t, proc, started, denied) /\ t \in Table
        /\ \A r \in Owner, k \in Pid : tab[r][k] # None /\ tab[r][k].prog # None
               => t[r][k] = tab[r][k]
    BY <1>i, <1>1, DiscoveredIs DEF Fits
  <1>4. t[o][p] = x /\ x \in Object /\ x.prog \in started
    <2>1. t[o][p] = x
      BY <1>1, <1>2, <1>3
    <2>2. x.prog \in started /\ x \in Object
      BY <1>2, <1>3, <2>1 DEF Fits, EntryFits, Table
    <2> QED
      BY <2>1, <2>2
  <1>5. q # p /\ t[o][q] # None /\ t[o][q].status = "running" /\ proc[q].tag = x.prog
    BY <1>1 DEF Twins, Keys
  \* The twin's own object is not a monitored one: that would be one of the same program.
  <1>6. t[o][q].prog = None /\ proc[q].state # "unused"
    BY <1>2, <1>3, <1>4, <1>5 DEF Fits, EntryFits
  <1>7. ASSUME NEW d, tab' = d, Fits(d, proc, started, denied),
               \A u \in User, k \in Pid : <<u, k>> # <<o, p>> /\ <<u, k>> # <<o, q>>
                   => d[u][k] = t[u][k]
        PROVE  IInv'
    <2>1. TypeOK'
      BY <1>i, <1>u, <1>1, <1>4, <1>7 DEF TypeOK, Fits, Table
    <2>2. Fits(tab, proc, started, denied)'
      BY <1>u, <1>7 DEF Fits
    <2>3. ASSUME NEW u \in User, NEW k \in Pid, tab[u][k] # None, tab[u][k].prog # None,
                 <<u, k>> # <<o, p>>
          PROVE  d[u][k] = tab[u][k]
      <3>1. t[u][k] = tab[u][k]
        BY <1>3, <2>3 DEF Owner
      <3>2. <<u, k>> # <<o, q>>
        BY <1>6, <2>3, <3>1
      <3> QED
        BY <1>7, <2>3, <3>1, <3>2
    <2>4. TodoFits'
      <3>1. \A u \in User, k \in Pid : <<u, k>> \in todo /\ <<u, k>> # <<o, p>>
               => tab'[u][k] = tab[u][k]
        BY <1>i, <1>7, <2>3 DEF TodoFits, Owner
      <3> QED
        BY <1>i, <1>u, <3>1, TodoGoesOn
    <2>5. PICK S : S = Surviving \ {x.prog}
      OBVIOUS
    <2>6. ASSUME NEW u \in User, NEW k \in Pid, tab[u][k] # None, tab[u][k].prog \in S
          PROVE  \E l \in Pid : d[u][l] # None /\ d[u][l].prog = tab[u][k].prog
      <3>1. tab[u][k].prog # None /\ <<u, k>> # <<o, p>>
        BY <1>i, <1>1, <2>5, <2>6, NamesAssumption DEF Surviving, TypeOK
      <3> QED
        BY <2>3, <2>6, <3>1
    <2>7. Keeps(d, S)
      BY <1>i, <2>5, <2>6, StillKept
    <2>8. Surviving' = S
      BY <1>u, <1>1, <2>5 DEF Surviving
    <2>9. Keeps(tab, Surviving)'
      BY <1>7, <2>7, <2>8 DEF Keeps
    <2> QED
      BY <2>1, <2>2, <2>4, <2>9 DEF IInv
  <1>8. CASE later /\ q \notin Live
    <2>1. PICK d : d = [t EXCEPT ![o][p] = None, ![o][q] = None]
      OBVIOUS
    <2>2. /\ d \in Table
          /\ \A r \in Owner, k \in Pid : d[r][k] # None => d[r][k] = t[r][k]
          /\ \A u \in User, k \in Pid : <<u, k>> # <<o, p>> /\ <<u, k>> # <<o, q>>
                => d[u][k] = t[u][k]
      BY <1>3, <2>1 DEF Table, Owner
    <2>3. Fits(d, proc, started, denied)
      <3>1. \A r \in Owner, k \in Pid : d[r][k] # None =>
               /\ t[r][k] # None /\ d[r][k].prog = t[r][k].prog
               /\ EntryFits(r, k, d[r][k], proc, started, denied)
        BY <1>3, <2>2 DEF Fits
      <3> QED
        BY <1>3, <2>2, <3>1, Thinned
    <2>4. tab' = d
      BY <1>1, <1>8, <2>1
    <2> QED
      BY <1>7, <2>2, <2>3, <2>4
  <1>9. CASE ~(later /\ q \notin Live)
    <2>1. PICK b \in BOOLEAN : b = FALSE
      BY Zenon
    <2>2. PICK y : y = [x EXCEPT !.pid = q, !.handle = b]
      OBVIOUS
    <2>3. /\ y \in Object /\ y.pid = q /\ y.prog = x.prog /\ y.status = "failed"
          /\ y.handle = b
      BY ONLY <1>2, <1>4, <2>2, q \in Pid, b \in BOOLEAN DEF Object
    <2>4. EntryFits(o, q, y, proc, started, denied)
      BY <1>2, <1>4, <1>5, <1>6, <2>1, <2>3 DEF EntryFits
    <2>5. PICK d : d = [t EXCEPT ![o][p] = None, ![o][q] = y]
      OBVIOUS
    <2>6. tab' = d
      BY <1>1, <1>9, <2>1, <2>2, <2>3, <2>5 DEF Rebound
    <2>7. Fits(d, proc, started, denied)
      <3>1. \A r \in Owner : r # o => t[r][q] = None
        BY <1>3, <1>5 DEF Fits
      <3>2. \A r \in Owner, k \in Pid :
               t[r][k] # None /\ t[r][k].prog = y.prog /\ y.prog # None => r = o /\ k \in {p, q}
        BY <1>2, <1>3, <1>4, <2>3 DEF Fits
      <3>3. y \in Object /\ Fits(t, proc, started, denied)
        BY <1>3, <2>3
      <3>4. o \in Owner /\ p \in Pid /\ q \in Pid
        OBVIOUS
      <3>5. Fits([t EXCEPT ![o][p] = None, ![o][q] = y], proc, started, denied)
        BY ONLY <2>4, <3>1, <3>2, <3>3, <3>4, PutFits
      <3> QED
        BY <2>5, <3>5
    <2>8. \A u \in User, k \in Pid : <<u, k>> # <<o, p>> /\ <<u, k>> # <<o, q>>
             => d[u][k] = t[u][k]
      BY <1>3, <2>5 DEF Table, Owner
    <2> QED
      BY <1>7, <2>6, <2>7, <2>8
  <1> QED
    BY <1>8, <1>9

LEMMA InitIInv ==
    ASSUME Init
    PROVE  IInv
  <1>1. TypeOK
    <2>1. PICK b \in BOOLEAN : b = FALSE
      BY Zenon
    <2>2. PICK y : y = [state |-> "unused", sid |-> None, tag |-> None, closed |-> b]
      OBVIOUS
    <2>3. y \in Process
      BY ONLY <2>2, b \in BOOLEAN DEF Process
    <2>4. proc = [p \in Pid |-> y]
      BY <2>1, <2>2 DEF Init
    <2>5. proc \in [Pid -> Process]
      BY <2>3, <2>4
    <2> QED
      BY <2>5 DEF Init, TypeOK
  <1>2. tab \in Table /\ \A o \in Owner, p \in Pid : tab[o][p] = None
    BY DEF Init, Table
  <1>3. Fits(tab, proc, started, denied)
    BY <1>2 DEF Fits
  <1>4. Keeps(tab, Surviving) /\ TodoFits
    BY DEF Init, Keeps, Surviving, TodoFits
  <1> QED
    BY <1>1, <1>3, <1>4 DEF IInv

LEMMA NextIInv ==
    ASSUME IInv, [Next]_vars
    PROVE  IInv'
  <1>1. CASE TickGoesOn
    BY <1>1, RestartStep, AdoptStep DEF TickGoesOn
  <1>2. CASE UNCHANGED vars
    BY <1>2 DEF IInv, TypeOK, Fits, Keeps, Surviving, TodoFits, vars, osVars, ghosts
  <1> QED
    BY <1>1, <1>2, WindowsStep, StartStep, TickStep DEF Next

\* Everything above holds of the agent's tables at any time: whatever Windows, the
\* commands and the ticks do in whatever order.
THEOREM ProcessesInvariant == Spec => []IInv
  <1>1. Init => IInv
    BY InitIInv
  <1>2. IInv /\ [Next]_vars => IInv'
    BY NextIInv
  <1> QED
    BY <1>1, <1>2, PTL DEF Spec

\* The tables are well formed after every start, take-over, restart and discovery: an
\* object is kept under its own id, no process is in two tables and a monitored program
\* has at most one object (start_process, rebind_process,
\* discover_processes_per_session).
THEOREM TablesOKCorrect == Spec => []TablesOK
  <1>1. IInv => TablesOK
    <2> SUFFICES ASSUME IInv PROVE TablesOK
      OBVIOUS
    <2>1. TypeOK
      BY DEF IInv
    <2>2. EntriesDistinct
      BY DEF IInv, Fits, EntryFits, EntriesDistinct
    <2> QED
      BY <2>1, <2>2 DEF TablesOK
  <1> QED
    BY <1>1, ProcessesInvariant, PTL

\* A monitored program stays in the table of its session, whatever becomes of its
\* processes and of the session, but for an exit code that reads as "access denied" and
\* the entry of a twin that was taken over (close_all_processes,
\* reconcile_live_processes, on_tick).
THEOREM MonitoredKeptCorrect == Spec => []MonitoredKept
  <1>1. IInv => MonitoredKept
    BY DEF IInv, Keeps, Surviving, MonitoredKept
  <1> QED
    BY <1>1, ProcessesInvariant, PTL
=============================================================================
