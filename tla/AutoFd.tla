-------------------------------- MODULE AutoFd --------------------------------
(***************************************************************************)
(* autofd: an object that owns a file descriptor, or has only its number   *)
(* since another object took it over (autofd.h, and the autopipe and       *)
(* redir_fd that are made of it).  The kernel gives a closed number to     *)
(* the next file, so a number that outlives its ownership is dangerous.    *)
(***************************************************************************)
EXTENDS Integers, FiniteSets

CONSTANTS
  Objects,   \* places an object may be constructed in: variables, temporaries
  Numbers,   \* descriptor numbers (bound: OPEN_MAX)
  Files      \* what may be opened, once each (bound)

ASSUME FdParams == Numbers \subseteq Nat

NoFd == -1
Closed == "closed"
ASSUME ClosedIsNoFile == Closed \notin Files

VARIABLES
  obj,      \* every object: whether it is constructed, fd, owner
  table,    \* the process's descriptor table: the file open under each number
  opened    \* history: the files opened so far

fdVars == <<obj, table, opened>>

NoObject == [live |-> FALSE, num |-> NoFd, owner |-> FALSE]

FdTypeOK ==
  /\ obj \in [Objects -> [live : BOOLEAN, num : Numbers \cup {NoFd}, owner : BOOLEAN]]
  /\ table \in [Numbers -> Files \cup {Closed}]
  /\ opened \subseteq Files

FdInit ==
  /\ obj = [h \in Objects |-> NoObject]
  /\ table = [n \in Numbers |-> Closed]
  /\ opened = {}

\* autofd(): no descriptor.
Default(h) ==
  /\ ~obj[h].live
  /\ obj' = [obj EXCEPT ![h].live = TRUE]
  /\ UNCHANGED <<table, opened>>

\* A constructor from a path, or from a number the kernel has just given (dup,
\* pipe): the lowest one free.  With none free it throws.
Open(h, f) ==
  /\ ~obj[h].live /\ f \notin opened
  /\ \E n \in Numbers :
       /\ table[n] = Closed /\ \A m \in Numbers : m < n => table[m] # Closed
       /\ table' = [table EXCEPT ![n] = f]
       /\ obj' = [obj EXCEPT ![h] = [live |-> TRUE, num |-> n, owner |-> TRUE]]
  /\ opened' = opened \cup {f}

\* Bug: the object that gives its descriptor away goes on owning it.
BugKeepsOwner(o, k) == o

\* release.  The number stays behind.
Release(o, k) == [o EXCEPT ![k].owner = FALSE]

\* The copy constructor takes the descriptor over; it throws if that is no owner.
Copy(h, k) ==
  /\ ~obj[h].live /\ obj[k].live /\ obj[k].owner
  /\ obj' = [Release(obj, k) EXCEPT ![h] = [live |-> TRUE, num |-> obj[k].num, owner |-> TRUE]]
  /\ UNCHANGED <<table, opened>>

\* Bug: clear closes the number whoever owns it.
BugClosesAnyway(h) ==
  IF obj[h].num \in Numbers THEN [table EXCEPT ![obj[h].num] = Closed] ELSE table

\* What clear does: to the kernel's table, and to the object.
Close(h) == IF obj[h].owner THEN [table EXCEPT ![obj[h].num] = Closed] ELSE table
Cleared(h) ==
  IF obj[h].owner THEN [obj EXCEPT ![h].num = NoFd, ![h].owner = FALSE] ELSE obj

Clear(h) ==
  /\ obj[h].live
  /\ obj' = Cleared(h) /\ table' = Close(h) /\ UNCHANGED opened

\* operator=: nothing at all between equal numbers; else clear, and take over
\* or, when that is no owner, throw.
Assign(h, k) ==
  /\ obj[h].live /\ obj[k].live /\ obj[h].num # obj[k].num
  /\ table' = Close(h)
  /\ obj' = IF obj[k].owner
              THEN [Release(Cleared(h), k) EXCEPT ![h] = [live |-> TRUE, num |-> obj[k].num, owner |-> TRUE]]
              ELSE Cleared(h)
  /\ UNCHANGED opened

Destroy(h) ==
  /\ obj[h].live
  /\ obj' = [obj EXCEPT ![h] = NoObject] /\ table' = Close(h) /\ UNCHANGED opened

FdNext ==
  \E h \in Objects :
    \/ Default(h) \/ Clear(h) \/ Destroy(h)
    \/ \E f \in Files : Open(h, f)
    \/ \E k \in Objects : Copy(h, k) \/ Assign(h, k)

FdSpec == FdInit /\ [][FdNext]_fdVars

OwnersOpen ==
  \A h \in Objects : obj[h].owner => obj[h].num \in Numbers /\ table[obj[h].num] # Closed
Unshared ==
  \A h, k \in Objects : obj[h].owner /\ obj[k].owner /\ obj[h].num = obj[k].num => h = k
NoLeak ==
  \A n \in Numbers : table[n] # Closed => \E h \in Objects : obj[h].owner /\ obj[h].num = n

\* Whatever is copied, assigned and destroyed in whatever order, every open
\* descriptor has exactly one owner and an owner's number is open: none leaks,
\* and none is closed twice, which could close another file (release, clear,
\* operator= and the destructor of autofd).
OneOwner == OwnersOpen /\ Unshared /\ NoLeak
=============================================================================
