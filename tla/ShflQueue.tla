------------------------------ MODULE ShflQueue ------------------------------
(***************************************************************************)
(* What a ShflLock promises, without its memory: an owner, and a queue of  *)
(* waiters that is served from the front.  A free lock may be stolen past  *)
(* the queue.  While they wait, waiters may be regrouped by socket, but    *)
(* the front one keeps its place and a waiter is only overtaken by         *)
(* waiters of a socket other than its own.                                 *)
(***************************************************************************)
EXTENDS Naturals, Sequences

CONSTANTS Threads, NULL, Sockets

VARIABLES
  owner,     \* the thread that holds the lock, or NULL
  queue,     \* the waiters, from front to back
  socket     \* the socket a waiter was running on when it enqueued

vars == <<owner, queue, socket>>

Waiting == LET q == queue IN {q[i] : i \in DOMAIN q}
Outside == Threads \ (Waiting \cup {owner})

Init ==
  /\ owner = NULL
  /\ queue = <<>>
  /\ socket = [t \in Threads |-> NULL]

\* A thread that is not waiting takes a free lock: fast path or trylock.
Steal ==
  /\ owner = NULL
  /\ owner' # NULL /\ owner' \in Outside
  /\ UNCHANGED <<socket, queue>>

\* A thread about to wait notes its socket.
Note ==
  /\ socket' # socket
  /\ \E t \in Outside, s \in Sockets : socket' = [socket EXCEPT ![t] = s]
  /\ UNCHANGED <<owner, queue>>

Enqueue ==
  /\ UNCHANGED <<owner, socket>>
  /\ \E t \in Outside : socket[t] \in Sockets /\ queue' = Append(queue, t)

\* The front waiter takes a free lock.
Grant ==
  /\ owner = NULL /\ owner' # NULL
  /\ queue # <<>>
  /\ owner' = Head(queue)
  /\ queue' = Tail(queue)
  /\ UNCHANGED socket

\* The sequence q with its element at j moved forward to i.
MoveForward(q, i, j) ==
  [k \in DOMAIN q |-> IF k = i THEN q[j]
                      ELSE IF k \in (i + 1)..j THEN q[k - 1]
                      ELSE q[k]]

\* A waiter moves forward over waiters of other sockets, never to the front.
Regroup ==
  /\ UNCHANGED <<owner, socket>>
  /\ LET q == queue
     IN  \E i \in 2..Len(q), j \in 3..Len(q) :
           /\ i < j
           /\ \A k \in i..(j - 1) : socket[q[k]] # socket[q[j]]
           /\ queue' = MoveForward(q, i, j)

\* The owner has left the queue for good and its node is forgotten.
Forget ==
  /\ owner # NULL /\ UNCHANGED owner
  /\ socket' # socket
  /\ socket' = [socket EXCEPT ![owner] = NULL]
  /\ UNCHANGED queue

Release ==
  /\ owner # NULL
  /\ owner' = NULL
  /\ UNCHANGED <<socket, queue>>

Next ==
  Steal \/ Note \/ Enqueue \/ Grant \/ Regroup \/ Forget \/ Release

Spec == Init /\ [][Next]_vars

-----------------------------------------------------------------------------
\* t stands before u in the sequence q.
Before(q, t, u) == \E i, j \in DOMAIN q : i < j /\ q[i] = t /\ q[j] = u

\* No two waiters of a socket are in one order in q and in the other in r.
SameOrder(q, r) ==
  \A t, u \in Threads : socket[t] = socket[u] /\ Before(q, t, u) => ~Before(r, u, t)

\* Shuffling never reorders two waiters of the same socket: while both wait,
\* the one that enqueued first stays ahead.
SocketFifo == [][\A q \in {queue}, r \in {queue'} : q = r \/ SameOrder(q, r)]_vars

\* Nobody is shuffled past the front waiter: it leaves only with the lock.
FrontKept ==
  [][queue # <<>> /\ (queue' = <<>> \/ Head(queue') # Head(queue))
       => owner = NULL /\ owner' = Head(queue)]_vars
=============================================================================
