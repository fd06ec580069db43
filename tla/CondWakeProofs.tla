--------------------------- MODULE CondWakeProofs ---------------------------
(***************************************************************************)
(* Proofs about the wakeups of Cond, for any number of threads, tickets    *)
(* and calls: with a kernel that wakes threads in the order they parked,   *)
(* every signal and broadcast reaches the threads it is meant for.         *)
(***************************************************************************)
EXTENDS CondProofs

(* Where a waiter's thread holds the mutex.                                *)
Inside == {"locked", "register", "release"}
(* One thread at a time is between taking the mutex and giving it up.      *)
MutexOK ==
  /\ depth \in [Waiters -> Nat] /\ suspended \in [Waiters -> Nat]
  /\ \A w \in Waiters : pc[w] \in Inside => depth[w] > 0
  /\ \A v, w \in Waiters : pc[v] \in Inside /\ pc[w] \in Inside => v = w
(* A thread that has a ticket and still holds the mutex has the last one.  *)
LastOK ==
  \A v, w \in Waiters : pc[v] \in {"register", "release"} /\ HasTicket(w) /\ w # v
                          => my[w].position < my[v].position
(* Nothing has been counted for a thread that does not wait.               *)
FreshOK ==
  \A w \in Waiters : pc[w] \in {"out"} \cup Inside =>
    since[w].signals = 0 /\ since[w].wakes = 0 /\ ~since[w].broadcast
(* A wake is owed from the post to the kernel call.                        *)
CallAt(s) ==
  /\ my[s].wake => pc[s] \in {"unlock", "wakeLocker", "wake"}
  /\ pc[s] = "wake" => my[s].wake
  /\ pc[s] \in {"postRest", "wakeRest"} => my[s].call = "broadcast"
CallOK == \A s \in Signalers : CallAt(s)

(* The last closed group has the tickets from b to start, and within a     *)
(* switch the one before it those from b0 to b.  Each was left a signal for*)
(* every member that is still in the wait, so none of them parks.          *)
LastSlot == Other(Reused)
BasesAt(b0, b) ==
  /\ b0 \in Nat /\ b \in Nat /\ b0 <= b /\ b <= start
  /\ signals[LastSlot] >= b + Cardinality(Within(b, start))
  /\ Switching => signals[Reused] >= b0 + Cardinality(Within(b0, b))
LaggardAt(w, b0, b) ==
  /\ HasTicket(w) =>
       /\ b <= my[w].position /\ my[w].position < start => my[w].slot = LastSlot
       /\ Switching /\ b0 <= my[w].position /\ my[w].position < b => my[w].slot = Reused
  /\ pc[w] = "take" =>
       /\ my[w].slot = LastSlot /\ my[w].position < b => my[w].seen < b
       /\ Switching /\ my[w].slot = Reused /\ my[w].position < b0 => my[w].seen < b0
  /\ pc[w] = "park" =>
       /\ my[w].seen <= my[w].position /\ my[w].seen <= start
       /\ b <= my[w].position /\ my[w].position < start => my[w].seen <= b
       /\ Switching /\ b0 <= my[w].position /\ my[w].position < b => my[w].seen <= b0
LaggardsAt(b0, b) == BasesAt(b0, b) /\ \A w \in Waiters : LaggardAt(w, b0, b)
Laggards == \E b0, b \in 0 .. MaxTickets : LaggardsAt(b0, b)

(* In each queue the members of closed groups stand before the others.     *)
ClosedFirst(q, m, first) ==
  \A i, j \in 1 .. Len(q) : i < j /\ m[q[j]].position < first => m[q[i]].position < first
OrderOK == \A slot \in Slots : ClosedFirst(queue[SignalsAt(slot)], my, start)

(* The members of closed groups that are asleep, those of group one, and   *)
(* the signalers that are about to wake somebody.                          *)
ClosedParked(slot) ==
  {w \in Waiters : pc[w] = "parked" /\ my[w].position < start /\ my[w].slot = slot}
IsMember(w) == Blocked(w) /\ start <= my[w].position /\ my[w].position < start + word.size
Awake == {w \in Waiters : IsMember(w) /\ pc[w] # "parked"}
Asleep == {w \in Waiters : IsMember(w) /\ pc[w] = "parked"}
Wakes(s, slot) == my[s].slot = slot /\ (my[s].wake \/ pc[s] = "wakeRest")
Wakers(slot) == {s \in Signalers : Wakes(s, slot)}
Loud(slot) == \E s \in Signalers : Wakes(s, slot) /\ my[s].call = "broadcast"
(* Every sleeper of a closed group has a wake coming, and so has every     *)
(* signal of group one that no member awake will find.                     *)
Served(slot) == Loud(slot) \/ Cardinality(ClosedParked(slot)) <= Cardinality(Wakers(slot))
GroupServed ==
  ~Switching /\ Asleep # {} =>
    \/ Loud(GroupOne)
    \/ Cardinality(ClosedParked(GroupOne)) + signals[GroupOne]
         <= start + Cardinality(Awake) + Cardinality(Wakers(GroupOne))
DeliveryOK == (\A slot \in Slots : Served(slot)) /\ GroupServed

(* A waiter is sure to be let go when its group is closed or has been given*)
(* a signal for everyone.  Until then each signal called since it blocked  *)
(* has woken another, or is being posted, or is there for another to take; *)
(* and a broadcast called since has still to reach its group.              *)
Certain(w) ==
  \/ my[w].position < start
  \/ ~Switching /\ my[w].position < start + word.size /\ sizes[GroupOne] = 0
Posts(s) ==
  my[s].call = "signal" /\ pc[s] \in {"lock", "lockSlow", "lockPark", "parked", "observe",
                                      "close", "flip", "open", "post"}
Posting == {s \in Signalers : Posts(s)}
Posted == IF Switching THEN 0 ELSE signals[GroupOne] - start
Owed == Cardinality(Posting) + Cardinality(Within(0, start)) + Posted
Reaches(s, w) ==
  /\ my[s].call = "broadcast"
  /\ \/ pc[s] \in {"lock", "lockSlow", "lockPark", "parked", "observe", "close", "flip"}
     \/ pc[s] \in {"postRest", "wakeRest", "open"} /\ my[w].position < my[s].position
     \/ pc[s] = "post" /\ my[w].position < start + word.size
CalledAt(w) ==
  Blocked(w) /\ ~Certain(w) =>
    /\ since[w].signals <= since[w].wakes + Owed
    /\ since[w].broadcast => \E s \in Signalers : Reaches(s, w)
CalledOK == \A w \in Waiters : CalledAt(w)

(* All of it.                                                              *)
Small == MutexOK /\ LastOK /\ FreshOK /\ CallOK
WakeInv == Small /\ Laggards /\ OrderOK /\ DeliveryOK /\ CalledOK

(* The sets that are counted are finite.                                   *)
LEMMA SetsFinite ==
  /\ IsFiniteSet(Waiters) /\ IsFiniteSet(Signalers)
  /\ Cardinality(Waiters) \in Nat
  /\ \A S : S \subseteq Waiters \/ S \subseteq Signalers => IsFiniteSet(S) /\ Cardinality(S) \in Nat
  <1>1. IsFiniteSet(Waiters) /\ IsFiniteSet(Signalers)
    BY CondAssumption, FS_Subset DEF Threads
  <1>2. QED BY <1>1, FS_Subset, FS_CardinalityType

(* The sizes of the sets this module counts are numbers.                   *)
LEMMA CountsAreNat ==
  /\ \A slot : /\ Cardinality(ClosedParked(slot)) \in Nat /\ Cardinality(Wakers(slot)) \in Nat
  /\ Cardinality(Awake) \in Nat /\ Cardinality(Asleep) \in Nat /\ Cardinality(Posting) \in Nat
  /\ \A lo, hi : Cardinality(Within(lo, hi)) \in Nat
  <1>1. /\ \A slot : ClosedParked(slot) \subseteq Waiters /\ Wakers(slot) \subseteq Signalers
        /\ Awake \subseteq Waiters /\ Asleep \subseteq Waiters /\ Posting \subseteq Signalers
        /\ \A lo, hi : Within(lo, hi) \subseteq Waiters
    BY DEF ClosedParked, Wakers, Awake, Asleep, Posting, Within
  <1>2. QED BY <1>1, SetsFinite

(* A set of waiters or signalers is at least as large as a part of it, and *)
(* loses one with a member.                                                *)
LEMMA FewerCount ==
  ASSUME NEW S, NEW T, T \subseteq Waiters \/ T \subseteq Signalers, S \subseteq T
  PROVE  Cardinality(S) <= Cardinality(T)
  BY SetsFinite, FS_Subset

(* Taking one member out leaves one fewer,                                 *)
LEMMA OneFewer ==
  ASSUME NEW S, NEW T, T \subseteq Waiters \/ T \subseteq Signalers, NEW x \in T, S = T \ {x}
  PROVE  Cardinality(S) = Cardinality(T) - 1 /\ Cardinality(T) \in Nat /\ Cardinality(S) \in Nat
  <1>1. IsFiniteSet(T) /\ Cardinality(T) \in Nat
    BY SetsFinite
  <1>2. Cardinality(S) = Cardinality(T) - 1
    BY <1>1, FS_RemoveElement
  <1>3. S \subseteq Waiters \/ S \subseteq Signalers
    OBVIOUS
  <1>4. QED BY <1>1, <1>2, <1>3, SetsFinite

(* putting one in makes one more,                                          *)
LEMMA OneMore ==
  ASSUME NEW S, NEW T, S \subseteq Waiters \/ S \subseteq Signalers, NEW x, x \notin S,
         T = S \cup {x}
  PROVE  Cardinality(T) = Cardinality(S) + 1 /\ Cardinality(S) \in Nat
  BY SetsFinite, FS_AddElement

(* and two sets without a common member add up.                            *)
LEMMA BothCount ==
  ASSUME NEW S, NEW T, S \subseteq Waiters, T \subseteq Waiters, S \cap T = {}
  PROVE  Cardinality(S \cup T) = Cardinality(S) + Cardinality(T)
  <1>1. IsFiniteSet(S) /\ IsFiniteSet(T) /\ Cardinality({}) = 0
    BY SetsFinite, FS_EmptySet
  <1>2. /\ Cardinality(S \cup T) = Cardinality(S) + Cardinality(T) - Cardinality(S \cap T)
        /\ Cardinality(S) \in Nat /\ Cardinality(T) \in Nat
    BY <1>1, FS_Union, FS_CardinalityType
  <1>3. Cardinality(S \cap T) = 0
    BY <1>1
  <1>4. QED BY <1>2, <1>3

(* What a step leaves alone: the groups; the waiters' tickets, locals and  *)
(* sleep; what the signalers post, wake and switch.                        *)
GroupsStay == start' = start /\ sizes' = sizes /\ signals' = signals
              /\ word'.size = word.size /\ sequence'.slot = sequence.slot
Stands(w) ==
  /\ HasTicket(w)' <=> HasTicket(w)
  /\ Blocked(w)' <=> Blocked(w)
  /\ HasTicket(w) => my'[w].slot = my[w].slot /\ my'[w].position = my[w].position
  /\ pc'[w] = "parked" <=> pc[w] = "parked"
  /\ pc'[w] \in {"take", "park"} => pc'[w] = pc[w] /\ my'[w].seen = my[w].seen
WaitersStand == \A w \in Waiters : Stands(w)
SwitchStays == \A s \in Signalers : /\ pc'[s] = "flip" <=> pc[s] = "flip"
                                    /\ pc'[s] = "open" <=> pc[s] = "open"
StaysWaker(s) == \A slot \in Slots : /\ Wakes(s, slot)' <=> Wakes(s, slot)
                                     /\ Wakes(s, slot) => my'[s].call = my[s].call
WakersStay == \A s \in Signalers : StaysWaker(s)
PostsStay == \A s \in Signalers : Posts(s)' <=> Posts(s)

(* With every signaler in or out of the switch as before, the switch is    *)
(* where it was,                                                           *)
LEMMA SwitchSame ==
  ASSUME SwitchStays
  PROVE  (Switching' <=> Switching) /\ (Flipping' <=> Flipping) /\ (Opening' <=> Opening)
  BY DEF SwitchStays, Switching, Flipping, Opening

(* and with the groups left alone so are the slots.                        *)
LEMMA SlotsSame ==
  ASSUME SwitchStays, GroupsStay
  PROVE  GroupOne' = GroupOne /\ Reused' = Reused /\ LastSlot' = LastSlot
  <1>1. GroupOne' = GroupOne
    BY DEF GroupsStay, GroupOne
  <1>2. Reused' = Reused
    BY <1>1, SwitchSame DEF Reused, Other
  <1>3. QED BY <1>1, <1>2 DEF LastSlot, Other

(* Steady wakers leave the sets of wakers,                                 *)
LEMMA WakersSame ==
  ASSUME WakersStay
  PROVE  \A slot \in Slots : Wakers(slot)' = Wakers(slot) /\ (Loud(slot)' <=> Loud(slot))
  <1>1. ASSUME NEW slot \in Slots, NEW s \in Signalers
        PROVE  /\ Wakes(s, slot)' <=> Wakes(s, slot)
               /\ Wakes(s, slot) => my'[s].call = my[s].call
    BY DEF WakersStay, StaysWaker
  <1>2. QED BY <1>1 DEF Wakers, Loud

(* steady posts the set of posting signalers,                              *)
LEMMA PostingSame ==
  ASSUME PostsStay
  PROVE  Posting' = Posting
  BY DEF PostsStay, Posting

(* standing waiters the sleepers of the closed groups,                     *)
LEMMA ClosedSame ==
  ASSUME WaitersStand, start' = start
  PROVE  \A slot : ClosedParked(slot)' = ClosedParked(slot)
  <1>1. ASSUME NEW w \in Waiters, NEW slot
        PROVE  (pc[w] = "parked" /\ my[w].position < start /\ my[w].slot = slot)'
                 <=> pc[w] = "parked" /\ my[w].position < start /\ my[w].slot = slot
    BY DEF WaitersStand, Stands, HasTicket, Blocked
  <1>2. QED BY <1>1 DEF ClosedParked

(* the members of group one, awake and asleep,                             *)
LEMMA MembersSame ==
  ASSUME WaitersStand, start' = start, word'.size = word.size
  PROVE  Awake' = Awake /\ Asleep' = Asleep
  <1>1. ASSUME NEW w \in Waiters
        PROVE  /\ IsMember(w)' <=> IsMember(w)
               /\ pc'[w] = "parked" <=> pc[w] = "parked"
    BY DEF WaitersStand, Stands, HasTicket, IsMember
  <1>2. QED BY <1>1 DEF Awake, Asleep

(* and the holders of a range of tickets.                                  *)
LEMMA WithinSame ==
  ASSUME WaitersStand, NEW lo, NEW hi
  PROVE  {w \in Waiters : HasTicket(w)' /\ lo <= my'[w].position /\ my'[w].position < hi}
           = Within(lo, hi)
  <1>1. ASSUME NEW w \in Waiters
        PROVE  HasTicket(w)' /\ lo <= my'[w].position /\ my'[w].position < hi
                 <=> HasTicket(w) /\ lo <= my[w].position /\ my[w].position < hi
    BY DEF WaitersStand, Stands
  <1>2. QED BY <1>1 DEF Within

(* What a step of t does to the others.                                    *)
LEMMA OtherStands ==
  ASSUME NEW t \in Threads, Others(t), NEW w \in Waiters, w # t
  PROVE  /\ HasTicket(w)' <=> HasTicket(w)
         /\ Blocked(w)' <=> Blocked(w)
         /\ my'[w] = my[w]
         /\ pc'[w] = "parked" => pc[w] = "parked"
         /\ pc'[w] \in {"take", "park"} => pc'[w] = pc[w]
         /\ pc'[w] = pc[w] => Stands(w)
  <1>1. my'[w] = my[w] /\ (pc'[w] = pc[w] \/ (pc[w] = "parked" /\ pc'[w] = "load"))
    BY OthersPlaces
  <1>2. /\ HasTicket(w)' <=> HasTicket(w)
        /\ Blocked(w)' <=> Blocked(w)
    BY <1>1 DEF HasTicket, Blocked
  <1>3. QED BY <1>1, <1>2 DEF Stands

(* What a thread's step leaves of another signaler: at most it is woken    *)
(* from the internal lock.                                                 *)
LEMMA OtherSignaler ==
  ASSUME NEW t \in Threads, Others(t), CallOK, NEW s \in Signalers, s # t
  PROVE  /\ my'[s] = my[s] /\ StaysWaker(s) /\ (Posts(s)' <=> Posts(s))
         /\ pc'[s] = "flip" <=> pc[s] = "flip"
         /\ pc'[s] = "open" <=> pc[s] = "open"
         /\ pc'[s] = pc[s] \/ pc[s] = "parked"
  <1>1. /\ my'[s] = my[s]
        /\ \/ pc'[s] = pc[s]
           \/ pc[s] = "parked" /\ my[s].call = "none" /\ pc'[s] = "destroy"
           \/ pc[s] = "parked" /\ my[s].call # "none" /\ pc'[s] = "lockSlow"
    BY OthersPlaces
  <1>2. my[s].wake => pc[s] \in {"unlock", "wakeLocker", "wake"}
    BY DEF CallOK, CallAt
  <1>3. StaysWaker(s)
    BY <1>1, <1>2 DEF StaysWaker, Wakes
  <1>4. Posts(s)' <=> Posts(s)
    BY <1>1 DEF Posts
  <1>5. QED BY <1>1, <1>3, <1>4

(* A broadcast on its way to a waiter stays on its way when another thread *)
(* steps.                                                                  *)
LEMMA OtherReaches ==
  ASSUME NEW t \in Threads, Others(t), NEW s \in Signalers, s # t, NEW w \in Waiters,
         my'[w].position = my[w].position,
         start' + word'.size = start + word.size \/ pc[s] # "post",
         Reaches(s, w)
  PROVE  Reaches(s, w)'
  <1>1. /\ my'[s] = my[s]
        /\ \/ pc'[s] = pc[s]
           \/ pc[s] = "parked" /\ my[s].call = "none" /\ pc'[s] = "destroy"
           \/ pc[s] = "parked" /\ my[s].call # "none" /\ pc'[s] = "lockSlow"
    BY OthersPlaces
  <1>2. QED BY <1>1 DEF Reaches

(* A waiter's step leaves every signaler its wakes, its posts and its      *)
(* place in the switch,                                                    *)
LEMMA OtherSignalersStay ==
  ASSUME NEW t \in Waiters, Others(t), CallOK
  PROVE  SwitchStays /\ WakersStay /\ PostsStay
  <1>1. t \in Threads /\ \A s \in Signalers : s # t
    BY CondAssumption DEF Threads
  <1>2. QED BY <1>1, OtherSignaler DEF SwitchStays, WakersStay, PostsStay

(* and so does a signaler's step for the others.                           *)
LEMMA SignalersStay ==
  ASSUME NEW t \in Signalers, Others(t), CallOK
  PROVE  /\ StaysWaker(t) => WakersStay
         /\ (Posts(t)' <=> Posts(t)) => PostsStay
         /\ pc[t] \notin {"flip", "open"} /\ pc'[t] \notin {"flip", "open"} => SwitchStays
  <1>1. t \in Threads
    BY DEF Threads
  <1>2. QED BY <1>1, OtherSignaler DEF SwitchStays, WakersStay, PostsStay

(* What the moving thread must keep for the small parts of the invariant.  *)
SmallAt(t) ==
  /\ t \in Waiters =>
       /\ pc'[t] \in Inside => pc[t] \in Inside
       /\ pc'[t] \in {"register", "release"} => pc[t] \in {"register", "release"}
       /\ pc'[t] \in {"out"} \cup Inside => pc[t] \in {"out"} \cup Inside
       /\ HasTicket(t)' => HasTicket(t) /\ my'[t].position = my[t].position
  /\ t \in Signalers => CallAt(t)'

(* Another waiter stays inside the mutex or outside, with or without a     *)
(* ticket.                                                                 *)
LEMMA OtherSmall ==
  ASSUME NEW t \in Threads, Others(t)
  PROVE  \A w \in Waiters : w # t =>
           /\ pc'[w] \in Inside <=> pc[w] \in Inside
           /\ pc'[w] \in {"register", "release"} <=> pc[w] \in {"register", "release"}
           /\ pc'[w] \in {"out"} \cup Inside <=> pc[w] \in {"out"} \cup Inside
           /\ HasTicket(w)' <=> HasTicket(w)
           /\ my'[w].position = my[w].position
  <1>1. ASSUME NEW w \in Waiters, w # t
        PROVE  my'[w] = my[w] /\ (pc'[w] = pc[w] \/ (pc[w] = "parked" /\ pc'[w] = "load"))
    BY <1>1, OthersPlaces
  <1>2. ASSUME NEW w \in Waiters, w # t
        PROVE  /\ pc'[w] \in Inside <=> pc[w] \in Inside
               /\ pc'[w] \in {"register", "release"} <=> pc[w] \in {"register", "release"}
               /\ pc'[w] \in {"out"} \cup Inside <=> pc[w] \in {"out"} \cup Inside
               /\ HasTicket(w)' <=> HasTicket(w)
    BY <1>1, <1>2 DEF Inside, HasTicket, Blocked
  <1>3. QED BY <1>1, <1>2

(* A step keeps CallOK when the moving signaler does,                      *)
LEMMA CallKeeps ==
  ASSUME NEW t \in Threads, Others(t), CallOK, t \in Signalers => CallAt(t)'
  PROVE  CallOK'
  <1>1. ASSUME NEW s \in Signalers, s # t PROVE CallAt(s)'
    <2>1. /\ my'[s] = my[s] /\ CallAt(s)
          /\ \/ pc'[s] = pc[s]
             \/ pc[s] = "parked" /\ pc'[s] \in {"destroy", "lockSlow"}
      BY <1>1, OthersPlaces DEF CallOK
    <2>2. QED BY <2>1 DEF CallAt
  <1>2. QED BY <1>1 DEF CallOK

(* and the small parts together when the moving thread does and leaves the *)
(* mutex and the history alone.                                            *)
LEMMA SmallKeeps ==
  ASSUME Small, NEW t \in Threads, Others(t), UNCHANGED mutexVars, since' = since, SmallAt(t)
  PROVE  Small'
  <1>1. \A w \in Waiters :
          /\ pc'[w] \in Inside => pc[w] \in Inside
          /\ pc'[w] \in {"register", "release"} => pc[w] \in {"register", "release"}
          /\ pc'[w] \in {"out"} \cup Inside => pc[w] \in {"out"} \cup Inside
          /\ HasTicket(w)' => HasTicket(w) /\ my'[w].position = my[w].position
    BY OtherSmall DEF SmallAt
  <1>2. depth' = depth /\ suspended' = suspended
    BY DEF mutexVars
  <1>3. MutexOK'
    BY <1>1, <1>2 DEF Small, MutexOK
  <1>3a. \A u \in Waiters : /\ pc'[u] \in {"register", "release"} => HasTicket(u)'
    BY DEF HasTicket
  <1>4. LastOK'
    BY <1>1, <1>3a DEF Small, LastOK
  <1>5. FreshOK'
    BY <1>1 DEF Small, FreshOK
  <1>6. CallOK'
    BY CallKeeps DEF Small, SmallAt
  <1>7. QED BY <1>3, <1>4, <1>5, <1>6 DEF Small

(* Leaving the wait counts for those who stay.                             *)
LEMMA LeavesDoes ==
  ASSUME Types, NEW w \in Waiters, Leaves(w)
  PROVE  /\ \A u \in Waiters : /\ ~Blocked(u) \/ u = w => since'[u] = since[u]
                               /\ Blocked(u) /\ u # w =>
                                    /\ since'[u].signals = since[u].signals
                                    /\ since'[u].wakes = since[u].wakes + 1
                                    /\ since'[u].broadcast = since[u].broadcast
                               /\ since[u].signals \in Nat /\ since[u].wakes \in Nat
  <1>1. ASSUME NEW u \in Waiters
        PROVE  since[u] \in SinceType /\ since'[u] = IF Blocked(u) /\ u # w
                 THEN [since[u] EXCEPT !.wakes = @ + 1] ELSE since[u]
    BY DEF Types, Leaves
  <1>2. QED BY <1>1 DEF SinceType

(* A waiter that leaves the wait counts as one more wakeup for the others, *)
LEMMA LeavingSmall ==
  ASSUME Inv, Small, NEW w \in Waiters, Others(w), UNCHANGED mutexVars, Leaves(w), SmallAt(w),
         Blocked(w), pc'[w] = "confirm"
  PROVE  Small'
  <1>0. w \in Threads
    BY DEF Threads
  <1>1. \A u \in Waiters :
          /\ pc'[u] \in Inside => pc[u] \in Inside
          /\ pc'[u] \in {"register", "release"} => pc[u] \in {"register", "release"}
          /\ pc'[u] \in {"out"} \cup Inside => pc[u] \in {"out"} \cup Inside
          /\ HasTicket(u)' => HasTicket(u) /\ my'[u].position = my[u].position
    BY <1>0, OtherSmall DEF SmallAt
  <1>2. depth' = depth /\ suspended' = suspended
    BY DEF mutexVars
  <1>3. MutexOK'
    BY <1>1, <1>2 DEF Small, MutexOK
  <1>3a. \A u \in Waiters : /\ pc'[u] \in {"register", "release"} => HasTicket(u)'
    BY DEF HasTicket
  <1>4. LastOK'
    BY <1>1, <1>3a DEF Small, LastOK
  <1>5. FreshOK'
    <2>1. ASSUME NEW u \in Waiters, pc'[u] \in {"out"} \cup Inside
          PROVE  since'[u].signals = 0 /\ since'[u].wakes = 0 /\ ~since'[u].broadcast
      <3>1. pc[u] \in {"out"} \cup Inside /\ ~Blocked(u)
        BY <2>1, <1>1 DEF Blocked, Inside
      <3>2. since'[u] = since[u]
        BY <3>1, LeavesDoes DEF Inv
      <3>3. QED BY <3>1, <3>2 DEF Small, FreshOK
    <2>2. QED BY <2>1 DEF FreshOK
  <1>6. CallOK'
    BY <1>0, CallKeeps, CondAssumption DEF Small
  <1>7. QED BY <1>3, <1>4, <1>5, <1>6 DEF Small

(* Steps that change what a signaler has read, not what it was called for. *)
LEMMA SameCall ==
  ASSUME Inv, NEW s \in Signalers, LockSlow(s) \/ Observe(s) \/ FlipSlot(s) \/ BeginDestroy(s)
  PROVE  my'[s].wake = my[s].wake /\ my'[s].call = my[s].call
  <1>1. my[s] \in LocalType
    BY NumberFacts DEF Inv, Threads
  <1>2. CASE LockSlow(s)
    <2>1. my'[s] = [my[s] EXCEPT !.seen = word.size]
      BY <1>2, LockSlowDoes DEF Inv
    <2>2. QED BY <1>1, <2>1, RecordFacts
  <1>3. CASE Observe(s)
    <2>1. my'[s] = [my[s] EXCEPT !.slot = GroupOne, !.position = sequence.ticket, !.seen = 0]
      BY <1>3, ObserveDoes DEF Inv
    <2>2. QED BY <1>1, <2>1, RecordFacts
  <1>4. CASE FlipSlot(s)
    <2>1. my'[s] = [my[s] EXCEPT !.slot = Other(@), !.position = sequence.ticket]
      BY <1>4, FlipSlotDoes DEF Inv
    <2>2. QED BY <1>1, <2>1 DEF LocalType
  <1>5. CASE BeginDestroy(s)
    <2>1. my'[s] = [my[s] EXCEPT !.seen = refs.waiters]
      BY <1>5, BeginDestroyDoes DEF Inv
    <2>2. QED BY <1>1, <2>1, RecordFacts
  <1>6. QED BY <1>2, <1>3, <1>4, <1>5

(* a destroyer owes no wake,                                               *)
LEMMA DestroySmall ==
  ASSUME Inv, Small, NEW s \in Signalers, Destroy(s)
  PROVE  CallAt(s)' /\ pc'[s] \in {"out", "parkDestroyer"} /\ ~my'[s].wake /\ my'[s].call = "none"
         /\ ~my[s].wake /\ my[s].call = "none"
  <1>1. pc[s] = "destroy" /\ my[s] \in LocalType /\ LocalAt(s)
    BY DestroyDoes, NumberFacts DEF Inv, Threads, LocalsOK
  <1>2. ~my[s].wake /\ my[s].call = "none"
    BY <1>1 DEF LocalAt
  <1>3. \/ my'[s] = [my[s] EXCEPT !.seen = refs.waiters] /\ pc'[s] = "parkDestroyer"
        \/ my'[s] = Idle /\ pc'[s] = "out"
    BY DestroyDoes DEF Inv
  <1>4. ~my'[s].wake /\ my'[s].call = "none"
    <2>1. CASE my'[s] = Idle
      BY <2>1, IdleFacts
    <2>2. CASE my'[s] = [my[s] EXCEPT !.seen = refs.waiters]
      <3>1. my'[s].wake = my[s].wake /\ my'[s].call = my[s].call
        BY <1>1, <2>2, RecordFacts
      <3>2. QED BY <1>2, <3>1
    <2>3. QED BY <1>3, <2>1, <2>2
  <1>5. QED BY <1>2, <1>3, <1>4 DEF CallAt

(* The mutex is taken and given up.                                        *)
LEMMA MutexSmall ==
  ASSUME Inv, Small, NEW w \in Waiters,
         LockMutex(w) \/ UnlockMutex(w) \/ ReleaseMutex(w) \/ ReacquireMutex(w)
  PROVE  Small'
  <1>1. w \in Threads /\ w \notin Signalers /\ Others(w) /\ my' = my
    BY LockMutexDoes, UnlockMutexDoes, ReleaseMutexDoes, ReacquireMutexDoes, CondAssumption
       DEF Threads, Inv, Base
  <1>2. /\ pc'[w] \notin {"register", "release"}
        /\ HasTicket(w)' => HasTicket(w)
    BY LockMutexDoes, UnlockMutexDoes, ReleaseMutexDoes, ReacquireMutexDoes
       DEF Inv, HasTicket, Blocked
  <1>3. ASSUME NEW u \in Waiters, u # w
        PROVE  /\ pc'[u] \in Inside <=> pc[u] \in Inside
               /\ pc'[u] \in {"register", "release"} <=> pc[u] \in {"register", "release"}
               /\ pc'[u] \in {"out"} \cup Inside <=> pc[u] \in {"out"} \cup Inside
               /\ HasTicket(u)' <=> HasTicket(u)
    BY <1>1, <1>3, OtherSmall
  <1>4. MutexOK'
    <2>1. depth \in [Waiters -> Nat] /\ suspended \in [Waiters -> Nat]
      BY DEF Small, MutexOK
    <2>2. /\ depth' \in [Waiters -> Nat] /\ suspended' \in [Waiters -> Nat]
          /\ \A u \in Waiters : u # w => depth'[u] = depth[u]
          /\ \/ pc'[w] = "locked" /\ depth'[w] > 0 /\ \A u \in Waiters : depth[u] = 0
             \/ pc'[w] \notin Inside
      <3>1. CASE LockMutex(w)
        <4>1. /\ (\A u \in Waiters : depth[u] = 0) /\ depth' = [depth EXCEPT ![w] = 1]
              /\ suspended' = suspended
          BY <3>1 DEF LockMutex, mutex!Acquire, mutex!Free
        <4>2. QED BY <2>1, <3>1, <4>1, LockMutexDoes DEF Inv
      <3>2. CASE UnlockMutex(w)
        <4>1. depth[w] > 0 /\ depth' = [depth EXCEPT ![w] = depth[w] - 1] /\ suspended' = suspended
          BY <3>2 DEF UnlockMutex, mutex!Release
        <4>2. depth[w] - 1 \in Nat
          BY <2>1, <4>1
        <4>3. QED BY <2>1, <3>2, <4>1, <4>2, UnlockMutexDoes DEF Inv, Inside
      <3>3. CASE ReleaseMutex(w)
        <4>1. depth' = [depth EXCEPT ![w] = 0] /\ suspended' = [suspended EXCEPT ![w] = depth[w]]
          BY <3>3 DEF ReleaseMutex, mutex!Suspend
        <4>2. suspended' \in [Waiters -> Nat]
          BY <2>1, <4>1
        <4>3. pc'[w] \notin Inside
          BY <3>3, ReleaseMutexDoes DEF Inv, Inside
        <4>4. QED BY <2>1, <4>1, <4>2, <4>3
      <3>4. CASE ReacquireMutex(w)
        <4>1. /\ \A u \in Waiters : depth[u] = 0
              /\ suspended[w] > 0 /\ depth' = [depth EXCEPT ![w] = suspended[w]]
              /\ suspended' = [suspended EXCEPT ![w] = 0]
          BY <3>4 DEF ReacquireMutex, mutex!Resume, mutex!Free
        <4>2. suspended' \in [Waiters -> Nat] /\ suspended[w] \in Nat
          BY <2>1, <4>1
        <4>3. pc'[w] = "locked"
          BY <3>4, ReacquireMutexDoes DEF Inv
        <4>4. QED BY <2>1, <4>1, <4>2, <4>3
      <3>5. QED BY <3>1, <3>2, <3>3, <3>4
    <2>6. ASSUME NEW u \in Waiters, pc'[u] \in Inside PROVE depth'[u] > 0
      BY <1>3, <2>2, <2>6 DEF Small, MutexOK
    <2>7. ASSUME NEW u \in Waiters, NEW v \in Waiters, pc'[u] \in Inside, pc'[v] \in Inside
          PROVE  u = v
      <3>1. \A x \in Waiters : pc[x] \in Inside => depth[x] > 0
        BY DEF Small, MutexOK
      <3>2. QED BY <1>3, <2>2, <2>7, <3>1 DEF Small, MutexOK
    <2>8. QED BY <2>2, <2>6, <2>7 DEF MutexOK
  <1>5. LastOK'
    BY <1>1, <1>2, <1>3 DEF Small, LastOK
  <1>6. FreshOK'
    <2>1. CASE ReacquireMutex(w)
      <3>1. since' = [since EXCEPT ![w] = Nothing] /\ since \in [Waiters -> SinceType]
        BY <2>1, ReacquireMutexDoes DEF Inv, Types
      <3>2. since'[w] = Nothing /\ \A u \in Waiters : u # w => since'[u] = since[u]
        BY <3>1
      <3>3. QED BY <1>3, <3>2 DEF Small, FreshOK, Nothing
    <2>2. CASE ~ReacquireMutex(w)
      <3>1. since' = since /\ (pc'[w] \in {"out"} \cup Inside => pc[w] \in {"out"} \cup Inside)
        BY <2>2, LockMutexDoes, UnlockMutexDoes, ReleaseMutexDoes DEF Inv, Inside
      <3>2. QED BY <1>3, <3>1 DEF Small, FreshOK
    <2>3. QED BY <2>1, <2>2
  <1>7. CallOK'
    BY <1>1, CallKeeps DEF Small
  <1>8. QED BY <1>4, <1>5, <1>6, <1>7 DEF Small

(* The ticket a thread takes is the last one, and nobody else holds the    *)
(* mutex.                                                                  *)
LEMMA TicketSmall ==
  ASSUME Inv, Small, NEW w \in Waiters, TakeTicket(w)
  PROVE  Small'
  <1>1. /\ w \in Threads /\ w \notin Signalers /\ Others(w) /\ pc[w] = "locked"
        /\ pc'[w] = "register"
        /\ my'[w] = [my[w] EXCEPT !.slot = sequence.slot, !.position = sequence.ticket]
        /\ since' = [since EXCEPT ![w].roused = SignalerActive]
    BY TakeTicketDoes, CondAssumption DEF Threads, Inv, Base
  <1>2. depth' = depth /\ suspended' = suspended
    BY DEF TakeTicket, mutexVars
  <1>3. \A u \in Waiters : u # w =>
               /\ pc'[u] \in Inside <=> pc[u] \in Inside
               /\ pc'[u] \in {"register", "release"} <=> pc[u] \in {"register", "release"}
               /\ pc'[u] \in {"out"} \cup Inside <=> pc[u] \in {"out"} \cup Inside
               /\ HasTicket(u)' <=> HasTicket(u)
               /\ my'[u].position = my[u].position
    BY <1>1, OtherSmall
  <1>4. pc[w] \in Inside /\ pc'[w] \in Inside /\ \A u \in Waiters : u # w => pc[u] \notin Inside
    BY <1>1 DEF Small, MutexOK, Inside
  <1>5. MutexOK'
    BY <1>2, <1>3, <1>4 DEF Small, MutexOK
  <1>6. LastOK'
    <2>1. my'[w].position = sequence.ticket
      <3>1. my[w] \in LocalType
        BY <1>1, NumberFacts DEF Inv
      <3>2. QED BY <1>1, <3>1 DEF LocalType
    <2>2. \A u \in Waiters : HasTicket(u) => my[u].position < sequence.ticket
      BY EndIs DEF Inv, BooksAt, WaiterAt
    <2>3. \A u \in Waiters : u # w => pc'[u] \notin {"register", "release"}
      BY <1>3, <1>4 DEF Inside
    <2>4. QED BY <1>3, <2>1, <2>2, <2>3 DEF LastOK
  <1>7. FreshOK'
    <2>1. since \in [Waiters -> SinceType]
      BY DEF Inv, Types
    <2>2. \A u \in Waiters : /\ since'[u].signals = since[u].signals
                             /\ since'[u].wakes = since[u].wakes
                             /\ since'[u].broadcast = since[u].broadcast
      BY <1>1, <2>1 DEF SinceType
    <2>3. QED BY <1>3, <1>4, <2>2 DEF Small, FreshOK
  <1>8. CallOK'
    BY <1>1, CallKeeps DEF Small
  <1>9. QED BY <1>5, <1>6, <1>7, <1>8 DEF Small

(* A call counts for those who are blocked.                                *)
LEMMA BeginSince ==
  ASSUME Types, QueuesOK, NEW s \in Signalers, NEW kind \in {"signal", "broadcast"}, Begin(s, kind)
  PROVE  \A u \in Waiters :
           /\ since'[u].signals = IF Blocked(u) /\ kind = "signal" THEN since[u].signals + 1
                                                                   ELSE since[u].signals
           /\ since'[u].wakes = since[u].wakes
           /\ since'[u].broadcast <=> since[u].broadcast \/ (Blocked(u) /\ kind = "broadcast")
           /\ since[u].signals \in Nat /\ since[u].wakes \in Nat
  <1>1. since' = [w \in Waiters |->
           [since[w] EXCEPT !.roused = @ \/ HasTicket(w),
                            !.signals = IF Blocked(w) /\ kind = "signal" THEN @ + 1 ELSE @,
                            !.broadcast = @ \/ (Blocked(w) /\ kind = "broadcast")]]
    BY BeginDoes
  <1>2. \A u \in Waiters : since[u] \in SinceType
    BY DEF Types
  <1>3. QED BY <1>1, <1>2 DEF SinceType

(* and a call is counted for blocked threads only.                         *)
LEMMA BeginSmall ==
  ASSUME Inv, Small, NEW s \in Signalers, NEW kind \in {"signal", "broadcast"}, Begin(s, kind)
  PROVE  Small'
  <1>1. s \in Threads /\ s \notin Waiters /\ Others(s)
    BY BeginDoes, CondAssumption DEF Threads, Inv, Base
  <1>2. depth' = depth /\ suspended' = suspended
    BY DEF Begin, mutexVars
  <1>3. \A u \in Waiters :
               /\ pc'[u] \in Inside <=> pc[u] \in Inside
               /\ pc'[u] \in {"register", "release"} <=> pc[u] \in {"register", "release"}
               /\ pc'[u] \in {"out"} \cup Inside <=> pc[u] \in {"out"} \cup Inside
               /\ HasTicket(u)' <=> HasTicket(u)
               /\ my'[u].position = my[u].position
    BY <1>1, OtherSmall
  <1>4. MutexOK'
    BY <1>2, <1>3 DEF Small, MutexOK
  <1>5. LastOK'
    BY <1>3 DEF Small, LastOK
  <1>6. FreshOK'
    <2>1. \A u \in Waiters : pc[u] \in {"out"} \cup Inside => ~Blocked(u)
      BY DEF Blocked, Inside
    <2>2. QED BY <1>3, <2>1, BeginSince DEF Inv, Small, FreshOK
  <1>7. CallAt(s)'
    <2>1. CallAt(s)
      BY DEF Small, CallOK
    <2>2. \/ pc'[s] = "out" /\ my' = my /\ pc[s] = "out"
          \/ pc'[s] = "lock" /\ my'[s] = [Idle EXCEPT !.call = kind]
      BY BeginDoes DEF Inv
    <2>3. ~[Idle EXCEPT !.call = kind].wake
      BY IdleFacts
    <2>4. QED BY <2>1, <2>2, <2>3 DEF CallAt
  <1>8. CallOK'
    BY <1>1, <1>7, CallKeeps DEF Small
  <1>9. QED BY <1>4, <1>5, <1>6, <1>8 DEF Small

(* Every step keeps the small parts: one step of the proof per action.     *)
LEMMA SmallStep ==
  ASSUME Inv, Small, Next
  PROVE  Small'
  <1>1. ASSUME NEW w \in Waiters, LockMutex(w) PROVE Small'
    BY <1>1, MutexSmall
  <1>2. ASSUME NEW w \in Waiters, UnlockMutex(w) PROVE Small'
    BY <1>2, MutexSmall
  <1>3. ASSUME NEW w \in Waiters, TakeTicket(w) PROVE Small'
    BY <1>3, TicketSmall
  <1>4. ASSUME NEW w \in Waiters, Register(w) PROVE Small'
    <2>1. w \in Threads /\ w \notin Signalers /\ Base(w)
      BY <1>4, RegisterDoes, CondAssumption DEF Threads, Inv
    <2>2. UNCHANGED mutexVars /\ since' = since
      BY <1>4 DEF Register, history
    <2>3. SmallAt(w)
      BY <1>4, <2>1, RegisterDoes DEF Inv, SmallAt, HasTicket, Blocked, Inside
    <2>4. QED BY <2>1, <2>2, <2>3, SmallKeeps DEF Base
  <1>5. ASSUME NEW w \in Waiters, ReleaseMutex(w) PROVE Small'
    BY <1>5, MutexSmall
  <1>6. ASSUME NEW w \in Waiters, LoadSignals(w) PROVE Small'
    <2>1. w \in Threads /\ w \notin Signalers /\ Base(w)
      BY <1>6, LoadSignalsDoes, CondAssumption DEF Threads, Inv
    <2>2. UNCHANGED mutexVars /\ since' = since
      BY <1>6 DEF LoadSignals, history
    <2>3. my'[w].position = my[w].position
      BY <1>6, <2>1, LoadSignalsDoes, NumberFacts DEF Inv, LocalType
    <2>4. SmallAt(w)
      BY <1>6, <2>1, <2>3, LoadSignalsDoes DEF Inv, SmallAt, HasTicket, Blocked, Inside
    <2>5. QED BY <2>1, <2>2, <2>4, SmallKeeps DEF Base
  <1>7. ASSUME NEW w \in Waiters, Decide(w) PROVE Small'
    <2>1. w \in Threads /\ w \notin Signalers /\ Base(w) /\ Blocked(w)
      BY <1>7, DecideDoes, CondAssumption DEF Threads, Inv, Blocked
    <2>2. UNCHANGED mutexVars
      BY <1>7 DEF Decide
    <2>3. SmallAt(w)
      BY <1>7, <2>1, DecideDoes DEF Inv, SmallAt, HasTicket, Blocked, Inside
    <2>4. CASE UNCHANGED since
      BY <2>1, <2>2, <2>3, <2>4, SmallKeeps DEF Base
    <2>5. CASE pc'[w] = "confirm" /\ Leaves(w)
      BY <2>1, <2>2, <2>3, <2>5, LeavingSmall DEF Base
    <2>6. QED BY <1>7, <2>4, <2>5, DecideDoes DEF Inv
  <1>8. ASSUME NEW w \in Waiters, TakeSignal(w) PROVE Small'
    <2>1. w \in Threads /\ w \notin Signalers /\ Base(w) /\ Blocked(w)
      BY <1>8, TakeSignalDoes, CondAssumption DEF Threads, Inv, Blocked
    <2>2. UNCHANGED mutexVars
      BY <1>8 DEF TakeSignal
    <2>3. SmallAt(w)
      BY <1>8, <2>1, TakeSignalDoes DEF Inv, SmallAt, HasTicket, Blocked, Inside
    <2>4. CASE UNCHANGED since
      BY <2>1, <2>2, <2>3, <2>4, SmallKeeps DEF Base
    <2>5. CASE pc'[w] = "confirm" /\ Leaves(w)
      BY <2>1, <2>2, <2>3, <2>5, LeavingSmall DEF Base
    <2>6. QED BY <1>8, <2>4, <2>5, TakeSignalDoes DEF Inv
  <1>9. ASSUME NEW w \in Waiters, ParkWaiter(w) PROVE Small'
    <2>1. w \in Threads /\ w \notin Signalers /\ Base(w)
      BY <1>9, ParkWaiterDoes, CondAssumption DEF Threads, Inv
    <2>2. UNCHANGED mutexVars /\ since' = since
      BY <1>9 DEF ParkWaiter, history
    <2>3. SmallAt(w)
      BY <1>9, <2>1, ParkWaiterDoes DEF Inv, SmallAt, HasTicket, Blocked, Inside
    <2>4. QED BY <2>1, <2>2, <2>3, SmallKeeps DEF Base
  <1>10. ASSUME NEW w \in Waiters, Confirm(w) PROVE Small'
    <2>1. w \in Threads /\ w \notin Signalers /\ Base(w)
      BY <1>10, ConfirmDoes, CondAssumption DEF Threads, Inv
    <2>2. UNCHANGED mutexVars /\ since' = since
      BY <1>10 DEF Confirm, history
    <2>3. SmallAt(w)
      BY <1>10, <2>1, ConfirmDoes DEF Inv, SmallAt, HasTicket, Blocked, Inside
    <2>4. QED BY <2>1, <2>2, <2>3, SmallKeeps DEF Base
  <1>11. ASSUME NEW w \in Waiters, WakeDestroyer(w) PROVE Small'
    <2>1. w \in Threads /\ w \notin Signalers /\ Base(w)
      BY <1>11, WakeDestroyerDoes, CondAssumption DEF Threads, Inv
    <2>2. UNCHANGED mutexVars /\ since' = since
      BY <1>11 DEF WakeDestroyer, history
    <2>3. SmallAt(w)
      BY <1>11, <2>1, WakeDestroyerDoes DEF Inv, SmallAt, HasTicket, Blocked, Inside
    <2>4. QED BY <2>1, <2>2, <2>3, SmallKeeps DEF Base
  <1>12. ASSUME NEW w \in Waiters, ReacquireMutex(w) PROVE Small'
    BY <1>12, MutexSmall
  <1>13. ASSUME NEW w \in Waiters, Interrupted(w) PROVE Small'
    <2>1. w \in Threads /\ w \notin Signalers /\ Base(w)
      BY <1>13, InterruptWaiterDoes, CondAssumption DEF Threads, Inv
    <2>2. UNCHANGED mutexVars /\ since' = since
      BY <1>13 DEF Interrupted, history
    <2>3. SmallAt(w)
      BY <1>13, <2>1, InterruptWaiterDoes DEF Inv, SmallAt, HasTicket, Blocked, Inside
    <2>4. QED BY <2>1, <2>2, <2>3, SmallKeeps DEF Base
  <1>14. ASSUME NEW s \in Signalers, NEW k \in Kinds, Begin(s, k) PROVE Small'
    BY <1>14, BeginSmall, CondAssumption
  <1>15. ASSUME NEW s \in Signalers, LockWord(s) PROVE Small'
    <2>1. /\ s \in Threads /\ s \notin Waiters /\ Base(s) /\ CallAt(s) /\ LocalAt(s)
          /\ my[s] \in LocalType
      BY <1>15, LockWordDoes, CondAssumption DEF Threads, Inv, Small, CallOK, LocalsOK, Types
    <2>2. UNCHANGED mutexVars /\ since' = since
      BY <1>15 DEF LockWord, history
    <2>3. SmallAt(s)
      BY <1>15, <2>1, LockWordDoes, IdleFacts, RecordFacts
         DEF Inv, SmallAt, CallAt, LocalAt, LockedPlaces
    <2>4. QED BY <2>1, <2>2, <2>3, SmallKeeps DEF Base
  <1>16. ASSUME NEW s \in Signalers, LockSlow(s) PROVE Small'
    <2>1. /\ s \in Threads /\ s \notin Waiters /\ Base(s) /\ CallAt(s) /\ LocalAt(s)
          /\ my[s] \in LocalType
      BY <1>16, LockSlowDoes, CondAssumption DEF Threads, Inv, Small, CallOK, LocalsOK, Types
    <2>2. UNCHANGED mutexVars /\ since' = since
      BY <1>16 DEF LockSlow, history
    <2>3. my'[s].wake = my[s].wake /\ my'[s].call = my[s].call
      BY <1>16, SameCall
    <2>4. SmallAt(s)
      BY <1>16, <2>1, <2>3, LockSlowDoes, IdleFacts, RecordFacts
         DEF Inv, SmallAt, CallAt, LocalAt, LockedPlaces
    <2>5. QED BY <2>1, <2>2, <2>4, SmallKeeps DEF Base
  <1>17. ASSUME NEW s \in Signalers, LockPark(s) PROVE Small'
    <2>1. /\ s \in Threads /\ s \notin Waiters /\ Base(s) /\ CallAt(s) /\ LocalAt(s)
          /\ my[s] \in LocalType
      BY <1>17, LockParkDoes, CondAssumption DEF Threads, Inv, Small, CallOK, LocalsOK, Types
    <2>2. UNCHANGED mutexVars /\ since' = since
      BY <1>17 DEF LockPark, history
    <2>3. SmallAt(s)
      BY <1>17, <2>1, LockParkDoes, IdleFacts, RecordFacts
         DEF Inv, SmallAt, CallAt, LocalAt, LockedPlaces
    <2>4. QED BY <2>1, <2>2, <2>3, SmallKeeps DEF Base
  <1>18. ASSUME NEW s \in Signalers, Observe(s) PROVE Small'
    <2>1. s \in Threads /\ s \notin Waiters /\ Base(s) /\ CallAt(s) /\ pc[s] = "observe"
          /\ \/ pc'[s] \in {"post", "unlock", "close"}
             \/ pc'[s] = "postRest" /\ my[s].call # "signal"
      BY <1>18, ObserveDoes, CondAssumption DEF Threads, Inv, Small, CallOK
    <2>2. UNCHANGED mutexVars /\ since' = since
      BY <1>18 DEF Observe, history
    <2>3. my'[s].wake = my[s].wake /\ my'[s].call = my[s].call
      BY <1>18, SameCall
    <2>4. my[s].call \in {"signal", "broadcast"}
      BY <2>1, NumberFacts DEF LocalType, Inv, LocalsOK, LocalAt, LockedPlaces
    <2>5. SmallAt(s)
      BY <2>1, <2>3, <2>4 DEF SmallAt, CallAt
    <2>6. QED BY <2>1, <2>2, <2>5, SmallKeeps DEF Base
  <1>19. ASSUME NEW s \in Signalers, PostRest(s) PROVE Small'
    <2>1. /\ s \in Threads /\ s \notin Waiters /\ Base(s) /\ CallAt(s) /\ LocalAt(s)
          /\ my[s] \in LocalType
      BY <1>19, PostRestDoes, CondAssumption DEF Threads, Inv, Small, CallOK, LocalsOK, Types
    <2>2. UNCHANGED mutexVars /\ since' = since
      BY <1>19 DEF PostRest, history
    <2>3. SmallAt(s)
      BY <1>19, <2>1, PostRestDoes, IdleFacts, RecordFacts
         DEF Inv, SmallAt, CallAt, LocalAt, LockedPlaces
    <2>4. QED BY <2>1, <2>2, <2>3, SmallKeeps DEF Base
  <1>20. ASSUME NEW s \in Signalers, WakeRest(s) PROVE Small'
    <2>1. /\ s \in Threads /\ s \notin Waiters /\ Base(s) /\ CallAt(s) /\ LocalAt(s)
          /\ my[s] \in LocalType
      BY <1>20, WakeRestDoes, CondAssumption DEF Threads, Inv, Small, CallOK, LocalsOK, Types
    <2>2. UNCHANGED mutexVars /\ since' = since
      BY <1>20 DEF WakeRest, history
    <2>3. SmallAt(s)
      BY <1>20, <2>1, WakeRestDoes, IdleFacts, RecordFacts
         DEF Inv, SmallAt, CallAt, LocalAt, LockedPlaces
    <2>4. QED BY <2>1, <2>2, <2>3, SmallKeeps DEF Base
  <1>21. ASSUME NEW s \in Signalers, CloseGroup(s) PROVE Small'
    <2>1. /\ s \in Threads /\ s \notin Waiters /\ Base(s) /\ CallAt(s) /\ LocalAt(s)
          /\ my[s] \in LocalType
      BY <1>21, CloseGroupDoes, CondAssumption DEF Threads, Inv, Small, CallOK, LocalsOK, Types
    <2>2. UNCHANGED mutexVars /\ since' = since
      BY <1>21 DEF CloseGroup, history
    <2>3. SmallAt(s)
      BY <1>21, <2>1, CloseGroupDoes, IdleFacts, RecordFacts
         DEF Inv, SmallAt, CallAt, LocalAt, LockedPlaces
    <2>4. QED BY <2>1, <2>2, <2>3, SmallKeeps DEF Base
  <1>22. ASSUME NEW s \in Signalers, FlipSlot(s) PROVE Small'
    <2>1. /\ s \in Threads /\ s \notin Waiters /\ Base(s) /\ CallAt(s) /\ pc[s] = "flip"
          /\ pc'[s] = "open"
      BY <1>22, FlipSlotDoes, CondAssumption DEF Threads, Inv, Small, CallOK
    <2>2. UNCHANGED mutexVars /\ since' = since
      BY <1>22 DEF FlipSlot, history
    <2>3. my'[s].wake = my[s].wake
      BY <1>22, SameCall
    <2>4. SmallAt(s)
      BY <2>1, <2>3 DEF SmallAt, CallAt
    <2>5. QED BY <2>1, <2>2, <2>4, SmallKeeps DEF Base
  <1>23. ASSUME NEW s \in Signalers, OpenGroup(s) PROVE Small'
    <2>1. /\ s \in Threads /\ s \notin Waiters /\ Base(s) /\ CallAt(s) /\ LocalAt(s)
          /\ my[s] \in LocalType
      BY <1>23, OpenGroupDoes, CondAssumption DEF Threads, Inv, Small, CallOK, LocalsOK, Types
    <2>2. UNCHANGED mutexVars /\ since' = since
      BY <1>23 DEF OpenGroup, history
    <2>3. SmallAt(s)
      BY <1>23, <2>1, OpenGroupDoes, IdleFacts, RecordFacts
         DEF Inv, SmallAt, CallAt, LocalAt, LockedPlaces
    <2>4. QED BY <2>1, <2>2, <2>3, SmallKeeps DEF Base
  <1>24. ASSUME NEW s \in Signalers, Post(s) PROVE Small'
    <2>1. /\ s \in Threads /\ s \notin Waiters /\ Base(s) /\ CallAt(s) /\ LocalAt(s)
          /\ my[s] \in LocalType
      BY <1>24, PostDoes, CondAssumption DEF Threads, Inv, Small, CallOK, LocalsOK, Types
    <2>2. UNCHANGED mutexVars /\ since' = since
      BY <1>24 DEF Post, history
    <2>3. SmallAt(s)
      BY <1>24, <2>1, PostDoes, IdleFacts, RecordFacts
         DEF Inv, SmallAt, CallAt, LocalAt, LockedPlaces
    <2>4. QED BY <2>1, <2>2, <2>3, SmallKeeps DEF Base
  <1>25. ASSUME NEW s \in Signalers, Unlock(s) PROVE Small'
    <2>1. /\ s \in Threads /\ s \notin Waiters /\ Base(s) /\ CallAt(s) /\ LocalAt(s)
          /\ my[s] \in LocalType
      BY <1>25, UnlockDoes, CondAssumption DEF Threads, Inv, Small, CallOK, LocalsOK, Types
    <2>2. UNCHANGED mutexVars /\ since' = since
      BY <1>25 DEF Unlock, history
    <2>3. SmallAt(s)
      BY <1>25, <2>1, UnlockDoes, IdleFacts, RecordFacts
         DEF Inv, SmallAt, CallAt, LocalAt, LockedPlaces
    <2>4. QED BY <2>1, <2>2, <2>3, SmallKeeps DEF Base
  <1>26. ASSUME NEW s \in Signalers, WakeLocker(s) PROVE Small'
    <2>1. /\ s \in Threads /\ s \notin Waiters /\ Base(s) /\ CallAt(s) /\ LocalAt(s)
          /\ my[s] \in LocalType
      BY <1>26, WakeLockerDoes, CondAssumption DEF Threads, Inv, Small, CallOK, LocalsOK, Types
    <2>2. UNCHANGED mutexVars /\ since' = since
      BY <1>26 DEF WakeLocker, history
    <2>3. SmallAt(s)
      BY <1>26, <2>1, WakeLockerDoes, IdleFacts, RecordFacts
         DEF Inv, SmallAt, CallAt, LocalAt, LockedPlaces
    <2>4. QED BY <2>1, <2>2, <2>3, SmallKeeps DEF Base
  <1>27. ASSUME NEW s \in Signalers, WakeWaiters(s) PROVE Small'
    <2>1. /\ s \in Threads /\ s \notin Waiters /\ Base(s) /\ CallAt(s) /\ LocalAt(s)
          /\ my[s] \in LocalType
      BY <1>27, WakeWaitersDoes, CondAssumption DEF Threads, Inv, Small, CallOK, LocalsOK, Types
    <2>2. UNCHANGED mutexVars /\ since' = since
      BY <1>27 DEF WakeWaiters, history
    <2>3. SmallAt(s)
      BY <1>27, <2>1, WakeWaitersDoes, IdleFacts, RecordFacts
         DEF Inv, SmallAt, CallAt, LocalAt, LockedPlaces
    <2>4. QED BY <2>1, <2>2, <2>3, SmallKeeps DEF Base
  <1>28. ASSUME NEW s \in Signalers, BeginDestroy(s) PROVE Small'
    <2>1. /\ s \in Threads /\ s \notin Waiters /\ Base(s) /\ CallAt(s) /\ LocalAt(s)
          /\ my[s] \in LocalType
      BY <1>28, BeginDestroyDoes, CondAssumption DEF Threads, Inv, Small, CallOK, LocalsOK, Types
    <2>2. UNCHANGED mutexVars /\ since' = since
      BY <1>28 DEF BeginDestroy, history
    <2>3. my'[s].wake = my[s].wake /\ my'[s].call = my[s].call
      BY <1>28, SameCall
    <2>4. SmallAt(s)
      BY <1>28, <2>1, <2>3, BeginDestroyDoes, IdleFacts, RecordFacts
         DEF Inv, SmallAt, CallAt, LocalAt, LockedPlaces
    <2>5. QED BY <2>1, <2>2, <2>4, SmallKeeps DEF Base
  <1>29. ASSUME NEW s \in Signalers, Destroy(s) PROVE Small'
    <2>1. s \in Threads /\ s \notin Waiters /\ Base(s)
      BY <1>29, DestroyDoes, CondAssumption DEF Threads, Inv
    <2>2. UNCHANGED mutexVars /\ since' = since
      BY <1>29 DEF Destroy, history
    <2>3. SmallAt(s)
      BY <1>29, <2>1, DestroySmall DEF SmallAt
    <2>4. QED BY <2>1, <2>2, <2>3, SmallKeeps DEF Base
  <1>30. ASSUME NEW s \in Signalers, ParkDestroyer(s) PROVE Small'
    <2>1. /\ s \in Threads /\ s \notin Waiters /\ Base(s) /\ CallAt(s) /\ LocalAt(s)
          /\ my[s] \in LocalType
      BY <1>30, ParkDestroyerDoes, CondAssumption DEF Threads, Inv, Small, CallOK, LocalsOK, Types
    <2>2. UNCHANGED mutexVars /\ since' = since
      BY <1>30 DEF ParkDestroyer, history
    <2>3. SmallAt(s)
      BY <1>30, <2>1, ParkDestroyerDoes, IdleFacts, RecordFacts
         DEF Inv, SmallAt, CallAt, LocalAt, LockedPlaces
    <2>4. QED BY <2>1, <2>2, <2>3, SmallKeeps DEF Base
  <1>31. ASSUME NEW s \in Signalers, Interrupted(s) PROVE Small'
    <2>1. /\ s \in Threads /\ s \notin Waiters /\ Base(s) /\ CallAt(s) /\ LocalAt(s)
          /\ my[s] \in LocalType
      BY <1>31, InterruptSignalerDoes, CondAssumption
         DEF Threads, Inv, Small, CallOK, LocalsOK, Types
    <2>2. UNCHANGED mutexVars /\ since' = since
      BY <1>31 DEF Interrupted, history
    <2>3. SmallAt(s)
      BY <1>31, <2>1, InterruptSignalerDoes, IdleFacts, RecordFacts
         DEF Inv, SmallAt, CallAt, LocalAt, LockedPlaces
    <2>4. QED BY <2>1, <2>2, <2>3, SmallKeeps DEF Base
  <1>32. QED
    BY <1>1, <1>2, <1>3, <1>4, <1>5, <1>6, <1>7, <1>8, <1>9, <1>10, <1>11, <1>12, <1>13, <1>14,
       <1>15, <1>16, <1>17, <1>18, <1>19, <1>20, <1>21, <1>22, <1>23, <1>24, <1>25, <1>26, <1>27,
       <1>28, <1>29, <1>30, <1>31
       DEF Next, WaitStep, SignalStep, DestroyStep

-----------------------------------------------------------------------------
(* Steps that close no group and post no signal away leave the laggards.   *)
LaggardStays(w) ==
  /\ HasTicket(w)' => \/ /\ HasTicket(w)
                         /\ my'[w].slot = my[w].slot /\ my'[w].position = my[w].position
                      \/ my'[w].position >= start
  /\ pc'[w] \in {"take", "park"} =>
       \/ /\ pc'[w] = pc[w] /\ my'[w].seen = my[w].seen
          /\ my'[w].slot = my[w].slot /\ my'[w].position = my[w].position
       \/ my'[w].position >= start /\ (pc'[w] = "park" => my'[w].seen <= start)

(* One waiter: what it read and where its ticket is agree with the bounds  *)
(* as before,                                                              *)
LEMMA LaggardKeeps ==
  ASSUME NEW w \in Waiters, LaggardStays(w), NEW b0 \in Nat, NEW b \in Nat, b0 <= b, b <= start,
         start \in Nat, start' = start, LastSlot' = LastSlot, Reused' = Reused,
         Switching' => Switching, LaggardAt(w, b0, b),
         my[w].position \in Nat, my'[w].position \in Nat, my'[w].seen \in Nat
  PROVE  LaggardAt(w, b0, b)'
  <1>1. HasTicket(w)' =>
       /\ b <= my'[w].position /\ my'[w].position < start' => my'[w].slot = LastSlot'
       /\ Switching' /\ b0 <= my'[w].position /\ my'[w].position < b => my'[w].slot = Reused'
    BY DEF LaggardStays, LaggardAt
  <1>2. pc'[w] = "take" =>
       /\ my'[w].slot = LastSlot' /\ my'[w].position < b => my'[w].seen < b
       /\ Switching' /\ my'[w].slot = Reused' /\ my'[w].position < b0 => my'[w].seen < b0
    BY DEF LaggardStays, LaggardAt
  <1>3. pc'[w] = "park" =>
       /\ my'[w].seen <= my'[w].position /\ my'[w].seen <= start'
       /\ b <= my'[w].position /\ my'[w].position < start' => my'[w].seen <= b
       /\ Switching' /\ b0 <= my'[w].position /\ my'[w].position < b => my'[w].seen <= b0
    BY DEF LaggardStays, LaggardAt
  <1>4. QED BY <1>1, <1>2, <1>3 DEF LaggardAt

(* so the bounds of the last closed groups hold after a step that takes no *)
(* signal from their slots,                                                *)
LEMMA LaggardsMove ==
  ASSUME Types, Types', Laggards, start' = start, LastSlot' = LastSlot, Reused' = Reused,
         Switching' => Switching, signals'[LastSlot] >= signals[LastSlot],
         Switching' => signals'[Reused] >= signals[Reused],
         \A w \in Waiters : LaggardStays(w)
  PROVE  Laggards'
  <1>1. PICK b0 \in 0 .. MaxTickets, b \in 0 .. MaxTickets : LaggardsAt(b0, b)
    BY DEF Laggards
  <1>2. /\ b0 \in Nat /\ b \in Nat /\ b0 <= b /\ b <= start /\ start \in Nat
        /\ signals[LastSlot] >= b + Cardinality(Within(b, start))
        /\ Switching => signals[Reused] >= b0 + Cardinality(Within(b0, b))
    BY <1>1, NumberFacts DEF LaggardsAt, BasesAt
  <1>4. LastSlot \in Slots /\ Reused \in Slots
    BY SlotFacts DEF LastSlot, Reused, Other
  <1>5. Within(b, start)' \subseteq Within(b, start) /\ Within(b0, b)' \subseteq Within(b0, b)
    <2>1. ASSUME NEW w \in Waiters, HasTicket(w)', my'[w].position < start
          PROVE  HasTicket(w) /\ my'[w].position = my[w].position
      <3>1. my'[w].position \in Nat
        BY DEF Types, LocalType, Threads
      <3>2. QED BY <1>2, <2>1, <3>1 DEF LaggardStays
    <2>2. ASSUME NEW w \in Waiters PROVE my'[w].position \in Nat
      BY DEF Types, LocalType, Threads
    <2>3. QED BY <1>2, <2>1, <2>2 DEF Within
  <1>6. /\ Cardinality(Within(b, start)') <= Cardinality(Within(b, start))
        /\ Cardinality(Within(b0, b)') <= Cardinality(Within(b0, b))
        /\ Cardinality(Within(b, start)') \in Nat /\ Cardinality(Within(b0, b)') \in Nat
        /\ Cardinality(Within(b, start)) \in Nat /\ Cardinality(Within(b0, b)) \in Nat
    <2>1. Within(b, start) \subseteq Waiters /\ Within(b0, b) \subseteq Waiters
      BY DEF Within
    <2>2. QED BY <1>5, <2>1, FewerCount, SetsFinite
  <1>7. BasesAt(b0, b)'
    <2>1. /\ signals[LastSlot] \in Nat /\ signals[Reused] \in Nat
          /\ signals'[LastSlot] \in Nat /\ signals'[Reused] \in Nat
      BY <1>4 DEF Types
    <2>2. QED BY <1>2, <1>4, <1>6, <2>1 DEF BasesAt
  <1>8. ASSUME NEW w \in Waiters PROVE LaggardAt(w, b0, b)'
    <2>1. LaggardAt(w, b0, b) /\ LaggardStays(w)
      BY <1>1 DEF LaggardsAt
    <2>2. my[w].position \in Nat /\ my'[w].position \in Nat /\ my'[w].seen \in Nat
      BY DEF Types, LocalType, Threads
    <2>3. QED BY <1>2, <2>1, <2>2, LaggardKeeps
  <1>9. QED BY <1>7, <1>8 DEF LaggardsAt, Laggards

(* in particular after one that leaves every signal where it is.           *)
LEMMA LaggardsKeep ==
  ASSUME Types, Types', Laggards, SwitchStays, start' = start, sequence'.slot = sequence.slot,
         \A slot \in Slots : signals'[slot] >= signals[slot],
         \A w \in Waiters : LaggardStays(w)
  PROVE  Laggards'
  <1>1. GroupOne' = GroupOne /\ (Switching' <=> Switching) /\ (Flipping' <=> Flipping)
    BY SwitchSame DEF GroupOne
  <1>2. LastSlot' = LastSlot /\ Reused' = Reused /\ LastSlot \in Slots /\ Reused \in Slots
    <2>1. Reused' = Reused
      BY <1>1 DEF Reused, Other
    <2>2. QED BY <2>1, SlotFacts DEF LastSlot, Reused, Other
  <1>3. QED BY <1>1, <1>2, LaggardsMove

-----------------------------------------------------------------------------
(* The order of a queue is kept when nobody in it moves, when its head or  *)
(* one thread goes, and when a thread of an open group joins at the end.   *)
LEMMA OrderMoves ==
  ASSUME NEW q \in Seq(Threads), NEW m, NEW k, NEW first, ClosedFirst(q, m, first),
         \A i \in 1 .. Len(q) : k[q[i]].position = m[q[i]].position
  PROVE  ClosedFirst(q, k, first)
  BY DEF ClosedFirst

(* An order in which closed groups come first stays one when the first     *)
(* threads are woken,                                                      *)
LEMMA OrderDrop ==
  ASSUME NEW q \in Seq(Threads), NEW m, NEW first, ClosedFirst(q, m, first), NEW n \in 0 .. Len(q)
  PROVE  ClosedFirst(SubSeq(q, n + 1, Len(q)), m, first)
  <1> DEFINE r == SubSeq(q, n + 1, Len(q))
  <1>1. /\ Len(q) \in Nat /\ Len(r) = Len(q) - n /\ \A j \in 1 .. Len(q) - n : r[j] = q[j + n]
    BY DropFacts
  <1> HIDE DEF r
  <1>2. ASSUME NEW i \in 1 .. Len(r), NEW j \in 1 .. Len(r), i < j, m[r[j]].position < first
        PROVE  m[r[i]].position < first
    <2>1. i + n \in 1 .. Len(q) /\ j + n \in 1 .. Len(q) /\ i + n < j + n
      BY <1>1, <1>2
    <2>2. r[i] = q[i + n] /\ r[j] = q[j + n]
      BY <1>1, <1>2
    <2>3. QED BY <1>2, <2>1, <2>2 DEF ClosedFirst
  <1>3. ClosedFirst(r, m, first)
    BY <1>2 DEF ClosedFirst
  <1>4. QED BY <1>3 DEF r

(* when one thread leaves by a signal handler,                             *)
LEMMA OrderRemove ==
  ASSUME NEW q \in Seq(Threads), NEW m, NEW first, ClosedFirst(q, m, first), NEW n \in 1 .. Len(q)
  PROVE  ClosedFirst(RemoveAt(q, n), m, first)
  <1> DEFINE r == RemoveAt(q, n)
  <1>1. /\ Len(q) \in Nat /\ Len(r) = Len(q) - 1
        /\ \A j \in 1 .. Len(q) - 1 : r[j] = IF j < n THEN q[j] ELSE q[j + 1]
    BY RemoveFacts
  <1> HIDE DEF r
  <1>2. ASSUME NEW i \in 1 .. Len(r), NEW j \in 1 .. Len(r), i < j, m[r[j]].position < first
        PROVE  m[r[i]].position < first
    <2>1. PICK x \in 1 .. Len(q) : r[i] = q[x] /\ x = IF i < n THEN i ELSE i + 1
      BY <1>1, <1>2
    <2>2. PICK y \in 1 .. Len(q) : r[j] = q[y] /\ y = IF j < n THEN j ELSE j + 1
      BY <1>1, <1>2
    <2>3. x < y
      BY <1>1, <1>2, <2>1, <2>2
    <2>4. QED BY <1>2, <2>1, <2>2, <2>3 DEF ClosedFirst
  <1>3. ClosedFirst(r, m, first)
    BY <1>2 DEF ClosedFirst
  <1>4. QED BY <1>3 DEF r

(* and when a thread of an open group parks last.                          *)
LEMMA OrderAppend ==
  ASSUME NEW q \in Seq(Threads), NEW m, NEW first \in Nat, ClosedFirst(q, m, first),
         NEW t \in Threads,
         m[t].position \in Nat, m[t].position >= first
  PROVE  ClosedFirst(InsertAt(q, Len(q) + 1, t), m, first)
  <1> DEFINE r == InsertAt(q, Len(q) + 1, t)
  <1>1. /\ Len(q) \in Nat /\ Len(r) = Len(q) + 1
        /\ \A j \in 1 .. Len(q) + 1 :
             r[j] = IF j < Len(q) + 1 THEN q[j] ELSE IF j = Len(q) + 1 THEN t ELSE q[j - 1]
    <2>1. Len(q) \in Nat /\ Len(q) + 1 \in 1 .. Len(q) + 1
      BY LenProperties
    <2>2. QED BY <2>1, InsertFacts
  <1> HIDE DEF r
  <1>2. ASSUME NEW i \in 1 .. Len(r), NEW j \in 1 .. Len(r), i < j, m[r[j]].position < first
        PROVE  m[r[i]].position < first
    <2>1. CASE j = Len(q) + 1
      BY <1>1, <1>2, <2>1
    <2>2. CASE j < Len(q) + 1
      <3>1. i \in 1 .. Len(q) /\ j \in 1 .. Len(q) /\ r[i] = q[i] /\ r[j] = q[j]
        BY <1>1, <1>2, <2>2
      <3>2. QED BY <1>2, <3>1 DEF ClosedFirst
    <2>3. QED BY <1>1, <2>1, <2>2
  <1>3. ClosedFirst(r, m, first)
    BY <1>2 DEF ClosedFirst
  <1>4. QED BY <1>3 DEF r

(* Who is in a slot's queue keeps his ticket.                              *)
TicketsStay(t) == t \in Waiters => (pc[t] = "parked" => my'[t].position = my[t].position)

(* The parked threads keep their tickets,                                  *)
LEMMA QueuedKeep ==
  ASSUME Types, QueuesOK, NEW t \in Threads, Others(t), TicketsStay(t), LocalsOK, NEW slot \in Slots
  PROVE  /\ queue[SignalsAt(slot)] \in Seq(Threads)
         /\ \A i \in 1 .. Len(queue[SignalsAt(slot)]) :
              my'[queue[SignalsAt(slot)][i]].position = my[queue[SignalsAt(slot)][i]].position
  <1> DEFINE q == queue[SignalsAt(slot)]
  <1>1. SignalsAt(slot) \in Addresses /\ SignalsAt(slot) \notin {"lock", "references"}
    BY DEF SignalsAt, Addresses
  <1>2. q \in Seq(Threads)
    BY <1>1 DEF Types
  <1>3. ASSUME NEW i \in 1 .. Len(q) PROVE my'[q[i]].position = my[q[i]].position
    <2>1. q[i] \in Threads /\ Contains(q, q[i])
      BY <1>2 DEF Contains
    <2>2. pc[q[i]] = "parked" /\ Where(q[i]) = SignalsAt(slot)
      BY <1>1, <2>1 DEF QueuesOK
    <2>3. q[i] \in Waiters
      BY <1>1, <2>1, <2>2 DEF Where, Threads
    <2>4. QED BY <2>1, <2>2, <2>3 DEF Others, TicketsStay
  <1>4. QED BY <1>2, <1>3

(* so a step keeps the order that does so for the one queue it changes.    *)
LEMMA OrderKeeps ==
  ASSUME Types, QueuesOK, LocalsOK, OrderOK, NEW t \in Threads, Others(t), TicketsStay(t),
         start' = start,
         \A slot \in Slots :
           queue'[SignalsAt(slot)] = queue[SignalsAt(slot)]
             \/ ClosedFirst(queue'[SignalsAt(slot)], my', start)
  PROVE  OrderOK'
  <1>1. ASSUME NEW slot \in Slots PROVE ClosedFirst(queue'[SignalsAt(slot)], my', start)
    <2>1. ClosedFirst(queue[SignalsAt(slot)], my, start)
      BY DEF OrderOK
    <2>2. ClosedFirst(queue[SignalsAt(slot)], my', start)
      BY <2>1, QueuedKeep, OrderMoves
    <2>3. QED BY <2>2
  <1>2. QED BY <1>1 DEF OrderOK

-----------------------------------------------------------------------------
(* Wakes go on covering the sleepers when none is added and none is given. *)
LEMMA ServedKeeps ==
  ASSUME NEW slot \in Slots, Served(slot), ClosedParked(slot)' \subseteq ClosedParked(slot),
         Wakers(slot)' = Wakers(slot), Loud(slot)' <=> Loud(slot)
  PROVE  Served(slot)'
  <1>1. ClosedParked(slot) \subseteq Waiters
    BY DEF ClosedParked
  <1>2. Cardinality(ClosedParked(slot)') <= Cardinality(ClosedParked(slot))
    BY <1>1, FewerCount
  <1>3. Cardinality(Wakers(slot)') = Cardinality(Wakers(slot))
    OBVIOUS
  <1>4. /\ Cardinality(ClosedParked(slot)) \in Nat /\ Cardinality(Wakers(slot)) \in Nat
        /\ Cardinality(ClosedParked(slot)') \in Nat
    BY CountsAreNat, <1>1, SetsFinite
  <1>5. QED BY <1>2, <1>3, <1>4 DEF Served

(* Group one stays served when nobody falls asleep and its wakers stay.    *)
LEMMA GroupKeeps ==
  ASSUME Types, GroupServed, Switching' => Switching, Switching => Switching',
         GroupOne' = GroupOne, start' = start,
         signals'[GroupOne] = signals[GroupOne], Asleep' \subseteq Asleep, Awake \subseteq Awake',
         ClosedParked(GroupOne)' \subseteq ClosedParked(GroupOne),
         \A slot \in Slots : Wakers(slot)' = Wakers(slot) /\ (Loud(slot)' <=> Loud(slot))
  PROVE  GroupServed'
  <1>1. ClosedParked(GroupOne) \subseteq Waiters /\ Awake' \subseteq Waiters
    BY DEF ClosedParked, Awake
  <1>2. Cardinality(ClosedParked(GroupOne)') <= Cardinality(ClosedParked(GroupOne))
    BY <1>1, FewerCount
  <1>3. Cardinality(Awake) <= Cardinality(Awake')
    BY <1>1, FewerCount
  <1>4. /\ Cardinality(ClosedParked(GroupOne)) \in Nat /\ Cardinality(Wakers(GroupOne)) \in Nat
        /\ Cardinality(ClosedParked(GroupOne)') \in Nat
        /\ Cardinality(Awake) \in Nat /\ Cardinality(Awake') \in Nat
    BY CountsAreNat, <1>1, SetsFinite
  <1>5. start \in Nat /\ GroupOne \in Slots /\ signals[GroupOne] \in Nat
    BY NumberFacts, SlotFacts
  <1> DEFINE c == Cardinality(ClosedParked(GroupOne))
             d == Cardinality(ClosedParked(GroupOne)')
             a == Cardinality(Awake)
             b == Cardinality(Awake')
             n == Cardinality(Wakers(GroupOne))
  <1>6. ClosedParked(GroupOne)' = {w \in Waiters : pc'[w] = "parked" /\ my'[w].position < start'
                                                   /\ my'[w].slot = GroupOne'}
    BY DEF ClosedParked
  <1>7. Wakers(GroupOne)' = Wakers(GroupOne) /\ (Loud(GroupOne)' <=> Loud(GroupOne))
    <2>1. \A slot \in Slots : slot = GroupOne
            => Wakers(slot)' = Wakers(GroupOne) /\ (Loud(slot)' <=> Loud(GroupOne))
      OBVIOUS
    <2>2. Wakers(GroupOne)' = {s \in Signalers : my'[s].slot = GroupOne'
                                                 /\ (my'[s].wake \/ pc'[s] = "wakeRest")}
      BY DEF Wakers, Wakes
    <2>3. Wakers(GroupOne) = {s \in Signalers : my'[s].slot = GroupOne'
                                                /\ (my'[s].wake \/ pc'[s] = "wakeRest")}
      BY <1>5 DEF Wakers, Wakes
    <2>4. Loud(GroupOne)'
            <=> \E s \in Signalers : my'[s].slot = GroupOne'
              /\ (my'[s].wake \/ pc'[s] = "wakeRest") /\ my'[s].call = "broadcast"
      BY DEF Loud, Wakes
    <2>5. Loud(GroupOne)
            <=> \E s \in Signalers : my'[s].slot = GroupOne'
              /\ (my'[s].wake \/ pc'[s] = "wakeRest") /\ my'[s].call = "broadcast"
      BY <1>5 DEF Loud, Wakes
    <2>6. QED BY <2>2, <2>3, <2>4, <2>5
  <1>8. CASE ~Switching' /\ Asleep' # {}
    <2>1. ~Switching /\ Asleep # {}
      BY <1>8
    <2>2. \/ Loud(GroupOne)
          \/ c + signals[GroupOne] <= start + a + n
      BY <2>1 DEF GroupServed
    <2>3. \/ Loud(GroupOne)'
          \/ d + signals'[GroupOne'] <= start' + b + Cardinality(Wakers(GroupOne)')
      BY <2>2, <1>2, <1>3, <1>4, <1>5, <1>7
    <2>4. QED BY <2>3 DEF GroupServed
  <1>9. QED BY <1>8 DEF GroupServed

-----------------------------------------------------------------------------
(* What is owed is a number,                                               *)
LEMMA OwedIs ==
  ASSUME Types
  PROVE  Owed \in Int /\ Posted \in Int
  <1>1. start \in Nat /\ signals[GroupOne] \in Nat
    BY NumberFacts, SlotFacts
  <1>2. QED BY <1>1, CountsAreNat DEF Owed, Posted

(* the same after a step that neither posts nor takes.                     *)
LEMMA OwedSame ==
  ASSUME PostsStay, WaitersStand, SwitchStays, start' = start, signals' = signals,
         sequence'.slot = sequence.slot
  PROVE  Owed' = Owed
  <1>1. Posting' = Posting
    BY PostingSame
  <1>2. Within(0, start)' = Within(0, start)
    <2>1. Within(0, start)' = {w \in Waiters : HasTicket(w)' /\ 0 <= my'[w].position
                                               /\ my'[w].position < start}
      BY DEF Within
    <2>2. QED BY <2>1, WithinSame
  <1>3. Posted' = Posted
    BY SwitchSame DEF Posted, GroupOne
  <1>4. QED BY <1>1, <1>2, <1>3 DEF Owed

(* A waiter is sure of its wakeup as before when the groups stand still.   *)
LEMMA CertainSame ==
  ASSUME NEW w \in Waiters, GroupsStay, SwitchStays, my'[w].position = my[w].position
  PROVE  Certain(w)' <=> Certain(w)
  BY SwitchSame DEF Certain, GroupsStay, GroupOne

(* What is counted for a waiter is kept when nothing is called and nobody  *)
(* leaves.                                                                 *)
CalledStays(w) ==
  Blocked(w)' => \/ Certain(w)'
                 \/ /\ Blocked(w) /\ (Certain(w) => Certain(w)')
                    /\ since'[w].signals = since[w].signals /\ since'[w].wakes = since[w].wakes
                    /\ since'[w].broadcast = since[w].broadcast
                    /\ \A s \in Signalers : Reaches(s, w) => Reaches(s, w)'
                 \/ ~Blocked(w) /\ since'[w].signals <= since'[w].wakes /\ ~since'[w].broadcast

(* CalledOK after a step, one waiter at a time.                            *)
LEMMA CalledKeeps ==
  ASSUME Types, Types', CalledOK, Owed' >= Owed, Owed' >= 0, \A w \in Waiters : CalledStays(w)
  PROVE  CalledOK'
  <1>0. (Owed \in Int)'
    BY OwedIs, PTL
  <1>1. Owed \in Int /\ Owed' \in Int
    BY <1>0, OwedIs
  <1>2. ASSUME NEW w \in Waiters PROVE CalledAt(w)'
    <2>1. CalledAt(w) /\ CalledStays(w)
      BY DEF CalledOK
    <2>2. /\ since[w].signals \in Nat /\ since[w].wakes \in Nat
          /\ since'[w].signals \in Nat /\ since'[w].wakes \in Nat
      BY DEF Types, SinceType
    <2>3. CASE ~Blocked(w)' \/ Certain(w)'
      BY <2>3 DEF CalledAt
    <2>4. CASE Blocked(w)' /\ ~Certain(w)' /\ ~Blocked(w)
      BY <2>1, <2>2, <2>4, <1>1 DEF CalledAt, CalledStays
    <2>5. CASE Blocked(w)' /\ ~Certain(w)' /\ Blocked(w)
      <3>1. /\ ~Certain(w) /\ since'[w].signals = since[w].signals
            /\ since'[w].wakes = since[w].wakes
            /\ since'[w].broadcast = since[w].broadcast
            /\ \A s \in Signalers : Reaches(s, w) => Reaches(s, w)'
        BY <2>1, <2>5 DEF CalledStays
      <3>2. /\ since[w].signals <= since[w].wakes + Owed
            /\ since[w].broadcast => \E s \in Signalers : Reaches(s, w)
        BY <2>1, <2>5, <3>1 DEF CalledAt
      <3>3. since'[w].signals <= since'[w].wakes + Owed'
        BY <1>1, <2>2, <3>1, <3>2
      <3>4. since'[w].broadcast => \E s \in Signalers : Reaches(s, w)'
        BY <3>1, <3>2
      <3>5. QED BY <3>3, <3>4 DEF CalledAt
    <2>6. QED BY <2>3, <2>4, <2>5
  <1>3. QED BY <1>2 DEF CalledOK

-----------------------------------------------------------------------------
(* A step that touches nothing the delivery of signals depends on.         *)
QueuesStay == \A slot \in Slots : queue'[SignalsAt(slot)] = queue[SignalsAt(slot)]
(* The history of the blocked threads and the broadcasts on their way to   *)
(* them.                                                                   *)
SinceStays == \A w \in Waiters : Blocked(w) =>
  /\ since'[w].signals = since[w].signals /\ since'[w].wakes = since[w].wakes
  /\ since'[w].broadcast = since[w].broadcast
ReachesStay == \A s \in Signalers, w \in Waiters : Blocked(w) /\ Reaches(s, w) => Reaches(s, w)'
(* A step of thread t that concerns no wakeup.                             *)
QuietStep(t) == /\ Others(t) /\ GroupsStay /\ WaitersStand /\ SwitchStays /\ WakersStay /\ PostsStay
                /\ QueuesStay /\ SinceStays /\ ReachesStay
(* No waiter but the moving thread changes its place.                      *)
WaitersKeep(t) == \A u \in Waiters \ {t} : pc'[u] = pc[u]

(* What is owed is never negative.                                         *)
LEMMA OwedNotNegative ==
  ASSUME Inv
  PROVE  Owed \in Nat /\ Posted \in Nat
  <1>1. start \in Nat /\ signals[GroupOne] \in Nat
    BY NumberFacts, SlotFacts DEF Inv
  <1>2. ~Switching => start <= signals[GroupOne]
    BY EndIs DEF Inv, BooksAt, SignalsAreAt
  <1>3. QED BY <1>1, <1>2, CountsAreNat DEF Owed, Posted

(* A waiter that stands still keeps what it read.                          *)
LEMMA StandingLaggard ==
  ASSUME NEW w \in Waiters, Stands(w)
  PROVE  LaggardStays(w)
  <1>1. pc'[w] \in {"take", "park"} => HasTicket(w)'
    BY DEF HasTicket, Blocked
  <1>2. QED BY <1>1 DEF LaggardStays, Stands

(* A step that leaves groups, waiters, wakers and queues alone keeps the   *)
(* first three parts of the invariant,                                     *)
LEMMA StillKeeps ==
  ASSUME Inv, Inv', WakeInv, NEW t \in Threads,
         Others(t), GroupsStay, WaitersStand, SwitchStays, WakersStay, QueuesStay
  PROVE  Laggards' /\ OrderOK' /\ DeliveryOK'
  <1>1. /\ Types /\ Types' /\ QueuesOK /\ LocalsOK /\ Laggards /\ OrderOK /\ DeliveryOK
    BY DEF Inv, WakeInv
  <1>3. /\ start' = start /\ signals' = signals /\ sequence'.slot = sequence.slot
        /\ word'.size = word.size
    BY DEF GroupsStay
  <1>4. Laggards'
    <2>1. \A w \in Waiters : LaggardStays(w)
      BY StandingLaggard DEF WaitersStand
    <2>2. \A slot \in Slots : signals'[slot] >= signals[slot]
      BY <1>1, <1>3 DEF Types
    <2>3. QED BY <1>1, <1>3, <2>1, <2>2, LaggardsKeep
  <1>5. OrderOK'
    <2>1. TicketsStay(t)
      BY DEF TicketsStay, WaitersStand, Stands, HasTicket, Blocked
    <2>2. QED BY <1>1, <1>3, <2>1, OrderKeeps DEF QueuesStay
  <1>6. \A slot \in Slots : /\ Wakers(slot)' = Wakers(slot) /\ (Loud(slot)' <=> Loud(slot))
                            /\ ClosedParked(slot)' = ClosedParked(slot)
    BY <1>3, WakersSame, ClosedSame
  <1>7. \A slot \in Slots : Served(slot)'
    BY <1>1, <1>6, ServedKeeps DEF DeliveryOK
  <1>8. GroupServed'
    <2>1. (Switching' <=> Switching) /\ GroupOne' = GroupOne
      BY SwitchSame, SlotsSame
    <2>2. Awake' = Awake /\ Asleep' = Asleep
      BY <1>3, MembersSame
    <2>3. ClosedParked(GroupOne)' = ClosedParked(GroupOne)
      <3>1. ClosedParked(GroupOne)' = {w \in Waiters : pc'[w] = "parked"
                                                       /\ my'[w].position < start'
                                                       /\ my'[w].slot = GroupOne}
        BY <2>1 DEF ClosedParked
      <3>2. ASSUME NEW w \in Waiters
            PROVE  pc'[w] = "parked" /\ my'[w].position < start' /\ my'[w].slot = GroupOne
                     <=> pc[w] = "parked" /\ my[w].position < start /\ my[w].slot = GroupOne
        BY <1>3 DEF WaitersStand, Stands, HasTicket, Blocked
      <3>3. QED BY <3>1, <3>2 DEF ClosedParked
    <2>4. QED BY <1>1, <1>3, <1>6, <2>1, <2>2, <2>3, GroupKeeps DEF DeliveryOK
  <1>10. QED BY <1>4, <1>5, <1>7, <1>8 DEF DeliveryOK

(* and a quiet step all four.                                              *)
LEMMA QuietKeeps ==
  ASSUME Inv, Inv', WakeInv, NEW t \in Threads, QuietStep(t)
  PROVE  Laggards' /\ OrderOK' /\ DeliveryOK' /\ CalledOK'
  <1>1. Types /\ Types' /\ CalledOK
    BY DEF Inv, WakeInv
  <1>2. /\ Others(t) /\ GroupsStay /\ WaitersStand /\ SwitchStays /\ WakersStay /\ PostsStay
        /\ QueuesStay /\ SinceStays /\ ReachesStay
    BY DEF QuietStep
  <1>3. start' = start /\ signals' = signals /\ sequence'.slot = sequence.slot
    BY <1>2 DEF GroupsStay
  <1>9. CalledOK'
    <2>1. Owed' = Owed /\ Owed \in Nat
      BY <1>2, <1>3, OwedSame, OwedNotNegative
    <2>2. ASSUME NEW w \in Waiters PROVE CalledStays(w)
      <3>1. (Blocked(w)' <=> Blocked(w)) /\ (Blocked(w) => my'[w].position = my[w].position)
        BY <1>2 DEF WaitersStand, Stands, HasTicket
      <3>2. Blocked(w) => (Certain(w)' <=> Certain(w))
        BY <1>2, <3>1, CertainSame
      <3>3. QED BY <1>2, <3>1, <3>2 DEF CalledStays, SinceStays, ReachesStay
    <2>3. QED BY <1>1, <2>1, <2>2, CalledKeeps
  <1>10. QED BY <1>2, <1>9, StillKeeps

(* A waiter's step is quiet when it stands where it did.                   *)
LEMMA WaiterQuiet ==
  ASSUME WakeInv, NEW w \in Waiters, Others(w), GroupsStay, QueuesStay, SinceStays, WaitersKeep(w),
         Stands(w)
  PROVE  QuietStep(w)
  <1>0. w \in Threads /\ w \notin Signalers
    BY CondAssumption DEF Threads
  <1>1. WaitersStand
    BY <1>0, OtherStands DEF WaitersStand, WaitersKeep
  <1>2. SwitchStays /\ WakersStay /\ PostsStay
    BY OtherSignalersStay DEF WakeInv, Small
  <1>3. ReachesStay
    <2>1. ASSUME NEW s \in Signalers, NEW v \in Waiters, Blocked(v), Reaches(s, v)
          PROVE  Reaches(s, v)'
      <3>1. my'[v].position = my[v].position
        BY <1>1, <2>1 DEF WaitersStand, Stands, HasTicket
      <3>2. start' + word'.size = start + word.size /\ s # w
        BY <1>0 DEF GroupsStay
      <3>3. QED BY <1>0, <2>1, <3>1, <3>2, OtherReaches
    <2>2. QED BY <2>1 DEF ReachesStay
  <1>4. QED BY <1>1, <1>2, <1>3 DEF QuietStep

(* A signaler's step is quiet when what it posts and wakes stays.          *)
Steady(s) ==
  /\ StaysWaker(s)
  /\ Posts(s)' <=> Posts(s)
  /\ pc[s] \notin {"flip", "open"} /\ pc'[s] \notin {"flip", "open"}
  /\ \A w \in Waiters : Blocked(w) /\ Reaches(s, w) => Reaches(s, w)'

(* A signaler's step is quiet when the signaler is steady and wakes no     *)
(* waiter.                                                                 *)
LEMMA SignalerQuiet ==
  ASSUME WakeInv, NEW s \in Signalers, Others(s), GroupsStay, QueuesStay, SinceStays,
         WaitersKeep(s),
         Steady(s)
  PROVE  QuietStep(s)
  <1>0. s \in Threads /\ s \notin Waiters
    BY CondAssumption DEF Threads
  <1>1. WaitersStand
    BY <1>0, OtherStands DEF WaitersStand, WaitersKeep
  <1>2. SwitchStays /\ WakersStay /\ PostsStay
    BY SignalersStay DEF WakeInv, Small, Steady
  <1>3. ReachesStay
    <2>1. ASSUME NEW u \in Signalers, NEW v \in Waiters, Blocked(v), Reaches(u, v)
          PROVE  Reaches(u, v)'
      <3>1. my'[v].position = my[v].position
        BY <1>1, <2>1 DEF WaitersStand, Stands, HasTicket
      <3>2. start' + word'.size = start + word.size
        BY DEF GroupsStay
      <3>3. QED BY <1>0, <2>1, <3>1, <3>2, OtherReaches DEF Steady
    <2>2. QED BY <2>1 DEF ReachesStay
  <1>4. QED BY <1>1, <1>2, <1>3 DEF QuietStep

-----------------------------------------------------------------------------
(* A step that moves one thread, or wakes on another word, leaves the      *)
(* slots' sleepers.                                                        *)
LEMMA GotoKeeps ==
  ASSUME Types, NEW t \in Threads, NEW l, Goto(t, l)
  PROVE  WaitersKeep(t)
  <1>1. pc' = [pc EXCEPT ![t] = l] /\ pc \in [Threads -> WaiterPlaces \cup SignalerPlaces]
    BY DEF Goto, Types
  <1>2. QED BY <1>1 DEF WaitersKeep, Threads

(* A wake on the internal lock or on the references moves no waiter,       *)
LEMMA WakeElsewhere ==
  ASSUME Types, NEW t \in Threads, NEW a \in {"lock", "references"}, NEW c, NEW r, NEW n,
         WakeThen(t, a, c, r, n), WakesOnly(t, a)
  PROVE  WaitersKeep(t) /\ QueuesStay
  <1>1. a \in Addresses /\ \A slot \in Slots : SignalsAt(slot) \in Addresses \ {a}
    BY DEF Addresses, SignalsAt
  <1>2. WaitersKeep(t)
    <2>1. ASSUME NEW u \in Waiters, u # t PROVE pc'[u] = pc[u]
      BY <1>1, <2>1 DEF WakesOnly, Where, Threads, SignalsAt
    <2>2. QED BY <2>1 DEF WaitersKeep
  <1>3. QueuesStay
    <2>1. \E q : queue' = [queue EXCEPT ![a] = q]
      BY DEF WakeThen
    <2>2. QED BY <1>1, <2>1 DEF QueuesStay, Types
  <1>4. QED BY <1>2, <1>3

(* parking there does not,                                                 *)
LEMMA ParkElsewhere ==
  ASSUME Types, NEW t \in Threads, NEW a \in {"lock", "references"}, Park(t, a)
  PROVE  WaitersKeep(t) /\ QueuesStay
  <1>1. a \in Addresses /\ \A slot \in Slots : SignalsAt(slot) \in Addresses \ {a}
    BY DEF Addresses, SignalsAt
  <1>2. WaitersKeep(t)
    BY GotoKeeps DEF Park
  <1>3. QueuesStay
    <2>1. \E q : queue' = [queue EXCEPT ![a] = q]
      BY DEF Park
    <2>2. QED BY <1>1, <2>1 DEF QueuesStay, Types
  <1>4. QED BY <1>2, <1>3

(* and neither does a signal handler in a signaler.                        *)
LEMMA InterruptElsewhere ==
  ASSUME Types, QueuesOK, LocalsOK, NEW s \in Signalers, Interrupted(s)
  PROVE  WaitersKeep(s) /\ QueuesStay
  <1>1. s \in Threads /\ s \notin Waiters
    BY CondAssumption DEF Threads
  <1>2. PICK a \in Addresses : \E i \in 1 .. Len(queue[a]) :
          /\ queue[a][i] = s /\ queue' = [queue EXCEPT ![a] = RemoveAt(@, i)]
          /\ Goto(s,
                  CASE a = "lock" -> "lockSlow" [] a = "references" -> "destroy" [] OTHER -> "load")
    BY DEF Interrupted
  <1>3. PICK i \in 1 .. Len(queue[a]) :
          /\ queue[a][i] = s /\ queue' = [queue EXCEPT ![a] = RemoveAt(@, i)]
          /\ Goto(s,
                  CASE a = "lock" -> "lockSlow" [] a = "references" -> "destroy" [] OTHER -> "load")
    BY <1>2
  <1>4. Contains(queue[a], s)
    BY <1>3 DEF Types, Contains
  <1>5. a \in {"lock", "references"}
    BY <1>1, <1>4 DEF QueuesOK, Where
  <1>6. \A slot \in Slots : SignalsAt(slot) \in Addresses \ {a}
    BY <1>5 DEF Addresses, SignalsAt
  <1>7. QueuesStay
    BY <1>3, <1>6 DEF QueuesStay, Types
  <1>8. WaitersKeep(s)
    BY <1>1, <1>3, GotoKeeps
  <1>9. QED BY <1>7, <1>8

(* The quiet actions, one by one: taking the mutex before a wait,          *)
LEMMA LockMutexQuiet ==
  ASSUME Inv, WakeInv, NEW w \in Waiters, LockMutex(w)
  PROVE  QuietStep(w)
  <1>1. w \in Threads /\ Others(w) /\ GroupsStay
    BY LockMutexDoes DEF Threads, Inv, Base, GroupsStay
  <1>2. QueuesStay /\ WaitersKeep(w)
    <2>1. queue' = queue /\ \E l : Goto(w, l)
      BY DEF LockMutex, state
    <2>2. QED BY <1>1, <2>1, GotoKeeps DEF QueuesStay, Inv
  <1>3. SinceStays
    BY LockMutexDoes DEF Inv, SinceStays
  <1>4. Stands(w)
    BY LockMutexDoes DEF Inv, Stands, HasTicket, Blocked
  <1>5. QED BY <1>1, <1>2, <1>3, <1>4, WaiterQuiet

(* giving it up without one,                                               *)
LEMMA UnlockMutexQuiet ==
  ASSUME Inv, WakeInv, NEW w \in Waiters, UnlockMutex(w)
  PROVE  QuietStep(w)
  <1>1. w \in Threads /\ Others(w) /\ GroupsStay
    BY UnlockMutexDoes DEF Threads, Inv, Base, GroupsStay
  <1>2. QueuesStay /\ WaitersKeep(w)
    <2>1. queue' = queue /\ \E l : Goto(w, l)
      BY DEF UnlockMutex, state
    <2>2. QED BY <1>1, <2>1, GotoKeeps DEF QueuesStay, Inv
  <1>3. SinceStays
    BY UnlockMutexDoes DEF Inv, SinceStays
  <1>4. Stands(w)
    BY UnlockMutexDoes DEF Inv, Stands, HasTicket, Blocked
  <1>5. QED BY <1>1, <1>2, <1>3, <1>4, WaiterQuiet

(* taking a reference,                                                     *)
LEMMA RegisterQuiet ==
  ASSUME Inv, WakeInv, NEW w \in Waiters, Register(w)
  PROVE  QuietStep(w)
  <1>1. w \in Threads /\ Others(w) /\ GroupsStay
    BY RegisterDoes DEF Threads, Inv, Base, GroupsStay
  <1>2. QueuesStay /\ WaitersKeep(w)
    <2>1. queue' = queue /\ \E l : Goto(w, l)
      BY DEF Register, state
    <2>2. QED BY <1>1, <2>1, GotoKeeps DEF QueuesStay, Inv
  <1>3. SinceStays
    BY RegisterDoes DEF Inv, SinceStays
  <1>4. Stands(w)
    BY RegisterDoes DEF Inv, Stands, HasTicket, Blocked
  <1>5. QED BY <1>1, <1>2, <1>3, <1>4, WaiterQuiet

(* reading the signals,                                                    *)
LEMMA LoadSignalsQuiet ==
  ASSUME Inv, WakeInv, NEW w \in Waiters, LoadSignals(w)
  PROVE  QuietStep(w)
  <1>1. w \in Threads /\ Others(w) /\ GroupsStay
    BY LoadSignalsDoes DEF Threads, Inv, Base, GroupsStay
  <1>2. QueuesStay /\ WaitersKeep(w)
    <2>1. queue' = queue /\ \E l : Goto(w, l)
      BY DEF LoadSignals, state
    <2>2. QED BY <1>1, <2>1, GotoKeeps DEF QueuesStay, Inv
  <1>3. SinceStays
    BY LoadSignalsDoes DEF Inv, SinceStays
  <1>4. Stands(w)
    <2>1. my'[w].slot = my[w].slot /\ my'[w].position = my[w].position
      BY LoadSignalsDoes, NumberFacts, <1>1 DEF Inv, LocalType
    <2>2. pc[w] = "load" /\ pc'[w] = "decide"
      BY LoadSignalsDoes DEF Inv
    <2>3. QED BY <2>1, <2>2 DEF Stands, HasTicket, Blocked
  <1>5. QED BY <1>1, <1>2, <1>3, <1>4, WaiterQuiet

(* giving the reference back,                                              *)
LEMMA ConfirmQuiet ==
  ASSUME Inv, WakeInv, NEW w \in Waiters, Confirm(w)
  PROVE  QuietStep(w)
  <1>1. w \in Threads /\ Others(w) /\ GroupsStay
    BY ConfirmDoes DEF Threads, Inv, Base, GroupsStay
  <1>2. QueuesStay /\ WaitersKeep(w)
    <2>1. queue' = queue /\ \E l : Goto(w, l)
      BY DEF Confirm, state
    <2>2. QED BY <1>1, <2>1, GotoKeeps DEF QueuesStay, Inv
  <1>3. SinceStays
    BY ConfirmDoes DEF Inv, SinceStays
  <1>4. Stands(w)
    BY ConfirmDoes DEF Inv, Stands, HasTicket, Blocked
  <1>5. QED BY <1>1, <1>2, <1>3, <1>4, WaiterQuiet

(* taking the mutex after the wait,                                        *)
LEMMA ReacquireMutexQuiet ==
  ASSUME Inv, WakeInv, NEW w \in Waiters, ReacquireMutex(w)
  PROVE  QuietStep(w)
  <1>1. w \in Threads /\ Others(w) /\ GroupsStay
    BY ReacquireMutexDoes DEF Threads, Inv, Base, GroupsStay
  <1>2. QueuesStay /\ WaitersKeep(w)
    <2>1. queue' = queue /\ \E l : Goto(w, l)
      BY DEF ReacquireMutex, state
    <2>2. QED BY <1>1, <2>1, GotoKeeps DEF QueuesStay, Inv
  <1>3. SinceStays
    <2>1. since' = [since EXCEPT ![w] = Nothing] /\ ~Blocked(w)
      BY ReacquireMutexDoes DEF Inv, Blocked
    <2>2. QED BY <2>1 DEF SinceStays, Inv, Types
  <1>4. Stands(w)
    BY ReacquireMutexDoes DEF Inv, Stands, HasTicket, Blocked
  <1>5. QED BY <1>1, <1>2, <1>3, <1>4, WaiterQuiet

(* a compare-exchange that fails,                                          *)
LEMMA TakeSignalQuiet ==
  ASSUME Inv, WakeInv, NEW w \in Waiters, TakeSignal(w), pc'[w] = "load"
  PROVE  QuietStep(w)
  <1>1. w \in Threads /\ Others(w) /\ GroupsStay
    BY TakeSignalDoes DEF Threads, Inv, Base, GroupsStay
  <1>2. QueuesStay /\ WaitersKeep(w)
    <2>1. \E l : Goto(w, l)
      BY DEF TakeSignal, Leaves, Park
    <2>2. queue' = queue
      BY DEF TakeSignal
    <2>3. QED BY <1>1, <2>1, <2>2, GotoKeeps DEF QueuesStay, Inv
  <1>3. SinceStays
    BY TakeSignalDoes DEF Inv, SinceStays
  <1>4. Stands(w)
    BY TakeSignalDoes DEF Inv, Stands, HasTicket, Blocked
  <1>5. QED BY <1>1, <1>2, <1>3, <1>4, WaiterQuiet

(* a futex call that finds another value,                                  *)
LEMMA ParkWaiterQuiet ==
  ASSUME Inv, WakeInv, NEW w \in Waiters, ParkWaiter(w), pc'[w] = "load"
  PROVE  QuietStep(w)
  <1>1. w \in Threads /\ Others(w) /\ GroupsStay
    BY ParkWaiterDoes DEF Threads, Inv, Base, GroupsStay
  <1>2. QueuesStay /\ WaitersKeep(w)
    <2>1. \E l : Goto(w, l)
      BY DEF ParkWaiter, Leaves, Park
    <2>2. queue' = queue
      <3>1. Park(w, SignalsAt(my[w].slot)) => pc'[w] = "parked"
        BY <1>1 DEF Park, Goto, Inv, Types
      <3>2. QED BY <3>1 DEF ParkWaiter
    <2>3. QED BY <1>1, <2>1, <2>2, GotoKeeps DEF QueuesStay, Inv
  <1>3. SinceStays
    BY ParkWaiterDoes DEF Inv, SinceStays
  <1>4. Stands(w)
    BY ParkWaiterDoes DEF Inv, Stands, HasTicket, Blocked
  <1>5. QED BY <1>1, <1>2, <1>3, <1>4, WaiterQuiet

(* waking the destroyer,                                                   *)
LEMMA WakeDestroyerQuiet ==
  ASSUME Inv, WakeInv, NEW w \in Waiters, WakeDestroyer(w)
  PROVE  QuietStep(w)
  <1>1. w \in Threads /\ Others(w) /\ GroupsStay /\ WakesOnly(w, "references") /\ SinceStays
    BY WakeDestroyerDoes DEF Threads, Inv, Base, GroupsStay, SinceStays
  <1>2. WakeThen(w, "references", All, "destroy", "reacquire")
    BY DEF WakeDestroyer
  <1>3. WaitersKeep(w) /\ QueuesStay
    BY <1>1, <1>2, WakeElsewhere DEF Inv
  <1>4. Stands(w)
    BY WakeDestroyerDoes DEF Inv, Stands, HasTicket, Blocked
  <1>5. QED BY <1>1, <1>3, <1>4, WaiterQuiet

(* the internal lock's fast path                                           *)
LEMMA LockWordQuiet ==
  ASSUME Inv, WakeInv, NEW s \in Signalers, LockWord(s)
  PROVE  QuietStep(s)
  <1>0. word'.size = word.size
    BY LockWordDoes DEF Inv, Types
  <1>1. s \in Threads /\ Others(s) /\ GroupsStay /\ SinceStays /\ LocalAt(s) /\ CallAt(s)
    BY <1>0, LockWordDoes
       DEF Threads, Inv, Base, GroupsStay, SinceStays, LocalsOK, WakeInv, Small, CallOK
  <1>2. QueuesStay /\ WaitersKeep(s)
    <2>1. queue' = queue /\ \E l : Goto(s, l)
      BY DEF LockWord, state
    <2>2. QED BY <1>1, <2>1, GotoKeeps DEF QueuesStay, Inv
  <1>3. Steady(s)
    BY <1>1, LockWordDoes
       DEF Inv, StaysWaker, Wakes, Posts, Reaches, Steady, LocalAt, CallAt, LockedPlaces
  <1>4. QED BY <1>1, <1>2, <1>3, SignalerQuiet

(* and its slow path,                                                      *)
LEMMA LockSlowQuiet ==
  ASSUME Inv, WakeInv, NEW s \in Signalers, LockSlow(s)
  PROVE  QuietStep(s)
  <1>0. word'.size = word.size
    BY LockSlowDoes DEF Inv, Types
  <1>1. s \in Threads /\ Others(s) /\ GroupsStay /\ SinceStays /\ LocalAt(s) /\ CallAt(s)
    BY <1>0, LockSlowDoes
       DEF Threads, Inv, Base, GroupsStay, SinceStays, LocalsOK, WakeInv, Small, CallOK
  <1>2. QueuesStay /\ WaitersKeep(s)
    <2>1. queue' = queue /\ \E l : Goto(s, l)
      BY DEF LockSlow, state
    <2>2. QED BY <1>1, <2>1, GotoKeeps DEF QueuesStay, Inv
  <1>3. Steady(s)
    <2>1. my'[s].wake = my[s].wake /\ my'[s].call = my[s].call
      BY SameCall
    <2>2. pc[s] = "lockSlow" /\ pc'[s] \in {"observe", "lockPark"}
      BY LockSlowDoes DEF Inv
    <2>3. ~my[s].wake
      BY <1>1, <2>2 DEF CallAt
    <2>4. QED BY <2>1, <2>2, <2>3 DEF StaysWaker, Wakes, Posts, Reaches, Steady
  <1>4. QED BY <1>1, <1>2, <1>3, SignalerQuiet

(* the start of a destroy,                                                 *)
LEMMA BeginDestroyQuiet ==
  ASSUME Inv, WakeInv, NEW s \in Signalers, BeginDestroy(s)
  PROVE  QuietStep(s)
  <1>1. s \in Threads /\ Others(s) /\ GroupsStay /\ SinceStays /\ LocalAt(s) /\ CallAt(s)
    BY BeginDestroyDoes
       DEF Threads, Inv, Base, GroupsStay, SinceStays, LocalsOK, WakeInv, Small, CallOK
  <1>2. QueuesStay /\ WaitersKeep(s)
    <2>1. queue' = queue /\ \E l : Goto(s, l)
      BY DEF BeginDestroy, state
    <2>2. QED BY <1>1, <2>1, GotoKeeps DEF QueuesStay, Inv
  <1>3. Steady(s)
    <2>1. my'[s].wake = my[s].wake /\ my'[s].call = my[s].call
      BY SameCall
    <2>2. pc[s] = "out" /\ pc'[s] \in {"destroy"}
      BY BeginDestroyDoes DEF Inv
    <2>3. ~my[s].wake
      BY <1>1, <2>2 DEF CallAt
    <2>5. my[s].call = "none"
      BY <1>1, <2>2 DEF LocalAt
    <2>4. QED BY <2>1, <2>2, <2>3, <2>5 DEF StaysWaker, Wakes, Posts, Reaches, Steady
  <1>4. QED BY <1>1, <1>2, <1>3, SignalerQuiet

(* parking on the internal lock                                            *)
LEMMA LockParkQuiet ==
  ASSUME Inv, WakeInv, NEW s \in Signalers, LockPark(s)
  PROVE  QuietStep(s)
  <1>1. s \in Threads /\ Others(s) /\ GroupsStay /\ SinceStays /\ LocalAt(s) /\ CallAt(s)
    BY LockParkDoes DEF Threads, Inv, Base, GroupsStay, SinceStays, LocalsOK, WakeInv, Small, CallOK
  <1>2. QueuesStay /\ WaitersKeep(s)
    <2>1. \/ Park(s, "lock")
          \/ queue' = queue /\ \E l : Goto(s, l)
      BY DEF LockPark
    <2>2. QED BY <1>1, <2>1, ParkElsewhere, GotoKeeps DEF QueuesStay, Inv
  <1>3. Steady(s)
    BY <1>1, LockParkDoes
       DEF Inv, StaysWaker, Wakes, Posts, Reaches, Steady, LocalAt, CallAt, LockedPlaces
  <1>4. QED BY <1>1, <1>2, <1>3, SignalerQuiet

(* and on the references,                                                  *)
LEMMA ParkDestroyerQuiet ==
  ASSUME Inv, WakeInv, NEW s \in Signalers, ParkDestroyer(s)
  PROVE  QuietStep(s)
  <1>1. s \in Threads /\ Others(s) /\ GroupsStay /\ SinceStays /\ LocalAt(s) /\ CallAt(s)
    BY ParkDestroyerDoes
       DEF Threads, Inv, Base, GroupsStay, SinceStays, LocalsOK, WakeInv, Small, CallOK
  <1>2. QueuesStay /\ WaitersKeep(s)
    <2>1. \/ Park(s, "references")
          \/ queue' = queue /\ \E l : Goto(s, l)
      BY DEF ParkDestroyer
    <2>2. QED BY <1>1, <2>1, ParkElsewhere, GotoKeeps DEF QueuesStay, Inv
  <1>3. Steady(s)
    BY <1>1, ParkDestroyerDoes
       DEF Inv, StaysWaker, Wakes, Posts, Reaches, Steady, LocalAt, CallAt, LockedPlaces
  <1>4. QED BY <1>1, <1>2, <1>3, SignalerQuiet

(* the destroyer's look at the references,                                 *)
LEMMA DestroyQuiet ==
  ASSUME Inv, WakeInv, NEW s \in Signalers, Destroy(s)
  PROVE  QuietStep(s)
  <1>1. s \in Threads /\ Others(s) /\ GroupsStay /\ SinceStays /\ LocalAt(s) /\ CallAt(s)
    BY DestroyDoes DEF Threads, Inv, Base, GroupsStay, SinceStays, LocalsOK, WakeInv, Small, CallOK
  <1>2. QueuesStay /\ WaitersKeep(s)
    <2>1. queue' = queue /\ \E l : Goto(s, l)
      BY DEF Destroy, state
    <2>2. QED BY <1>1, <2>1, GotoKeeps DEF QueuesStay, Inv
  <1>3. Steady(s)
    <2>1. /\ pc[s] = "destroy" /\ pc'[s] \in {"out", "parkDestroyer"} /\ ~my'[s].wake
          /\ my'[s].call = "none"
          /\ ~my[s].wake /\ my[s].call = "none"
      BY DestroyDoes, DestroySmall DEF Inv, WakeInv
    <2>2. QED BY <2>1 DEF StaysWaker, Wakes, Posts, Reaches, Steady
  <1>4. QED BY <1>1, <1>2, <1>3, SignalerQuiet

(* waking the next signaler,                                               *)
LEMMA WakeLockerQuiet ==
  ASSUME Inv, WakeInv, NEW s \in Signalers, WakeLocker(s)
  PROVE  QuietStep(s)
  <1>1. s \in Threads /\ Others(s) /\ GroupsStay /\ SinceStays /\ LocalAt(s) /\ CallAt(s)
    BY WakeLockerDoes
       DEF Threads, Inv, Base, GroupsStay, SinceStays, LocalsOK, WakeInv, Small, CallOK
  <1>2. QueuesStay /\ WaitersKeep(s)
    <2>1. WakesOnly(s, "lock") /\ WakeThen(s, "lock", 1, "lockSlow", WakesNext(s))
      BY WakeLockerDoes DEF Inv, WakeLocker
    <2>2. QED BY <1>1, <2>1, WakeElsewhere DEF Inv
  <1>3. Steady(s)
    BY <1>1, WakeLockerDoes
       DEF Inv, StaysWaker, Wakes, Posts, Reaches, Steady, LocalAt, CallAt, LockedPlaces
  <1>4. QED BY <1>1, <1>2, <1>3, SignalerQuiet

(* giving up the internal lock,                                            *)
LEMMA UnlockQuiet ==
  ASSUME Inv, WakeInv, NEW s \in Signalers, Unlock(s)
  PROVE  QuietStep(s)
  <1>0. word'.size = word.size
    BY UnlockDoes DEF Inv, Types
  <1>1. s \in Threads /\ Others(s) /\ GroupsStay /\ SinceStays /\ LocalAt(s) /\ CallAt(s)
    BY <1>0, UnlockDoes
       DEF Threads, Inv, Base, GroupsStay, SinceStays, LocalsOK, WakeInv, Small, CallOK
  <1>2. QueuesStay /\ WaitersKeep(s)
    <2>1. queue' = queue /\ \E l : Goto(s, l)
      BY DEF Unlock, state
    <2>2. QED BY <1>1, <2>1, GotoKeeps DEF QueuesStay, Inv
  <1>3. Steady(s)
    <2>1. /\ pc[s] = "unlock" /\ pc'[s] \in {"wakeLocker", "wake", "out"}
          /\ \/ my[s].wake /\ my'[s] = my[s]
             \/ ~my[s].wake /\ my'[s] = Idle
      BY UnlockDoes DEF Inv
    <2>2. ~my[s].wake => ~my'[s].wake
      BY <2>1, IdleFacts
    <2>3. Posts(s)' <=> Posts(s)
      BY <2>1 DEF Posts
    <2>4. StaysWaker(s)
      BY <2>1, <2>2 DEF StaysWaker, Wakes
    <2>5. QED BY <2>1, <2>3, <2>4 DEF Steady, Reaches
  <1>4. QED BY <1>1, <1>2, <1>3, SignalerQuiet

(* and a signal handler in a signaler.                                     *)
LEMMA InterruptedQuiet ==
  ASSUME Inv, WakeInv, NEW s \in Signalers, Interrupted(s)
  PROVE  QuietStep(s)
  <1>1. s \in Threads /\ Others(s) /\ GroupsStay /\ SinceStays /\ LocalAt(s) /\ CallAt(s)
    BY InterruptSignalerDoes, NumberFacts
       DEF Threads, Inv, Base, GroupsStay, SinceStays, LocalsOK, WakeInv, Small, CallOK
  <1>2. QueuesStay /\ WaitersKeep(s)
    BY InterruptElsewhere DEF Inv
  <1>3. pc[s] = "parked" /\ pc'[s] = Resumes(s) /\ my' = my
    BY <1>1, InterruptQueues, CondAssumption DEF Inv
  <1>4. pc'[s] = IF my[s].call = "none" THEN "destroy" ELSE "lockSlow"
    BY <1>3, CondAssumption DEF Resumes
  <1>5. Steady(s)
    BY <1>1, <1>3, <1>4 DEF StaysWaker, Wakes, Posts, Reaches, Steady, CallAt
  <1>6. QED BY <1>1, <1>2, <1>5, SignalerQuiet

-----------------------------------------------------------------------------
(* The other waiters stand where they did over a waiter's step.            *)
LEMMA OthersStand ==
  ASSUME NEW t \in Threads, Others(t), WaitersKeep(t)
  PROVE  \A v \in Waiters : v # t => Stands(v) /\ my'[v] = my[v] /\ pc'[v] = pc[v]
  BY OtherStands DEF WaitersKeep

(* What every step of a waiter leaves alone while the groups stand still,  *)
LEMMA WaiterFacts ==
  ASSUME WakeInv, NEW w \in Waiters, Others(w), WaitersKeep(w), GroupsStay
  PROVE  /\ w \in Threads /\ SwitchStays /\ WakersStay /\ PostsStay
         /\ (Switching' <=> Switching) /\ GroupOne' = GroupOne
         /\ \A slot \in Slots : Wakers(slot)' = Wakers(slot) /\ (Loud(slot)' <=> Loud(slot))
  <1>1. w \in Threads /\ SwitchStays /\ WakersStay /\ PostsStay
    BY OtherSignalersStay DEF Threads, WakeInv, Small
  <1>2. QED BY <1>1, SwitchSame, SlotsSame, WakersSame

(* and what is left to show for it: of the closed groups,                  *)
LEMMA WaiterLaggards ==
  ASSUME Inv, Inv', WakeInv, NEW w \in Waiters, Others(w), WaitersKeep(w), GroupsStay,
         LaggardStays(w)
  PROVE  Laggards'
  <1>1. w \in Threads /\ SwitchStays
    BY WaiterFacts
  <1>2. \A v \in Waiters : LaggardStays(v)
    BY <1>1, OthersStand, StandingLaggard
  <1>3. Types /\ Types' /\ Laggards
    BY DEF Inv, WakeInv
  <1>4. start' = start /\ sequence'.slot = sequence.slot
        /\ \A slot \in Slots : signals'[slot] >= signals[slot]
    BY <1>3 DEF GroupsStay, Types
  <1>5. QED BY <1>1, <1>2, <1>3, <1>4, LaggardsKeep

(* of the queues,                                                          *)
LEMMA WaiterOrder ==
  ASSUME Inv, WakeInv, NEW w \in Waiters, Others(w), QueuesStay, start' = start, TicketsStay(w)
  PROVE  OrderOK'
  <1>1. w \in Threads /\ Types /\ QueuesOK /\ LocalsOK /\ OrderOK
    BY DEF Threads, Inv, WakeInv
  <1>2. QED BY <1>1, OrderKeeps DEF QueuesStay

(* of the wakes under way,                                                 *)
LEMMA WaiterDelivery ==
  ASSUME Inv, WakeInv, NEW w \in Waiters, Others(w), WaitersKeep(w), GroupsStay,
         pc'[w] # "parked", IsMember(w) /\ pc[w] # "parked" => IsMember(w)'
  PROVE  DeliveryOK'
  <1>1. /\ w \in Threads /\ (Switching' <=> Switching) /\ GroupOne' = GroupOne
        /\ \A slot \in Slots : Wakers(slot)' = Wakers(slot) /\ (Loud(slot)' <=> Loud(slot))
    BY WaiterFacts
  <1>2. /\ Types /\ start' = start /\ signals' = signals /\ word'.size = word.size
        /\ GroupOne \in Slots /\ (\A slot \in Slots : Served(slot)) /\ GroupServed
    BY SlotFacts DEF Inv, WakeInv, GroupsStay, DeliveryOK
  <1>3. \A v \in Waiters : v # w => /\ my'[v] = my[v] /\ pc'[v] = pc[v]
                                    /\ (HasTicket(v)' <=> HasTicket(v))
                                    /\ (Blocked(v)' <=> Blocked(v))
    BY <1>1, OthersStand DEF Stands
  <1>4. ASSUME NEW slot
        PROVE  {v \in Waiters : pc'[v] = "parked" /\ my'[v].position < start'
                                /\ my'[v].slot = slot} \subseteq ClosedParked(slot)
    BY <1>2, <1>3 DEF ClosedParked
  <1>5. \A slot \in Slots : ClosedParked(slot)' \subseteq ClosedParked(slot)
    BY <1>4 DEF ClosedParked
  <1>6. ClosedParked(GroupOne)' \subseteq ClosedParked(GroupOne)
    <2>1. ClosedParked(GroupOne)' = {v \in Waiters : pc'[v] = "parked" /\ my'[v].position < start'
                                                     /\ my'[v].slot = GroupOne'}
      BY DEF ClosedParked
    <2>2. QED BY <2>1, <1>4, <1>1
  <1>7. \A v \in Waiters : v # w => (IsMember(v)' <=> IsMember(v))
    BY <1>2, <1>3 DEF IsMember
  <1>8. Asleep' \subseteq Asleep /\ Awake \subseteq Awake'
    BY <1>3, <1>7 DEF Asleep, Awake
  <1>9. \A slot \in Slots : Served(slot)'
    BY <1>1, <1>2, <1>5, ServedKeeps
  <1>10. GroupServed'
    BY <1>1, <1>2, <1>6, <1>8, GroupKeeps
  <1>11. QED BY <1>9, <1>10 DEF DeliveryOK

(* Those who are not at w's step: nothing is called for them.              *)
LEMMA OthersCalled ==
  ASSUME WakeInv, NEW w \in Waiters, Others(w), WaitersKeep(w),
         start' = start, sizes' = sizes, word'.size = word.size, sequence'.slot = sequence.slot,
         NEW v \in Waiters, v # w, Blocked(v)'
  PROVE  /\ Blocked(v) /\ (Certain(v) => Certain(v)')
         /\ \A s \in Signalers : Reaches(s, v) => Reaches(s, v)'
  <1>1. w \in Threads /\ w \notin Signalers /\ SwitchStays
    BY CondAssumption, OtherSignalersStay DEF Threads, WakeInv, Small
  <1>2. Blocked(v) /\ my'[v] = my[v] /\ (Switching' <=> Switching)
    BY <1>1, OtherStands, SwitchSame DEF WaitersKeep
  <1>3. Certain(v) => Certain(v)'
    BY <1>2 DEF Certain, GroupOne
  <1>4. ASSUME NEW s \in Signalers, Reaches(s, v) PROVE Reaches(s, v)'
    BY <1>1, <1>2, <1>4, OtherReaches
  <1>5. QED BY <1>2, <1>3, <1>4

(* and of the signals called since.                                        *)
LEMMA WaiterCalled ==
  ASSUME Inv, Inv', WakeInv, NEW w \in Waiters, Others(w), WaitersKeep(w), GroupsStay, SinceStays,
         HasTicket(w) /\ my[w].position < start
           => HasTicket(w)' /\ my'[w].position = my[w].position,
         CalledStays(w)
  PROVE  CalledOK'
  <1>1. /\ Types /\ Types' /\ CalledOK /\ start \in Nat
        /\ start' = start /\ sizes' = sizes /\ word'.size = word.size
        /\ sequence'.slot = sequence.slot
        /\ signals' = signals
    BY NumberFacts DEF Inv, WakeInv, GroupsStay
  <1>2. w \in Threads /\ PostsStay /\ (Switching' <=> Switching) /\ GroupOne' = GroupOne
    BY WaiterFacts
  <1>3. Within(0, start) \subseteq Within(0, start)'
    <2>1. \A v \in Waiters : v # w => my'[v] = my[v] /\ (HasTicket(v)' <=> HasTicket(v))
      BY <1>2, OthersStand DEF Stands
    <2>2. QED BY <1>1, <2>1 DEF Within
  <1>4. Owed' >= Owed /\ Owed' >= 0
    <2>1. Posting' = Posting /\ Posted' = Posted
      BY <1>1, <1>2, PostingSame DEF Posted
    <2>2. Within(0, start)' \subseteq Waiters
      BY DEF Within
    <2>3. /\ Cardinality(Within(0, start)) <= Cardinality(Within(0, start)')
          /\ Cardinality(Within(0, start)) \in Nat /\ Cardinality(Within(0, start)') \in Nat
      BY <1>3, <2>2, FewerCount, CountsAreNat, SetsFinite
    <2>4. Cardinality(Posting) \in Nat /\ Posted \in Nat
      BY CountsAreNat, OwedNotNegative
    <2>5. QED BY <2>1, <2>3, <2>4 DEF Owed
  <1>5. ASSUME NEW v \in Waiters PROVE CalledStays(v)
    <2>1. CASE v # w
      <3>1. Blocked(v)' => /\ Blocked(v) /\ (Certain(v) => Certain(v)')
                           /\ \A s \in Signalers : Reaches(s, v) => Reaches(s, v)'
        BY <1>1, <2>1, OthersCalled
      <3>2. QED BY <3>1 DEF CalledStays, SinceStays
    <2>2. QED BY <2>1
  <1>6. QED BY <1>1, <1>4, <1>5, CalledKeeps

(* A waiter that leaves has woken on a signal that was owed.               *)
LEMMA WaiterLeaves ==
  ASSUME Inv, Inv', WakeInv, NEW w \in Waiters, Others(w), WaitersKeep(w), Leaves(w),
         start' = start, sizes' = sizes, word'.size = word.size, sequence'.slot = sequence.slot,
         Owed' >= Owed - 1, ~Blocked(w)'
  PROVE  CalledOK'
  <1>1. Types /\ Types' /\ CalledOK
    BY DEF Inv, WakeInv
  <1>2. Owed \in Nat
    BY OwedNotNegative
  <1>3. (Owed \in Nat)'
    BY OwedNotNegative, PTL
  <1>4. ASSUME NEW v \in Waiters, Blocked(v)', ~Certain(v)'
        PROVE  /\ since'[v].signals <= since'[v].wakes + Owed'
               /\ since'[v].broadcast => \E s \in Signalers : Reaches(s, v)'
    <2>1. v # w
      BY <1>4
    <2>2. /\ Blocked(v) /\ ~Certain(v) /\ \A s \in Signalers : Reaches(s, v) => Reaches(s, v)'
      BY <1>4, <2>1, OthersCalled
    <2>3. /\ since[v].signals <= since[v].wakes + Owed
          /\ since[v].broadcast => \E s \in Signalers : Reaches(s, v)
      BY <1>1, <2>2 DEF CalledOK, CalledAt
    <2>4. since'[v] = [since[v] EXCEPT !.wakes = @ + 1]
      BY <2>1, <2>2 DEF Leaves
    <2>5. /\ since[v] \in SinceType /\ since'[v].signals = since[v].signals
          /\ since'[v].wakes = since[v].wakes + 1 /\ since'[v].broadcast = since[v].broadcast
      <3>1. since[v] \in SinceType
        BY <1>1 DEF Types
      <3>2. QED BY <3>1, <2>4 DEF SinceType
    <2>6. since'[v].signals <= since'[v].wakes + Owed'
      <3>1. since[v].signals \in Nat /\ since[v].wakes \in Nat
        BY <2>5 DEF SinceType
      <3>2. QED BY <2>3, <2>5, <3>1, <1>2, <1>3
    <2>7. since'[v].broadcast => \E s \in Signalers : Reaches(s, v)'
      BY <2>2, <2>3, <2>5
    <2>8. QED BY <2>6, <2>7
  <1>5. ASSUME NEW v \in Waiters PROVE CalledAt(v)'
    BY <1>4 DEF CalledAt
  <1>6. QED BY <1>5 DEF CalledOK

-----------------------------------------------------------------------------
(* What remains of the invariant, by action.                               *)
Delivered == Laggards /\ OrderOK /\ DeliveryOK /\ CalledOK

(* The steps of a waiter: it takes a ticket,                               *)
LEMMA TakeTicketDelivers ==
  ASSUME Inv, Inv', WakeInv, NEW w \in Waiters, TakeTicket(w)
  PROVE  Delivered'
  <1>0. w \in Threads /\ Types
    BY DEF Threads, Inv
  <1>1. /\ Others(w) /\ pc[w] = "locked" /\ pc'[w] = "register"
        /\ my'[w] = [my[w] EXCEPT !.slot = sequence.slot, !.position = sequence.ticket]
        /\ since' = [since EXCEPT ![w].roused = SignalerActive]
        /\ sequence' = [sequence EXCEPT !.ticket = @ + 1]
        /\ UNCHANGED <<start, sizes, word, signals>>
    BY TakeTicketDoes DEF Inv, Base
  <1>2. GroupsStay
    BY <1>0, <1>1 DEF GroupsStay, Types
  <1>3. WaitersKeep(w) /\ QueuesStay
    BY <1>0, GotoKeeps DEF TakeTicket, QueuesStay
  <1>4. SinceStays
    <2>1. ASSUME NEW v \in Waiters, Blocked(v) PROVE since'[v] = since[v]
      BY <1>0, <1>1, <2>1 DEF Blocked, Types
    <2>2. QED BY <2>1 DEF SinceStays
  <1>5. my'[w].position >= start
    <2>1. my'[w].position = sequence.ticket
      BY <1>0, <1>1 DEF Types, LocalType
    <2>2. PICK e \in 0 .. MaxTickets : BooksAt(e)
      BY EndIs DEF Inv
    <2>3. start <= e /\ e <= sequence.ticket /\ e \in Nat
      BY <2>2 DEF BooksAt, EndAt
    <2>4. start \in Nat /\ sequence.ticket \in Nat
      BY <1>0, NumberFacts
    <2>5. QED BY <2>1, <2>3, <2>4
  <1>6. LaggardStays(w) /\ TicketsStay(w)
    BY <1>1, <1>5 DEF LaggardStays, TicketsStay
  <1>7. DeliveryOK'
    <2>1. ~IsMember(w) /\ pc'[w] # "parked"
      BY <1>1 DEF IsMember, Blocked
    <2>2. QED BY <1>1, <1>2, <1>3, <2>1, WaiterDelivery
  <1>8. CalledOK'
    <2>1. CalledStays(w) /\ ~HasTicket(w)
      BY <1>1 DEF CalledStays, Blocked, HasTicket
    <2>2. QED BY <1>1, <1>2, <1>3, <1>4, <2>1, WaiterCalled
  <1>9. Laggards' /\ OrderOK'
    BY <1>1, <1>2, <1>3, <1>6, WaiterLaggards, WaiterOrder
  <1>10. QED BY <1>7, <1>8, <1>9 DEF Delivered

(* gives up the mutex and counts as blocked,                               *)
LEMMA ReleaseMutexDelivers ==
  ASSUME Inv, Inv', WakeInv, NEW w \in Waiters, ReleaseMutex(w)
  PROVE  Delivered'
  <1>0. w \in Threads /\ Types
    BY DEF Threads, Inv
  <1>1. /\ Others(w) /\ pc[w] = "release" /\ pc'[w] = "load"
        /\ UNCHANGED <<sequence, start, sizes, word, signals, my, since>>
    BY ReleaseMutexDoes DEF Inv, Base
  <1>2. GroupsStay /\ SinceStays
    BY <1>1 DEF GroupsStay, SinceStays
  <1>3. WaitersKeep(w) /\ QueuesStay
    BY <1>0, GotoKeeps DEF ReleaseMutex, QueuesStay
  <1>6. LaggardStays(w) /\ TicketsStay(w)
    BY <1>1 DEF LaggardStays, TicketsStay, HasTicket
  <1>7. DeliveryOK'
    <2>1. ~IsMember(w) /\ pc'[w] # "parked"
      BY <1>1 DEF IsMember, Blocked
    <2>2. QED BY <1>1, <1>2, <1>3, <2>1, WaiterDelivery
  <1>8. CalledOK'
    <2>1. since[w].signals = 0 /\ since[w].wakes = 0 /\ ~since[w].broadcast
      BY <1>1 DEF WakeInv, Small, FreshOK, Inside
    <2>2. CalledStays(w) /\ HasTicket(w)'
      BY <1>1, <2>1 DEF CalledStays, Blocked, HasTicket
    <2>3. QED BY <1>1, <1>2, <1>3, <2>2, WaiterCalled
  <1>9. Laggards' /\ OrderOK'
    BY <1>1, <1>2, <1>3, <1>6, WaiterLaggards, WaiterOrder
  <1>10. QED BY <1>7, <1>8, <1>9 DEF Delivered

(* A waiter that stays blocked, with its ticket, over a step of its own.   *)
LEMMA StaysCalled ==
  ASSUME Inv, WakeInv, NEW w \in Waiters, Others(w), GroupsStay, my' = my, since' = since,
         Blocked(w), Blocked(w)'
  PROVE  CalledStays(w)
  <1>1. w \in Threads /\ w \notin Signalers /\ SwitchStays
    BY CondAssumption, OtherSignalersStay DEF Threads, WakeInv, Small
  <1>2. Certain(w)' <=> Certain(w)
    BY <1>1, CertainSame
  <1>3. ASSUME NEW s \in Signalers, Reaches(s, w) PROVE Reaches(s, w)'
    BY <1>1, <1>3, OtherReaches DEF GroupsStay
  <1>4. QED BY <1>2, <1>3 DEF CalledStays

(* When w leaves, those below start are fewer by w, or the same.           *)
LEMMA WithinLeaves ==
  ASSUME NEW w \in Waiters, Others(w), WaitersKeep(w), ~HasTicket(w)', HasTicket(w), NEW lo, NEW hi
  PROVE  {v \in Waiters : HasTicket(v)' /\ lo <= my'[v].position /\ my'[v].position < hi}
           = Within(lo, hi) \ {w}
  <1>1. \A v \in Waiters : v # w => my'[v] = my[v] /\ (HasTicket(v)' <=> HasTicket(v))
    BY OthersStand DEF Threads, Stands
  <1>2. QED BY <1>1 DEF Within

(* and looks whether its group was closed.                                 *)
LEMMA DecideDelivers ==
  ASSUME Inv, Inv', WakeInv, NEW w \in Waiters, Decide(w)
  PROVE  Delivered'
  <1>0. w \in Threads /\ Types
    BY DEF Threads, Inv
  <1>1. /\ Others(w) /\ pc[w] = "decide"
        /\ \/ pc'[w] = "confirm" /\ my[w].position < start /\ Leaves(w)
           \/ /\ my[w].position >= start /\ UNCHANGED since
              /\ \/ pc'[w] = "take"
                 \/ pc'[w] = "park" /\ my[w].seen <= start
        /\ UNCHANGED <<sequence, start, sizes, word, signals, my>>
    BY DecideDoes DEF Inv, Base
  <1>2. GroupsStay
    BY <1>1 DEF GroupsStay
  <1>3. WaitersKeep(w) /\ QueuesStay
    <2>1. \E l : Goto(w, l)
      BY DEF Decide, Leaves
    <2>2. QED BY <1>0, <2>1, GotoKeeps DEF Decide, QueuesStay
  <1>4. start \in Nat /\ my[w].position \in Nat
    BY <1>0, NumberFacts
  <1>5. HasTicket(w) /\ pc'[w] # "parked"
    BY <1>1 DEF HasTicket, Blocked
  <1>6. LaggardStays(w) /\ TicketsStay(w)
    BY <1>1, <1>5 DEF LaggardStays, TicketsStay
  <1>7. DeliveryOK'
    <2>1. IsMember(w) => IsMember(w)'
      BY <1>1, <1>4 DEF IsMember, Blocked
    <2>2. QED BY <1>1, <1>2, <1>3, <1>5, <2>1, WaiterDelivery
  <1>8. CalledOK'
    <2>1. CASE my[w].position < start
      <3>1. pc'[w] = "confirm" /\ Leaves(w)
        BY <1>1, <1>4, <2>1
      <3>2. ~HasTicket(w)' /\ ~Blocked(w)'
        BY <3>1 DEF HasTicket, Blocked
      <3>3. Within(0, start)' = Within(0, start) \ {w} /\ w \in Within(0, start)
        <4>1. Within(0, start)' = {v \in Waiters : HasTicket(v)' /\ 0 <= my'[v].position
                                                   /\ my'[v].position < start}
          BY <1>1 DEF Within
        <4>2. w \in Within(0, start)
          BY <1>4, <1>5, <2>1 DEF Within
        <4>3. QED BY <4>1, <4>2, <1>1, <1>3, <1>5, <3>2, WithinLeaves
      <3>4. /\ Cardinality(Within(0, start)') = Cardinality(Within(0, start)) - 1
            /\ Cardinality(Within(0, start)) \in Nat
        <4>1. Within(0, start) \subseteq Waiters
          BY DEF Within
        <4>2. QED BY <3>3, <4>1, OneFewer
      <3>5. Posting' = Posting /\ Posted' = Posted
        BY <1>1, <1>2, <1>3, WaiterFacts, PostingSame DEF Posted
      <3>6. Owed' >= Owed - 1
        <4>1. Cardinality(Posting) \in Nat /\ Posted \in Nat
          BY CountsAreNat, OwedNotNegative
        <4>2. QED BY <3>4, <3>5, <4>1 DEF Owed
      <3>7. QED BY <1>1, <1>3, <3>1, <3>2, <3>6, WaiterLeaves
    <2>2. CASE my[w].position >= start
      <3>1. since' = since /\ Blocked(w) /\ Blocked(w)' /\ my' = my
        BY <1>1, <1>4, <2>2 DEF Blocked
      <3>2. CalledStays(w) /\ SinceStays
        BY <1>1, <1>2, <3>1, StaysCalled DEF SinceStays
      <3>3. QED BY <1>1, <1>2, <1>3, <3>1, <3>2, <2>2, <1>4, WaiterCalled
    <2>3. QED BY <1>4, <2>1, <2>2
  <1>9. Laggards' /\ OrderOK'
    BY <1>1, <1>2, <1>3, <1>6, WaiterLaggards, WaiterOrder
  <1>10. QED BY <1>7, <1>8, <1>9 DEF Delivered

-----------------------------------------------------------------------------
(* TakeSignal: what the waiter takes is its group's.                       *)
Takes(w) == TakeSignal(w) /\ pc'[w] = "confirm"

(* It takes a signal, and is out of the wait;                              *)
LEMMA TakesDoes ==
  ASSUME Inv, NEW w \in Waiters, Takes(w)
  PROVE  /\ w \in Threads /\ Types /\ Others(w) /\ pc[w] = "take" /\ pc'[w] = "confirm" /\ Leaves(w)
         /\ WaitersKeep(w) /\ QueuesStay
         /\ signals[my[w].slot] = my[w].seen
         /\ signals' = [signals EXCEPT ![my[w].slot] = @ - 1]
         /\ UNCHANGED <<sequence, start, sizes, word, my>>
         /\ HasTicket(w) /\ ~HasTicket(w)' /\ ~Blocked(w)'
  <1>0. w \in Threads /\ Types
    BY DEF Threads, Inv
  <1>1. /\ Others(w) /\ pc[w] = "take" /\ pc'[w] = "confirm" /\ Leaves(w)
        /\ signals[my[w].slot] = my[w].seen
        /\ signals' = [signals EXCEPT ![my[w].slot] = @ - 1]
        /\ UNCHANGED <<sequence, start, sizes, word, my>>
    BY TakeSignalDoes DEF Inv, Base, Takes
  <1>2. WaitersKeep(w) /\ QueuesStay
    <2>1. Goto(w, "confirm") /\ queue' = queue
      BY <1>1 DEF Takes, TakeSignal, Leaves
    <2>2. QED BY <1>0, <2>1, GotoKeeps DEF QueuesStay
  <1>3. HasTicket(w) /\ ~HasTicket(w)' /\ ~Blocked(w)'
    BY <1>1 DEF HasTicket, Blocked
  <1>4. QED BY <1>0, <1>1, <1>2, <1>3

(* the signal is its own group's,                                          *)
LEMMA TakesFrom ==
  ASSUME Inv, NEW w \in Waiters, Takes(w)
  PROVE  /\ my[w].slot \in Slots /\ my[w].position \in Nat /\ start \in Nat /\ word.size \in Nat
         /\ signals[my[w].slot] \in Nat \ {0}
         /\ my[w].position >= start =>
              ~Switching /\ my[w].slot = GroupOne /\ my[w].position < start + word.size
         /\ my[w].position < start /\ ~Switching => my[w].slot # GroupOne
  <1>1. /\ w \in Threads /\ pc[w] = "take" /\ HasTicket(w) /\ Types
        /\ signals[my[w].slot] = my[w].seen
    BY TakesDoes
  <1>2. PICK e \in 0 .. MaxTickets : BooksAt(e)
    BY EndIs DEF Inv
  <1>3. /\ my[w].position < e /\ my[w].seen >= 1
        /\ start <= my[w].position => start < my[w].seen /\ ~Switching
        /\ my[w].position < start /\ my[w].slot = Reused => my[w].seen < start
        /\ start <= my[w].position /\ my[w].position < e => my[w].slot = GroupOne
    BY <1>1, <1>2 DEF BooksAt, WaiterAt
  <1>4. /\ e \in Nat /\ (~Switching => e = start + word.size)
        /\ (~Switching => start <= signals[GroupOne])
    BY <1>2 DEF BooksAt, EndAt, SignalsAreAt
  <1>5. /\ my[w].slot \in Slots /\ my[w].position \in Nat /\ start \in Nat /\ word.size \in Nat
        /\ signals[my[w].slot] \in Nat
    BY <1>1, NumberFacts
  <1>6. ~Switching => Reused = GroupOne
    BY SwitchingIs DEF Reused
  <1>7. my[w].position >= start =>
          ~Switching /\ my[w].slot = GroupOne /\ my[w].position < start + word.size
    BY <1>3, <1>4, <1>5
  <1>8. my[w].position < start /\ ~Switching => my[w].slot # GroupOne
    BY <1>1, <1>3, <1>4, <1>5, <1>6
  <1>9. QED BY <1>1, <1>3, <1>5, <1>7, <1>8

(* or one that a closed group has to spare.                                *)
LEMMA TakesLaggards ==
  ASSUME Inv, Inv', WakeInv, NEW w \in Waiters, Takes(w)
  PROVE  Laggards'
  <1>1. /\ w \in Threads /\ Types /\ Types' /\ Others(w) /\ pc[w] = "take" /\ pc'[w] = "confirm"
        /\ WaitersKeep(w) /\ signals[my[w].slot] = my[w].seen
        /\ signals' = [signals EXCEPT ![my[w].slot] = @ - 1]
        /\ start' = start /\ sequence' = sequence /\ HasTicket(w) /\ ~HasTicket(w)'
    BY TakesDoes DEF Inv
  <1>2. SwitchStays
    BY <1>1, OtherSignalersStay DEF WakeInv, Small
  <1>3. (Switching' <=> Switching) /\ (Flipping' <=> Flipping) /\ GroupOne' = GroupOne
    BY <1>1, <1>2, SwitchSame DEF GroupOne
  <1>4. /\ LastSlot' = LastSlot /\ Reused' = Reused /\ LastSlot \in Slots /\ Reused \in Slots
        /\ LastSlot # Reused /\ \A slot \in Slots : slot = LastSlot \/ slot = Reused
        /\ ~Switching => Reused = GroupOne
    <2>1. Reused' = Reused /\ Reused \in Slots
      BY <1>1, <1>3, SlotFacts DEF Reused, Other
    <2>2. LastSlot' = LastSlot
      BY <2>1 DEF LastSlot, Other
    <2>3. /\ LastSlot \in Slots /\ LastSlot # Reused
          /\ \A slot \in Slots : slot = LastSlot \/ slot = Reused
      BY <2>1 DEF LastSlot, Other, Slots
    <2>4. QED BY <2>1, <2>2, <2>3, SwitchingIs DEF Reused
  <1>5. PICK b0 \in 0 .. MaxTickets, b \in 0 .. MaxTickets : LaggardsAt(b0, b)
    BY DEF WakeInv, Laggards
  <1>6. /\ b0 \in Nat /\ b \in Nat /\ b0 <= b /\ b <= start /\ start \in Nat
        /\ signals[LastSlot] >= b + Cardinality(Within(b, start))
        /\ Switching => signals[Reused] >= b0 + Cardinality(Within(b0, b))
    BY <1>1, <1>5, NumberFacts DEF LaggardsAt, BasesAt
  <1>7. /\ my[w].slot \in Slots /\ my[w].position \in Nat /\ signals[my[w].slot] \in Nat \ {0}
        /\ my[w].position >= start => ~Switching /\ my[w].slot = GroupOne
    BY TakesFrom
  <1>8. /\ b <= my[w].position /\ my[w].position < start => my[w].slot = LastSlot
        /\ Switching /\ b0 <= my[w].position /\ my[w].position < b => my[w].slot = Reused
        /\ my[w].slot = LastSlot /\ my[w].position < b => my[w].seen < b
        /\ Switching /\ my[w].slot = Reused /\ my[w].position < b0 => my[w].seen < b0
    BY <1>1, <1>5 DEF LaggardsAt, LaggardAt
  <1>9. /\ Within(b, start)' = Within(b, start) \ {w}
        /\ Within(b0, b)' = Within(b0, b) \ {w}
    <2>1. /\ Within(b, start)' = {v \in Waiters : HasTicket(v)' /\ b <= my'[v].position
                                                  /\ my'[v].position < start}
          /\ Within(b0, b)' = {v \in Waiters : HasTicket(v)' /\ b0 <= my'[v].position
                                               /\ my'[v].position < b}
      BY <1>1 DEF Within
    <2>2. QED BY <1>1, <2>1, WithinLeaves
  <1>10. /\ Cardinality(Within(b, start)') <= Cardinality(Within(b, start))
         /\ Cardinality(Within(b0, b)') <= Cardinality(Within(b0, b))
         /\ Cardinality(Within(b, start)') \in Nat /\ Cardinality(Within(b0, b)') \in Nat
         /\ Cardinality(Within(b, start)) \in Nat /\ Cardinality(Within(b0, b)) \in Nat
    <2>1. Within(b, start) \subseteq Waiters /\ Within(b0, b) \subseteq Waiters
      BY DEF Within
    <2>2. QED BY <1>9, <2>1, FewerCount, SetsFinite
  <1>11. signals'[LastSlot] >= b + Cardinality(Within(b, start)')
    <2>1. CASE my[w].slot # LastSlot
      <3>1. signals'[LastSlot] = signals[LastSlot] /\ signals[LastSlot] \in Nat
        BY <1>1, <1>4, <2>1 DEF Types
      <3>2. QED BY <3>1, <1>6, <1>10
    <2>2. CASE my[w].slot = LastSlot
      <3>1. signals'[LastSlot] = signals[LastSlot] - 1 /\ signals[LastSlot] \in Nat
        BY <1>1, <1>4, <1>7, <2>2 DEF Types
      <3>2. my[w].position < start
        BY <1>4, <1>6, <1>7, <2>2
      <3>3. b <= my[w].position
        BY <1>1, <1>6, <1>7, <1>8, <1>10, <2>2, <3>1
      <3>4. w \in Within(b, start)
        BY <1>1, <3>2, <3>3 DEF Within
      <3>5. Cardinality(Within(b, start)') = Cardinality(Within(b, start)) - 1
        <4>1. Within(b, start) \subseteq Waiters
          BY DEF Within
        <4>2. QED BY <4>1, <3>4, <1>9, OneFewer
      <3>6. QED BY <3>1, <3>5, <1>6, <1>10
    <2>3. QED BY <2>1, <2>2
  <1>12. Switching => signals'[Reused] >= b0 + Cardinality(Within(b0, b)')
    <2>0. SUFFICES ASSUME Switching PROVE signals'[Reused] >= b0 + Cardinality(Within(b0, b)')
      OBVIOUS
    <2>1. CASE my[w].slot # Reused
      <3>1. signals'[Reused] = signals[Reused] /\ signals[Reused] \in Nat
        BY <1>1, <1>4, <2>1 DEF Types
      <3>2. QED BY <2>0, <3>1, <1>6, <1>10
    <2>2. CASE my[w].slot = Reused
      <3>1. signals'[Reused] = signals[Reused] - 1 /\ signals[Reused] \in Nat
        BY <1>1, <1>4, <1>7, <2>2 DEF Types
      <3>2. my[w].position < b
        BY <2>0, <1>4, <1>6, <1>7, <1>8, <2>2
      <3>3. b0 <= my[w].position
        BY <2>0, <1>1, <1>6, <1>7, <1>8, <1>10, <2>2, <3>1
      <3>4. w \in Within(b0, b)
        BY <1>1, <3>2, <3>3 DEF Within
      <3>5. Cardinality(Within(b0, b)') = Cardinality(Within(b0, b)) - 1
        <4>1. Within(b0, b) \subseteq Waiters
          BY DEF Within
        <4>2. QED BY <4>1, <3>4, <1>9, OneFewer
      <3>6. QED BY <2>0, <3>1, <3>5, <1>6, <1>10
    <2>3. QED BY <2>1, <2>2
  <1>13. BasesAt(b0, b)'
    BY <1>1, <1>3, <1>4, <1>6, <1>11, <1>12 DEF BasesAt
  <1>14. ASSUME NEW v \in Waiters PROVE LaggardAt(v, b0, b)'
    <2>1. CASE v = w
      BY <2>1, <1>1 DEF LaggardAt
    <2>2. CASE v # w
      <3>1. LaggardAt(v, b0, b) /\ LaggardStays(v)
        BY <1>1, <1>5, <2>2, OthersStand, StandingLaggard DEF LaggardsAt
      <3>2. my[v].position \in Nat /\ my'[v].position \in Nat /\ my'[v].seen \in Nat
        BY <1>1 DEF Types, LocalType, Threads
      <3>3. QED BY <1>1, <1>3, <1>4, <1>6, <3>1, <3>2, LaggardKeeps
    <2>3. QED BY <2>1, <2>2
  <1>15. QED BY <1>13, <1>14 DEF LaggardsAt, Laggards

(* One member awake is gone with one signal,                               *)
LEMMA TakesDelivery ==
  ASSUME Inv, WakeInv, NEW w \in Waiters, Takes(w)
  PROVE  DeliveryOK'
  <1>1. /\ w \in Threads /\ Types /\ Others(w) /\ pc[w] = "take" /\ pc'[w] = "confirm"
        /\ WaitersKeep(w)
        /\ signals' = [signals EXCEPT ![my[w].slot] = @ - 1]
        /\ start' = start /\ sequence' = sequence /\ word' = word /\ my' = my /\ ~HasTicket(w)'
        /\ ~Blocked(w)'
    BY TakesDoes
  <1>2. SwitchStays /\ WakersStay
    BY <1>1, OtherSignalersStay DEF WakeInv, Small
  <1>3. /\ (Switching' <=> Switching) /\ GroupOne' = GroupOne /\ GroupOne \in Slots
        /\ \A slot \in Slots : Wakers(slot)' = Wakers(slot) /\ (Loud(slot)' <=> Loud(slot))
    BY <1>1, <1>2, SwitchSame, WakersSame, SlotFacts DEF GroupOne
  <1>4. /\ my[w].slot \in Slots /\ my[w].position \in Nat /\ start \in Nat /\ word.size \in Nat
        /\ signals[my[w].slot] \in Nat \ {0}
        /\ my[w].position >= start =>
             ~Switching /\ my[w].slot = GroupOne /\ my[w].position < start + word.size
        /\ my[w].position < start /\ ~Switching => my[w].slot # GroupOne
    BY TakesFrom
  <1>5. \A v \in Waiters : v # w
          => pc'[v] = pc[v] /\ (HasTicket(v)' <=> HasTicket(v)) /\ (Blocked(v)' <=> Blocked(v))
    BY <1>1, OthersStand DEF Stands
  <1>6. \A slot : ClosedParked(slot)' = ClosedParked(slot)
    <2>1. ASSUME NEW v \in Waiters PROVE pc'[v] = "parked" <=> pc[v] = "parked"
      BY <1>1, <1>5
    <2>2. QED BY <1>1, <2>1 DEF ClosedParked
  <1>7. ClosedParked(GroupOne)' = ClosedParked(GroupOne)
    <2>1. ASSUME NEW v \in Waiters PROVE pc'[v] = "parked" <=> pc[v] = "parked"
      BY <1>1, <1>5
    <2>2. QED BY <1>1, <1>3, <2>1 DEF ClosedParked
  <1>8. Wakers(GroupOne)' = Wakers(GroupOne) /\ (Loud(GroupOne)' <=> Loud(GroupOne))
    <2>1. /\ Wakers(GroupOne)' = {s \in Signalers : my'[s].slot = GroupOne'
                                                    /\ (my'[s].wake \/ pc'[s] = "wakeRest")}
          /\ Loud(GroupOne)'
               <=> \E s \in Signalers : my'[s].slot = GroupOne'
                 /\ (my'[s].wake \/ pc'[s] = "wakeRest") /\ my'[s].call = "broadcast"
      BY DEF Wakers, Loud, Wakes
    <2>2. ASSUME NEW slot \in Slots, slot = GroupOne
          PROVE  Wakers(GroupOne)' = Wakers(slot)' /\ (Loud(GroupOne)' <=> Loud(slot)')
      BY <1>3, <2>1, <2>2 DEF Wakers, Loud, Wakes
    <2>3. QED BY <1>3, <2>2
  <1>9. ASSUME NEW slot \in Slots PROVE Served(slot)'
    BY <1>3, <1>6, ServedKeeps DEF WakeInv, DeliveryOK
  <1>10. \A v \in Waiters : v # w => (IsMember(v)' <=> IsMember(v))
    BY <1>1, <1>5 DEF IsMember
  <1>11. Asleep' = Asleep /\ Awake' = Awake \ {w} /\ ~IsMember(w)'
    BY <1>1, <1>5, <1>10 DEF Asleep, Awake, IsMember
  <1>12. signals[GroupOne] \in Nat /\ signals'[GroupOne] \in Nat
    BY <1>1, <1>3, <1>4 DEF Types
  <1>13. signals'[GroupOne] = IF my[w].slot = GroupOne
                              THEN signals[GroupOne] - 1 ELSE signals[GroupOne]
    BY <1>1, <1>3, <1>4 DEF Types
  <1> DEFINE c == Cardinality(ClosedParked(GroupOne))
             a == Cardinality(Awake)
             b == Cardinality(Awake')
             n == Cardinality(Wakers(GroupOne))
  <1>14. c \in Nat /\ a \in Nat /\ b \in Nat /\ n \in Nat
    BY <1>11, CountsAreNat, SetsFinite DEF Awake
  <1>15. ~Switching => signals'[GroupOne] - b <= signals[GroupOne] - a
    <2>0. SUFFICES ASSUME ~Switching PROVE signals'[GroupOne] - b <= signals[GroupOne] - a
      OBVIOUS
    <2>1. CASE my[w].position >= start
      <3>1. w \in Awake
        BY <1>1, <1>4, <2>1 DEF Awake, IsMember, Blocked
      <3>2. Awake \subseteq Waiters
        BY DEF Awake
      <3>3. b = a - 1
        BY <1>11, <3>1, <3>2, OneFewer
      <3>4. signals'[GroupOne] = signals[GroupOne] - 1
        BY <1>4, <1>13, <2>1
      <3>5. QED BY <3>3, <3>4, <1>12, <1>14
    <2>2. CASE my[w].position < start
      <3>1. w \notin Awake
        BY <1>4, <2>2 DEF Awake, IsMember
      <3>2. Awake' = Awake
        BY <1>11, <3>1
      <3>3. signals'[GroupOne] = signals[GroupOne]
        BY <2>0, <1>4, <1>13, <2>2
      <3>4. QED BY <3>2, <3>3, <1>12, <1>14
    <2>3. QED BY <1>4, <2>1, <2>2
  <1>16. GroupServed'
    <2>0. SUFFICES ASSUME ~Switching', Asleep' # {}
                   PROVE  Loud(GroupOne)' \/ c + signals'[GroupOne] <= start + b + n
      BY <1>1, <1>3, <1>7, <1>8 DEF GroupServed
    <2>1. Loud(GroupOne) \/ c + signals[GroupOne] <= start + a + n
      BY <2>0, <1>3, <1>11 DEF WakeInv, DeliveryOK, GroupServed
    <2>2. signals'[GroupOne] - b <= signals[GroupOne] - a
      BY <2>0, <1>3, <1>15
    <2>3. ASSUME c + signals[GroupOne] <= start + a + n
          PROVE  c + signals'[GroupOne] <= start + b + n
      BY <2>2, <2>3, <1>4, <1>12, <1>14
    <2>4. QED BY <2>1, <2>3, <1>8
  <1>17. QED BY <1>9, <1>16 DEF DeliveryOK

(* and every other blocked thread counts one more wakeup.                  *)
LEMMA TakesCalled ==
  ASSUME Inv, Inv', WakeInv, NEW w \in Waiters, Takes(w)
  PROVE  CalledOK'
  <1>1. /\ w \in Threads /\ Types /\ Others(w) /\ pc[w] = "take" /\ pc'[w] = "confirm" /\ Leaves(w)
        /\ WaitersKeep(w) /\ HasTicket(w)
        /\ signals' = [signals EXCEPT ![my[w].slot] = @ - 1]
        /\ start' = start /\ sequence' = sequence /\ word' = word /\ my' = my /\ sizes' = sizes
        /\ ~HasTicket(w)' /\ ~Blocked(w)'
    BY TakesDoes
  <1>2. SwitchStays /\ PostsStay
    BY <1>1, OtherSignalersStay DEF WakeInv, Small
  <1>3. /\ (Switching' <=> Switching) /\ GroupOne' = GroupOne /\ GroupOne \in Slots
        /\ Posting' = Posting
    BY <1>1, <1>2, SwitchSame, PostingSame, SlotFacts DEF GroupOne
  <1>4. /\ my[w].slot \in Slots /\ my[w].position \in Nat /\ start \in Nat
        /\ signals[my[w].slot] \in Nat \ {0}
        /\ my[w].position >= start => ~Switching /\ my[w].slot = GroupOne
        /\ my[w].position < start /\ ~Switching => my[w].slot # GroupOne
    BY TakesFrom
  <1>5. Within(0, start)' = Within(0, start) \ {w}
    <2>1. Within(0, start)' = {v \in Waiters : HasTicket(v)' /\ 0 <= my'[v].position
                                               /\ my'[v].position < start}
      BY <1>1 DEF Within
    <2>2. QED BY <1>1, <2>1, WithinLeaves
  <1>6. signals[GroupOne] \in Nat
    BY <1>1, <1>3 DEF Types
  <1>7. signals'[GroupOne] = IF my[w].slot = GroupOne
                             THEN signals[GroupOne] - 1 ELSE signals[GroupOne]
    BY <1>1, <1>3, <1>4 DEF Types
  <1>8. Owed' >= Owed - 1
    <2>0. /\ Cardinality(Posting) \in Nat /\ Posted \in Nat /\ Cardinality(Within(0, start)) \in Nat
      BY CountsAreNat, OwedNotNegative
    <2>1. CASE my[w].position >= start
      <3>1. Within(0, start)' = Within(0, start)
        BY <1>4, <1>5, <2>1 DEF Within
      <3>2. Posted' = Posted - 1
        BY <1>1, <1>3, <1>4, <1>6, <1>7, <2>1 DEF Posted
      <3>3. QED BY <2>0, <3>1, <3>2, <1>3 DEF Owed
    <2>2. CASE my[w].position < start
      <3>1. Within(0, start) \subseteq Waiters /\ w \in Within(0, start)
        BY <1>1, <1>4, <2>2 DEF Within
      <3>2. Cardinality(Within(0, start)') = Cardinality(Within(0, start)) - 1
        BY <1>5, <3>1, OneFewer
      <3>3. Posted' = Posted
        BY <1>1, <1>3, <1>4, <1>6, <1>7, <2>2 DEF Posted
      <3>4. QED BY <2>0, <3>2, <3>3, <1>3 DEF Owed
    <2>3. QED BY <1>4, <2>1, <2>2
  <1>9. QED BY <1>1, <1>8, WaiterLeaves

(* So taking a signal keeps the invariant, and failing to is quiet.        *)
LEMMA TakeSignalDelivers ==
  ASSUME Inv, Inv', WakeInv, NEW w \in Waiters, TakeSignal(w)
  PROVE  Delivered'
  <1>1. pc'[w] = "confirm" \/ pc'[w] = "load"
    BY TakeSignalDoes DEF Inv
  <1>2. CASE pc'[w] = "load"
    <2>1. w \in Threads
      BY DEF Threads
    <2>2. QED BY <1>2, <2>1, TakeSignalQuiet, QuietKeeps DEF Delivered
  <1>3. CASE pc'[w] = "confirm"
    <2>1. Takes(w)
      BY <1>3 DEF Takes
    <2>2. OrderOK'
      <3>1. Others(w) /\ QueuesStay /\ start' = start /\ TicketsStay(w)
        BY <2>1, TakesDoes DEF TicketsStay
      <3>2. QED BY <3>1, WaiterOrder
    <2>3. QED BY <2>1, <2>2, TakesLaggards, TakesDelivery, TakesCalled DEF Delivered
  <1>4. QED BY <1>1, <1>2, <1>3

-----------------------------------------------------------------------------
(* ParkWaiter: who parks is of an open group, and finds no signal in it.   *)
Parks(w) == ParkWaiter(w) /\ pc'[w] = "parked"

(* A waiter that parks has read the signals as they are,                   *)
LEMMA ParksDoes ==
  ASSUME Inv, NEW w \in Waiters, Parks(w)
  PROVE  /\ w \in Threads /\ Types /\ Others(w) /\ pc[w] = "park" /\ pc'[w] = "parked"
         /\ WaitersKeep(w) /\ GroupsStay /\ SinceStays /\ my' = my /\ since' = since
         /\ HasTicket(w) /\ HasTicket(w)' /\ Blocked(w) /\ Blocked(w)'
         /\ Park(w, SignalsAt(my[w].slot)) /\ signals[my[w].slot] = my[w].seen
         /\ my[w].slot \in Slots /\ my[w].position \in Nat
  <1>0. w \in Threads /\ Types
    BY DEF Threads, Inv
  <1>1. /\ Others(w) /\ pc[w] = "park" /\ signals[my[w].slot] = my[w].seen
        /\ UNCHANGED <<sequence, start, sizes, word, signals, my, since>>
    BY ParkWaiterDoes DEF Inv, Base, Parks
  <1>2. Park(w, SignalsAt(my[w].slot))
    <2>1. ~Goto(w, "load")
      BY <1>0 DEF Goto, Parks, Types
    <2>2. QED BY <2>1 DEF Parks, ParkWaiter
  <1>3. WaitersKeep(w)
    BY <1>0, <1>2, GotoKeeps DEF Park
  <1>4. HasTicket(w) /\ HasTicket(w)' /\ Blocked(w) /\ Blocked(w)'
    BY <1>1 DEF HasTicket, Blocked, Parks
  <1>5. my[w].slot \in Slots /\ my[w].position \in Nat
    BY <1>0, NumberFacts
  <1>6. GroupsStay /\ SinceStays
    BY <1>1 DEF GroupsStay, SinceStays
  <1>7. QED BY <1>0, <1>1, <1>2, <1>3, <1>4, <1>5, <1>6 DEF Parks

(* so its group is open and has no signal left,                            *)
LEMMA ParksOpen ==
  ASSUME Inv, WakeInv, NEW w \in Waiters, Parks(w)
  PROVE  /\ my[w].position >= start /\ start \in Nat
         /\ IsMember(w) /\ ~Switching => my[w].slot = GroupOne /\ signals[GroupOne] <= start
  <1>1. /\ w \in Threads /\ Types /\ pc[w] = "park" /\ HasTicket(w)
        /\ signals[my[w].slot] = my[w].seen /\ my[w].slot \in Slots /\ my[w].position \in Nat
    BY ParksDoes
  <1>2. start \in Nat /\ my[w].seen \in Nat /\ GroupOne \in Slots
    BY <1>1, NumberFacts, SlotFacts
  <1>3. PICK b0 \in 0 .. MaxTickets, b \in 0 .. MaxTickets : LaggardsAt(b0, b)
    BY DEF WakeInv, Laggards
  <1>4. /\ b0 \in Nat /\ b \in Nat /\ b0 <= b /\ b <= start
        /\ signals[LastSlot] >= b + Cardinality(Within(b, start))
        /\ Switching => signals[Reused] >= b0 + Cardinality(Within(b0, b))
    BY <1>3 DEF LaggardsAt, BasesAt
  <1>5. /\ b <= my[w].position /\ my[w].position < start => my[w].slot = LastSlot
        /\ Switching /\ b0 <= my[w].position /\ my[w].position < b => my[w].slot = Reused
        /\ my[w].seen <= my[w].position /\ my[w].seen <= start
        /\ b <= my[w].position /\ my[w].position < start => my[w].seen <= b
        /\ Switching /\ b0 <= my[w].position /\ my[w].position < b => my[w].seen <= b0
    BY <1>1, <1>3 DEF LaggardsAt, LaggardAt
  <1>6. PICK e \in 0 .. MaxTickets : BooksAt(e)
    BY EndIs DEF Inv
  <1>7. /\ start <= my[w].position /\ my[w].position < e => my[w].slot = GroupOne
        /\ ~Switching => e = start + word.size
        /\ ~Switching => start <= signals[GroupOne]
    BY <1>1, <1>6 DEF BooksAt, EndAt, WaiterAt, SignalsAreAt
  <1>8. /\ IsFiniteSet(Within(b, start)) /\ IsFiniteSet(Within(b0, b))
        /\ Cardinality(Within(b, start)) \in Nat /\ Cardinality(Within(b0, b)) \in Nat
    BY SetsFinite DEF Within
  <1>9. \A S : IsFiniteSet(S) /\ w \in S => Cardinality(S) # 0
    BY FS_EmptySet
  <1>10. ASSUME my[w].position < start PROVE FALSE
    <2>1. CASE b <= my[w].position
      <3>1. w \in Within(b, start)
        BY <1>1, <1>10, <2>1 DEF Within
      <3>2. Cardinality(Within(b, start)) >= 1
        BY <1>8, <1>9, <3>1
      <3>3. my[w].seen <= b /\ my[w].seen >= b + 1
        BY <1>1, <1>2, <1>4, <1>5, <1>8, <1>10, <2>1, <3>2
      <3>4. QED BY <3>3, <1>2, <1>4
    <2>2. CASE my[w].position < b
      <3>1. signals[my[w].slot] <= my[w].position
        BY <1>1, <1>5
      <3>2. my[w].slot # LastSlot
        BY <1>1, <1>2, <1>4, <1>8, <2>2, <3>1
      <3>3. my[w].slot = Reused /\ (~Switching => Reused = GroupOne)
        BY <1>1, <3>2, SwitchingIs DEF LastSlot, Other, Reused, Slots, GroupOne, Types
      <3>4. Switching
        BY <1>1, <1>2, <1>7, <1>10, <3>1, <3>3
      <3>5. b0 <= my[w].position
        BY <1>1, <1>2, <1>4, <1>8, <3>1, <3>3, <3>4
      <3>6. w \in Within(b0, b)
        BY <1>1, <2>2, <3>5 DEF Within
      <3>7. Cardinality(Within(b0, b)) >= 1
        BY <1>8, <1>9, <3>6
      <3>8. QED BY <1>1, <1>2, <1>4, <1>5, <1>8, <2>2, <3>3, <3>4, <3>5, <3>7
    <2>3. QED BY <1>1, <1>4, <2>1, <2>2
  <1>11. my[w].position >= start
    BY <1>1, <1>2, <1>10
  <1>12. ASSUME IsMember(w), ~Switching PROVE my[w].slot = GroupOne /\ signals[GroupOne] <= start
    BY <1>1, <1>2, <1>5, <1>7, <1>12 DEF IsMember
  <1>13. QED BY <1>2, <1>11, <1>12

(* it stands behind everybody, as the kernel's queue is first in first     *)
(* out,                                                                    *)
LEMMA ParksOrder ==
  ASSUME FifoWake, Inv, WakeInv, NEW w \in Waiters, Parks(w)
  PROVE  OrderOK'
  <1>1. /\ w \in Threads /\ Types /\ Others(w) /\ pc[w] = "park" /\ my' = my /\ GroupsStay
        /\ Park(w, SignalsAt(my[w].slot)) /\ my[w].slot \in Slots /\ my[w].position \in Nat
    BY ParksDoes
  <1>2. my[w].position >= start /\ start \in Nat
    BY ParksOpen
  <1>3. start' = start /\ TicketsStay(w) /\ QueuesOK /\ LocalsOK /\ OrderOK
    BY <1>1 DEF GroupsStay, TicketsStay, Inv, WakeInv
  <1> DEFINE a == SignalsAt(my[w].slot)
             q == queue[a]
  <1>4. queue' = [queue EXCEPT ![a] = InsertAt(q, Len(q) + 1, w)]
    BY <1>1 DEF Park
  <1>5. a \in Addresses /\ q \in Seq(Threads) /\ queue \in [Addresses -> Seq(Threads)]
    <2>1. a \in Addresses
      BY DEF SignalsAt, Addresses
    <2>2. QED BY <1>1, <2>1 DEF Types
  <1>6. ASSUME NEW slot \in Slots
        PROVE  \/ queue'[SignalsAt(slot)] = queue[SignalsAt(slot)]
               \/ ClosedFirst(queue'[SignalsAt(slot)], my', start)
    <2>1. SignalsAt(slot) \in Addresses
      BY DEF SignalsAt, Addresses
    <2>2. CASE SignalsAt(slot) # a
      BY <1>4, <1>5, <2>1, <2>2
    <2>3. CASE SignalsAt(slot) = a
      <3>1. ClosedFirst(q, my, start)
        BY <1>1, <1>3 DEF OrderOK
      <3>2. ClosedFirst(InsertAt(q, Len(q) + 1, w), my, start)
        BY <3>1, <1>1, <1>2, <1>5, OrderAppend
      <3>3. QED BY <2>3, <3>2, <1>1, <1>4, <1>5
    <2>4. QED BY <2>2, <2>3
  <1>7. QED BY <1>1, <1>3, <1>6, OrderKeeps

(* and no wake is due to it.                                               *)
LEMMA ParksDelivery ==
  ASSUME Inv, WakeInv, NEW w \in Waiters, Parks(w)
  PROVE  DeliveryOK'
  <1>1. /\ w \in Threads /\ Types /\ Others(w) /\ pc[w] = "park" /\ pc'[w] = "parked" /\ my' = my
        /\ WaitersKeep(w) /\ GroupsStay /\ my[w].position \in Nat /\ Blocked(w) /\ Blocked(w)'
    BY ParksDoes
  <1>2. /\ start' = start /\ signals' = signals /\ word'.size = word.size
        /\ (Switching' <=> Switching) /\ GroupOne' = GroupOne /\ GroupOne \in Slots
        /\ \A slot \in Slots : Wakers(slot)' = Wakers(slot) /\ (Loud(slot)' <=> Loud(slot))
    BY <1>1, WaiterFacts, SlotFacts DEF GroupsStay
  <1>3. /\ my[w].position >= start /\ start \in Nat
        /\ IsMember(w) /\ ~Switching => my[w].slot = GroupOne /\ signals[GroupOne] <= start
    BY ParksOpen
  <1>4. \A v \in Waiters : v # w => pc'[v] = pc[v] /\ (Blocked(v)' <=> Blocked(v))
    BY <1>1, OthersStand DEF Stands
  <1>5. ASSUME NEW slot
        PROVE  {v \in Waiters : pc'[v] = "parked" /\ my'[v].position < start' /\ my'[v].slot = slot}
                 = ClosedParked(slot)
    BY <1>1, <1>2, <1>3, <1>4 DEF ClosedParked
  <1>6. \A slot \in Slots : ClosedParked(slot)' = ClosedParked(slot)
    BY <1>5 DEF ClosedParked
  <1>7. ClosedParked(GroupOne)' = ClosedParked(GroupOne)
    <2>1. ClosedParked(GroupOne)' = {v \in Waiters : pc'[v] = "parked" /\ my'[v].position < start'
                                                     /\ my'[v].slot = GroupOne'}
      BY DEF ClosedParked
    <2>2. QED BY <2>1, <1>5, <1>2
  <1>8. \A slot \in Slots : Served(slot)'
    BY <1>2, <1>6, ServedKeeps DEF WakeInv, DeliveryOK
  <1>9. \A v \in Waiters : IsMember(v)' <=> IsMember(v)
    BY <1>1, <1>2, <1>4 DEF IsMember
  <1>10. CASE ~IsMember(w)
    <2>1. Asleep' = Asleep /\ Awake' = Awake
      BY <1>1, <1>4, <1>9, <1>10 DEF Asleep, Awake
    <2>2. GroupServed'
      BY <1>1, <1>2, <1>7, <2>1, GroupKeeps DEF WakeInv, DeliveryOK
    <2>3. QED BY <2>2, <1>8 DEF DeliveryOK
  <1>11. CASE IsMember(w)
    <2>1. SUFFICES ASSUME ~Switching, ~Loud(GroupOne)'
                   PROVE  Cardinality(ClosedParked(GroupOne)') + signals'[GroupOne']
                            <= start' + Cardinality(Awake') + Cardinality(Wakers(GroupOne)')
      BY <1>2, <1>8 DEF DeliveryOK, GroupServed
    <2>2. \E slot \in Slots : slot = GroupOne /\ Loud(slot)' = Loud(GroupOne)'
            /\ Wakers(slot)' = Wakers(GroupOne)' /\ Served(slot)
      <3>1. /\ Wakers(GroupOne)' = {s \in Signalers : my'[s].slot = GroupOne'
                                                      /\ (my'[s].wake \/ pc'[s] = "wakeRest")}
            /\ Loud(GroupOne)' = \E s \in Signalers : my'[s].slot = GroupOne'
                 /\ (my'[s].wake \/ pc'[s] = "wakeRest") /\ my'[s].call = "broadcast"
        BY DEF Wakers, Loud, Wakes
      <3>2. QED BY <3>1, <1>2 DEF Wakers, Loud, Wakes, WakeInv, DeliveryOK
    <2>3. Cardinality(ClosedParked(GroupOne)) <= Cardinality(Wakers(GroupOne)')
      BY <2>1, <2>2, <1>2 DEF Served
    <2>4. /\ Cardinality(Wakers(GroupOne)') \in Nat /\ Cardinality(Awake') \in Nat
          /\ Cardinality(ClosedParked(GroupOne)) \in Nat
      BY SetsFinite DEF Wakers, Awake, ClosedParked
    <2>5. signals'[GroupOne'] <= start /\ signals'[GroupOne'] \in Nat
      BY <2>1, <1>1, <1>2, <1>3, <1>11, NumberFacts
    <2>6. QED BY <2>3, <2>4, <2>5, <1>2, <1>3, <1>7
  <1>12. QED BY <1>10, <1>11

(* So parking keeps the invariant, and not parking is quiet.               *)
LEMMA ParkWaiterDelivers ==
  ASSUME FifoWake, Inv, Inv', WakeInv, NEW w \in Waiters, ParkWaiter(w)
  PROVE  Delivered'
  <1>1. pc'[w] = "parked" \/ pc'[w] = "load"
    BY ParkWaiterDoes DEF Inv
  <1>2. CASE pc'[w] = "load"
    <2>1. w \in Threads
      BY DEF Threads
    <2>2. QED BY <1>2, <2>1, ParkWaiterQuiet, QuietKeeps DEF Delivered
  <1>3. CASE pc'[w] = "parked"
    <2>1. Parks(w)
      BY <1>3 DEF Parks
    <2>2. /\ Others(w) /\ pc[w] = "park" /\ pc'[w] = "parked" /\ WaitersKeep(w) /\ GroupsStay
          /\ SinceStays /\ my' = my /\ since' = since /\ HasTicket(w) /\ HasTicket(w)'
          /\ Blocked(w) /\ Blocked(w)'
      BY <2>1, ParksDoes
    <2>3. LaggardStays(w)
      BY <2>2 DEF LaggardStays
    <2>4. CalledStays(w)
      BY <2>2, StaysCalled
    <2>5. Laggards' /\ CalledOK'
      BY <2>2, <2>3, <2>4, WaiterLaggards, WaiterCalled
    <2>6. QED BY <2>1, <2>5, ParksOrder, ParksDelivery DEF Delivered
  <1>4. QED BY <1>1, <1>2, <1>3

(* A waiter whose sleep is interrupted.                                    *)
LEMMA InterruptedWaiterDelivers ==
  ASSUME Inv, Inv', WakeInv, NEW w \in Waiters, Interrupted(w)
  PROVE  Delivered'
  <1>0. w \in Threads /\ Types /\ QueuesOK /\ LocalsOK /\ OrderOK
    BY DEF Threads, Inv, WakeInv
  <1>1. /\ Others(w) /\ pc[w] = "parked" /\ pc'[w] = "load"
        /\ UNCHANGED <<sequence, start, sizes, word, signals, my, since>>
    BY InterruptWaiterDoes DEF Inv, Base
  <1>2. GroupsStay /\ SinceStays
    BY <1>1 DEF GroupsStay, SinceStays
  <1>3. \E a \in Addresses, i \in Nat :
          /\ i \in 1 .. Len(queue[a])
          /\ queue' = [queue EXCEPT ![a] = RemoveAt(@, i)]
          /\ \E l : Goto(w, l)
    <2>1. \A a \in Addresses : 1 .. Len(queue[a]) \subseteq Nat
      OBVIOUS
    <2>2. QED BY <2>1 DEF Interrupted
  <1>4. WaitersKeep(w)
    BY <1>0, <1>3, GotoKeeps
  <1>5. HasTicket(w) /\ HasTicket(w)' /\ Blocked(w) /\ Blocked(w)'
    BY <1>1 DEF HasTicket, Blocked
  <1>6. LaggardStays(w) /\ TicketsStay(w) /\ CalledStays(w)
    BY <1>1, <1>2, <1>5, StaysCalled DEF LaggardStays, TicketsStay
  <1>7. Laggards' /\ CalledOK'
    BY <1>1, <1>2, <1>4, <1>5, <1>6, WaiterLaggards, WaiterCalled
  <1>8. DeliveryOK'
    <2>1. pc[w] # "parked" => IsMember(w)'
      BY <1>1
    <2>2. pc'[w] # "parked"
      BY <1>1
    <2>3. QED BY <1>1, <1>2, <1>4, <2>1, <2>2, WaiterDelivery
  <1>9. OrderOK'
    <2>1. PICK a \in Addresses, i \in Nat :
            i \in 1 .. Len(queue[a]) /\ queue' = [queue EXCEPT ![a] = RemoveAt(@, i)]
      BY <1>3
    <2>2. ASSUME NEW slot \in Slots
          PROVE  \/ queue'[SignalsAt(slot)] = queue[SignalsAt(slot)]
                 \/ ClosedFirst(queue'[SignalsAt(slot)], my', start)
      <3>1. SignalsAt(slot) \in Addresses /\ queue[SignalsAt(slot)] \in Seq(Threads)
        BY <1>0 DEF SignalsAt, Addresses, Types
      <3>2. CASE SignalsAt(slot) # a
        BY <1>0, <2>1, <3>1, <3>2 DEF Types
      <3>3. CASE SignalsAt(slot) = a
        <4>1. queue'[a] = RemoveAt(queue[a], i)
          BY <1>0, <2>1 DEF Types
        <4>2. ClosedFirst(queue[a], my, start)
          BY <1>0, <3>3 DEF OrderOK
        <4>3. ClosedFirst(RemoveAt(queue[a], i), my, start)
          BY <4>2, <2>1, <3>1, <3>3, OrderRemove
        <4>4. QED BY <4>1, <4>3, <3>3, <1>1
      <3>4. QED BY <3>2, <3>3
    <2>3. QED BY <1>0, <1>1, <1>6, <2>2, OrderKeeps
  <1>10. QED BY <1>7, <1>8, <1>9 DEF Delivered

-----------------------------------------------------------------------------
(* What a signaler's step leaves the waiters, and what the lock's holder   *)
(* leaves the other signalers.                                             *)
LEMMA SignalerFacts ==
  ASSUME NEW s \in Signalers, Others(s)
  PROVE  /\ s \in Threads /\ s \notin Waiters /\ TicketsStay(s)
         /\ \A w \in Waiters : /\ my'[w] = my[w]
                               /\ HasTicket(w)' <=> HasTicket(w)
                               /\ Blocked(w)' <=> Blocked(w)
                               /\ pc'[w] = "parked" => pc[w] = "parked"
                               /\ LaggardStays(w)
         /\ WaitersKeep(s) => WaitersStand
  <1>1. s \in Threads /\ s \notin Waiters
    BY CondAssumption DEF Threads
  <1>2. ASSUME NEW w \in Waiters
        PROVE  /\ my'[w] = my[w]
               /\ HasTicket(w)' <=> HasTicket(w)
               /\ Blocked(w)' <=> Blocked(w)
               /\ pc'[w] = "parked" => pc[w] = "parked"
               /\ pc'[w] \in {"take", "park"} => pc'[w] = pc[w]
               /\ pc'[w] = pc[w] => Stands(w)
    BY <1>1, OtherStands
  <1>3. \A w \in Waiters : LaggardStays(w)
    BY <1>2 DEF LaggardStays
  <1>4. WaitersKeep(s) => WaitersStand
    BY <1>1, <1>2 DEF WaitersKeep, WaitersStand
  <1>5. TicketsStay(s)
    BY <1>1 DEF TicketsStay
  <1>6. QED BY <1>1, <1>2, <1>3, <1>4, <1>5

(* A broadcast of another signaler stays on its way when the holder of the *)
(* lock steps,                                                             *)
LEMMA HeldReaches ==
  ASSUME Inv, NEW s \in Signalers, Others(s), NEW u \in Signalers, u # s, NEW w \in Waiters,
         pc[s] \in LockedPlaces \/ start' + word'.size = start + word.size, Reaches(u, w)
  PROVE  Reaches(u, w)'
  <1>1. s \in Threads /\ my'[w] = my[w]
    BY SignalerFacts
  <1>2. pc[s] \in LockedPlaces => pc[u] # "post"
    BY DEF Inv, LockOK, LockedPlaces
  <1>3. QED BY <1>1, <1>2, OtherReaches

(* so of a signaler's step only its own broadcast is left to show.         *)
LEMMA SignalerCalled ==
  ASSUME Inv, Inv', WakeInv, NEW s \in Signalers, Others(s), SinceStays, Owed' >= Owed,
         pc[s] \in LockedPlaces \/ start' + word'.size = start + word.size,
         \A w \in Waiters : Blocked(w) =>
            \/ Certain(w)'
            \/ (Certain(w) => Certain(w)') /\ (Reaches(s, w) => Reaches(s, w)')
  PROVE  CalledOK'
  <1>1. Types /\ Types' /\ CalledOK
    BY DEF Inv, WakeInv
  <1>2. ASSUME NEW w \in Waiters PROVE CalledStays(w)
    <2>1. Blocked(w)' <=> Blocked(w)
      BY SignalerFacts
    <2>2. Blocked(w) => Certain(w)' \/ \A u \in Signalers : Reaches(u, w) => Reaches(u, w)'
      BY HeldReaches
    <2>3. QED BY <2>1, <2>2 DEF CalledStays, SinceStays
  <1>3. (Owed \in Nat)'
    BY OwedNotNegative, PTL
  <1>4. Owed' >= 0
    BY <1>3
  <1>5. QED BY <1>1, <1>2, <1>4, CalledKeeps

(* Begin: a signal that is called is counted with those being posted, a    *)
(* broadcast has still to reach everybody.                                 *)
LEMMA BeginDelivers ==
  ASSUME Inv, Inv', WakeInv, NEW s \in Signalers, NEW kind \in {"signal", "broadcast"},
         Begin(s, kind)
  PROVE  Delivered'
  <1>1. /\ Others(s) /\ pc[s] = "out" /\ Types /\ Types' /\ CalledOK /\ CallAt(s) /\ LocalAt(s)
        /\ \/ refs.waiters = 0 /\ pc'[s] = "out" /\ my' = my
           \/ refs.waiters # 0 /\ pc'[s] = "lock" /\ my'[s] = [Idle EXCEPT !.call = kind]
        /\ UNCHANGED <<sequence, start, sizes, word, signals>>
    BY BeginDoes DEF Inv, Base, WakeInv, Small, CallOK, LocalsOK, Threads
  <1>2. s \in Threads /\ GroupsStay
    BY <1>1 DEF GroupsStay, Threads
  <1>3. WaitersKeep(s) /\ QueuesStay
    <2>1. queue' = queue /\ (pc' = pc \/ Goto(s, "lock"))
      BY DEF Begin
    <2>2. QED BY <1>1, <1>2, <2>1, GotoKeeps DEF QueuesStay, WaitersKeep
  <1>4. ~my[s].wake /\ ~my'[s].wake
    BY <1>1, IdleFacts DEF LocalAt
  <1>5. StaysWaker(s)
    BY <1>1, <1>4 DEF StaysWaker, Wakes
  <1>6. WaitersStand /\ WakersStay /\ SwitchStays
    BY <1>1, <1>3, <1>5, SignalerFacts, SignalersStay DEF WakeInv, Small
  <1>7. Laggards' /\ OrderOK' /\ DeliveryOK'
    BY <1>1, <1>2, <1>3, <1>6, StillKeeps
  <1>8. CASE refs.waiters = 0
    <2>1. \A w \in Waiters : ~Blocked(w)
      <3>1. Cardinality(Registered) = 0 /\ IsFiniteSet(Registered)
        BY <1>8, RegisteredIsFinite DEF Inv, RefsOK
      <3>2. Registered = {}
        BY <3>1, FS_EmptySet
      <3>3. QED BY <3>2 DEF Registered
    <2>2. \A w \in Waiters : ~Blocked(w)'
      BY <2>1, <1>1, SignalerFacts
    <2>3. CalledOK'
      BY <2>2 DEF CalledOK, CalledAt
    <2>4. QED BY <1>7, <2>3 DEF Delivered
  <1>9. CASE refs.waiters # 0
    <2>1. pc'[s] = "lock" /\ my'[s].call = kind
      BY <1>1, <1>9, IdleFacts
    <2>2. ~Posts(s) /\ (Posts(s)' <=> kind = "signal")
      BY <1>1, <2>1 DEF Posts
    <2>3. \A u \in Signalers : u # s => (Posts(u)' <=> Posts(u))
      BY <1>1, <1>2, OtherSignaler DEF WakeInv, Small
    <2>4. Posting' = (IF kind = "signal" THEN Posting \cup {s} ELSE Posting) /\ s \notin Posting
      BY <2>2, <2>3 DEF Posting
    <2>5. /\ Cardinality(Posting') = Cardinality(Posting) + (IF kind = "signal" THEN 1 ELSE 0)
          /\ Cardinality(Posting) \in Nat
      <3>1. Posting \subseteq Signalers
        BY DEF Posting
      <3>2. CASE kind = "signal"
        BY <2>4, <3>1, <3>2, OneMore
      <3>3. CASE kind # "signal"
        BY <2>4, <3>3, CountsAreNat
      <3>4. QED BY <3>2, <3>3
    <2>6. Within(0, start)' = Within(0, start) /\ Posted' = Posted
      <3>1. Within(0, start)' = {w \in Waiters : HasTicket(w)' /\ 0 <= my'[w].position
                                                 /\ my'[w].position < start}
        BY <1>1 DEF Within
      <3>2. QED BY <3>1, <1>1, <1>6, WithinSame, SwitchSame DEF Posted, GroupOne
    <2>7. Owed \in Nat /\ Owed' = Owed + (IF kind = "signal" THEN 1 ELSE 0)
      <3>1. Posted \in Nat /\ Cardinality(Within(0, start)) \in Nat /\ Owed \in Nat
        BY OwedNotNegative, CountsAreNat
      <3>2. QED BY <3>1, <2>5, <2>6 DEF Owed
    <2>8. ASSUME NEW w \in Waiters, Blocked(w)', ~Certain(w)'
          PROVE  /\ since'[w].signals <= since'[w].wakes + Owed'
                 /\ since'[w].broadcast => \E u \in Signalers : Reaches(u, w)'
      <3>1. Blocked(w) /\ my'[w] = my[w]
        BY <1>1, <2>8, SignalerFacts
      <3>2. ~Certain(w)
        BY <1>2, <1>6, <2>8, <3>1, CertainSame
      <3>3. /\ since[w].signals <= since[w].wakes + Owed
            /\ since[w].broadcast => \E u \in Signalers : Reaches(u, w)
        BY <1>1, <3>1, <3>2 DEF CalledOK, CalledAt
      <3>4. since'[w] = [since[w] EXCEPT !.roused = @ \/ HasTicket(w),
                               !.signals = IF Blocked(w) /\ kind = "signal" THEN @ + 1 ELSE @,
                               !.broadcast = @ \/ (Blocked(w) /\ kind = "broadcast")]
        BY DEF Begin
      <3>5. since[w] \in SinceType
        BY <1>1 DEF Types
      <3>6. /\ since'[w].signals = since[w].signals + (IF kind = "signal" THEN 1 ELSE 0)
            /\ since'[w].wakes = since[w].wakes
        BY <3>1, <3>4, <3>5 DEF SinceType
      <3>7. since'[w].broadcast => since[w].broadcast \/ kind = "broadcast"
        BY <3>1, <3>4, <3>5 DEF SinceType
      <3>8. since[w].signals \in Nat /\ since[w].wakes \in Nat
        BY <3>5 DEF SinceType
      <3>9. since'[w].signals <= since'[w].wakes + Owed'
        BY <3>3, <3>6, <3>8, <2>7
      <3>10. kind = "broadcast" => Reaches(s, w)'
        BY <2>1 DEF Reaches
      <3>11. ASSUME NEW u \in Signalers, Reaches(u, w) PROVE Reaches(u, w)'
        <4>1. u # s
          BY <1>1, <3>11 DEF Reaches
        <4>2. QED BY <4>1, <3>11, <1>1, HeldReaches
      <3>12. QED BY <3>3, <3>7, <3>9, <3>10, <3>11
    <2>9. ASSUME NEW w \in Waiters PROVE CalledAt(w)'
      BY <2>8 DEF CalledAt
    <2>10. CalledOK'
      BY <2>9 DEF CalledOK
    <2>11. QED BY <1>7, <2>10 DEF Delivered
  <1>10. QED BY <1>8, <1>9

-----------------------------------------------------------------------------
(* When group one has all its signals and group two nobody, everyone has.  *)
LEMMA NobodyWaits ==
  ASSUME Inv, NEW s \in Signalers, pc[s] \in LockedPlaces \ {"flip", "open"}, sizes[GroupOne] = 0,
         NEW n \in Nat, n = start + word.size
  PROVE  \A w \in Waiters : HasTicket(w) /\ my[w].position < n => Certain(w)
  <1>1. ~Switching /\ start \in Nat /\ word.size \in Nat
    BY NobodySwitches, NumberFacts DEF Inv
  <1>2. QED BY <1>1 DEF Certain

(* Every ticket is below the next.                                         *)
LEMMA TicketsBelow ==
  ASSUME Inv
  PROVE  \A w \in Waiters : HasTicket(w) =>
           my[w].position \in Nat /\ my[w].position < sequence.ticket
  <1>1. PICK e \in 0 .. MaxTickets : BooksAt(e)
    BY EndIs DEF Inv
  <1>2. \A w \in Waiters : my[w].position \in Nat
    BY NumberFacts DEF Inv, Threads
  <1>3. QED BY <1>1, <1>2 DEF BooksAt, WaiterAt

(* The steps of the signaler that holds the lock: it observes the groups,  *)
LEMMA ObserveDelivers ==
  ASSUME Inv, Inv', WakeInv, NEW s \in Signalers, Observe(s)
  PROVE  Delivered'
  <1>1. /\ Others(s) /\ pc[s] = "observe" /\ Types /\ Types' /\ CallAt(s) /\ LocalAt(s)
        /\ my'[s] = [my[s] EXCEPT !.slot = GroupOne, !.position = sequence.ticket, !.seen = 0]
        /\ \/ /\ sizes[GroupOne] # 0 /\
                    pc'[s] = IF my[s].call = "signal" THEN "post" ELSE "postRest"
           \/ /\ sizes[GroupOne] = 0
              /\ pc'[s] = IF NothingToInherit(sequence.ticket, GroupOne) THEN "unlock" ELSE "close"
        /\ UNCHANGED <<sequence, start, sizes, word, signals, since>>
    BY ObserveDoes DEF Inv, Base, WakeInv, Small, CallOK, LocalsOK, Threads
  <1>2. s \in Threads /\ GroupsStay /\ SinceStays
    BY <1>1 DEF GroupsStay, SinceStays, Threads
  <1>3. WaitersKeep(s) /\ QueuesStay
    <2>1. queue' = queue /\ \E l : Goto(s, l)
      BY DEF Observe, SwitchOrUnlock
    <2>2. QED BY <1>1, <1>2, <2>1, GotoKeeps DEF QueuesStay
  <1>4. my'[s].wake = my[s].wake /\ my'[s].call = my[s].call /\ my'[s].position = sequence.ticket
    <2>1. my'[s].wake = my[s].wake /\ my'[s].call = my[s].call
      BY SameCall
    <2>2. my[s] \in LocalType
      BY <1>1, <1>2 DEF Types
    <2>3. QED BY <1>1, <2>1, <2>2 DEF LocalType
  <1>5. ~my[s].wake /\ pc'[s] \in {"post", "postRest", "unlock", "close"}
        /\ my[s].call \in {"signal", "broadcast"}
    <2>1. my[s].call \in {"none", "signal", "broadcast"} /\ my[s].call # "none"
      BY <1>1, <1>2 DEF Types, LocalType, LocalAt, LockedPlaces
    <2>2. QED BY <1>1, <2>1 DEF CallAt
  <1>6. WaitersStand /\ WakersStay /\ SwitchStays
    <2>1. StaysWaker(s)
      BY <1>1, <1>4, <1>5 DEF StaysWaker, Wakes
    <2>2. QED BY <1>1, <1>3, <1>5, <2>1, SignalerFacts, SignalersStay DEF WakeInv, Small
  <1>7. Laggards' /\ OrderOK' /\ DeliveryOK'
    BY <1>1, <1>2, <1>3, <1>6, StillKeeps
  <1>8. \A w \in Waiters : (Blocked(w)' <=> Blocked(w)) /\ (Certain(w)' <=> Certain(w))
    <2>1. \A w \in Waiters : (Blocked(w)' <=> Blocked(w)) /\ my'[w] = my[w]
      BY <1>1, SignalerFacts
    <2>2. QED BY <1>2, <1>6, <2>1, CertainSame
  <1>9. CASE pc'[s] = "unlock"
    <2>1. sizes[GroupOne] = 0 /\ NothingToInherit(sequence.ticket, GroupOne)
      BY <1>1, <1>9
    <2>2. sequence.ticket = start + word.size
      <3>1. /\ sizes[Other(GroupOne)] = 0 /\ start \in Nat /\ word.size \in Nat
            /\ sequence.ticket \in Nat
        BY <1>1, NobodySwitches, GroupsAre, NumberFacts DEF Inv, LockedPlaces
      <3>2. QED BY <2>1, <3>1 DEF NothingToInherit
    <2>3. ASSUME NEW w \in Waiters, Blocked(w)' PROVE Certain(w)'
      <3>1. HasTicket(w) /\ my[w].position < sequence.ticket
        BY <1>8, <2>3, TicketsBelow DEF HasTicket
      <3>2. Certain(w)
        BY <1>1, <2>1, <2>2, <3>1, NobodyWaits, NumberFacts DEF LockedPlaces
      <3>3. QED BY <3>2, <1>8
    <2>4. CalledOK'
      BY <2>3 DEF CalledOK, CalledAt
    <2>5. QED BY <1>7, <2>4 DEF Delivered
  <1>10. CASE pc'[s] # "unlock"
    <2>1. Posts(s)' <=> Posts(s)
      BY <1>1, <1>4, <1>5, <1>10 DEF Posts
    <2>2. Owed' = Owed /\ Owed \in Nat
      <3>1. PostsStay
        BY <1>1, <2>1, SignalersStay DEF WakeInv, Small
      <3>2. QED BY <1>1, <1>6, <3>1, OwedSame, OwedNotNegative
    <2>3. ASSUME NEW w \in Waiters, Blocked(w), Reaches(s, w) PROVE Reaches(s, w)'
      <3>1. my'[w].position < my'[s].position
        <4>1. HasTicket(w) /\ my'[w] = my[w]
          BY <1>1, <2>3, SignalerFacts DEF HasTicket
        <4>2. QED BY <4>1, <1>4, TicketsBelow
      <3>2. my[s].call = "broadcast" /\ pc'[s] \in {"postRest", "close"}
        BY <1>1, <1>10, <2>3 DEF Reaches
      <3>3. QED BY <3>1, <3>2, <1>4 DEF Reaches
    <2>4. CalledOK'
      <3>1. pc[s] \in LockedPlaces /\ Owed' >= Owed
        BY <1>1, <2>2 DEF LockedPlaces
      <3>2. QED BY <1>1, <1>2, <1>8, <2>3, <3>1, SignalerCalled
    <2>5. QED BY <1>7, <2>4 DEF Delivered
  <1>11. QED BY <1>9, <1>10

-----------------------------------------------------------------------------
(* The slots over a step of the lock's holder.                             *)
LEMMA HolderSlots ==
  ASSUME Inv, NEW s \in Signalers,
         pc[s] \in {"post", "postRest", "wakeRest", "close", "flip", "open"}
  PROVE  /\ my[s].slot = GroupOne /\ GroupOne \in Slots /\ Other(GroupOne) \in Slots
         /\ Types /\ LocalAt(s) /\ HolderAt(s) /\ my[s] \in LocalType /\ s \in Threads
         /\ start \in Nat /\ word.size \in Nat /\ sequence.ticket \in Nat
         /\ signals[GroupOne] \in Nat /\ sizes[GroupOne] \in Nat
         /\ my[s].call \in {"signal", "broadcast"}
         /\ pc[s] \in LockedPlaces
         /\ Flipping <=> pc[s] = "flip"
         /\ Opening <=> pc[s] = "open"
         /\ Switching <=> pc[s] \in {"flip", "open"}
         /\ Reused = IF pc[s] = "flip" THEN Other(GroupOne) ELSE GroupOne
         /\ LastSlot = IF pc[s] = "flip" THEN GroupOne ELSE Other(GroupOne)
         /\ \A slot \in Slots : slot = GroupOne \/ slot = Other(GroupOne)
         /\ GroupOne # Other(GroupOne)
  <1>1. s \in Threads /\ Types /\ LocalAt(s) /\ HolderAt(s) /\ LockOK
    BY DEF Inv, LocalsOK, HolderOK, Threads
  <1>2. /\ my[s].slot = GroupOne /\ my[s] \in LocalType
        /\ GroupOne \in Slots /\ Other(GroupOne) \in Slots /\ GroupOne # Other(GroupOne)
        /\ \A slot \in Slots : slot = GroupOne \/ slot = Other(GroupOne)
        /\ \A slot \in Slots : Other(Other(slot)) = slot
    BY <1>1, SlotFacts, NumberFacts DEF HolderAt
  <1>3. /\ start \in Nat /\ word.size \in Nat /\ sequence.ticket \in Nat
        /\ signals[GroupOne] \in Nat /\ sizes[GroupOne] \in Nat
    BY <1>1, <1>2, NumberFacts
  <1>4. pc[s] \in LockedPlaces /\ my[s].call \in {"signal", "broadcast"}
    BY <1>1, <1>2 DEF LockedPlaces, LocalAt, LocalType
  <1>5. \A u \in Signalers : u # s => pc[u] \notin {"flip", "open"}
    BY <1>1, <1>4 DEF LockOK, LockedPlaces
  <1>6. /\ Flipping <=> pc[s] = "flip"
        /\ Opening <=> pc[s] = "open"
        /\ Switching <=> pc[s] \in {"flip", "open"}
    BY <1>5 DEF Flipping, Opening, Switching
  <1>7. Reused = IF pc[s] = "flip" THEN Other(GroupOne) ELSE GroupOne
    BY <1>6 DEF Reused
  <1>8. LastSlot = IF pc[s] = "flip" THEN GroupOne ELSE Other(GroupOne)
    BY <1>2, <1>7 DEF LastSlot
  <1>9. QED BY <1>1, <1>2, <1>3, <1>4, <1>6, <1>7, <1>8

(* The slots after it.                                                     *)
LEMMA HolderSlotsAfter ==
  ASSUME Inv, Inv', NEW s \in Signalers, Others(s), pc[s] \in LockedPlaces
  PROVE  /\ Flipping' <=> pc'[s] = "flip"
         /\ Switching' <=> pc'[s] \in {"flip", "open"}
         /\ Reused' = IF pc'[s] = "flip" THEN Other(GroupOne') ELSE GroupOne'
         /\ LastSlot' = IF pc'[s] = "flip" THEN GroupOne' ELSE Other(GroupOne')
  <1>1. /\ Flipping' <=> pc'[s] = "flip"
        /\ Switching' <=> pc'[s] \in {"flip", "open"}
    BY SwitchIs DEF Inv
  <1>2. (Types)'
    BY DEF Inv
  <1>3. (\A slot \in Slots : Other(Other(slot)) = slot)' /\ GroupOne' \in Slots
    BY <1>2, SlotFacts DEF Slots, Other, GroupOne, Types
  <1>4. Reused' = IF pc'[s] = "flip" THEN Other(GroupOne') ELSE GroupOne'
    BY <1>1 DEF Reused, Other
  <1>5. LastSlot' = Other(Reused')
    BY DEF LastSlot, Other
  <1>6. QED BY <1>1, <1>3, <1>4, <1>5

(* Wakers of the holder's step: the others stay.                           *)
LEMMA OtherWakersStay ==
  ASSUME WakeInv, NEW s \in Signalers, Others(s), NEW slot \in Slots
  PROVE  /\ Wakers(slot)' \ {s} = Wakers(slot) \ {s}
         /\ (\E u \in Signalers : u # s /\ Wakes(u, slot) /\ my[u].call = "broadcast")
              => Loud(slot)'
         /\ Loud(slot)' => \/ Wakes(s, slot)' /\ my'[s].call = "broadcast"
                           \/ \E u \in Signalers : u # s /\ Wakes(u, slot)
                                /\ my[u].call = "broadcast"
  <1>1. s \in Threads
    BY DEF Threads
  <1>2. \A u \in Signalers : u # s => my'[u] = my[u] /\ (Wakes(u, slot)' <=> Wakes(u, slot))
    BY <1>1, OtherSignaler DEF StaysWaker, WakeInv, Small
  <1>3. QED BY <1>2 DEF Wakers, Loud

-----------------------------------------------------------------------------
(* The wakes of group one's slot, after a step.                            *)
LEMMA GroupServedAt ==
  ASSUME NEW g \in Slots, GroupOne' = g,
         ~Switching' /\ Asleep' # {} =>
           \/ Loud(g)'
           \/ Cardinality(ClosedParked(g)') + signals'[g]
                <= start' + Cardinality(Awake') + Cardinality(Wakers(g)')
  PROVE  GroupServed'
  <1>1. /\ Loud(GroupOne)' <=> Loud(g)'
        /\ Wakers(GroupOne)' = Wakers(g)'
        /\ ClosedParked(GroupOne)' = ClosedParked(g)'
    BY DEF Loud, Wakers, Wakes, ClosedParked
  <1>2. QED BY <1>1 DEF GroupServed

(* and what GroupServed says of that slot before the step.                 *)
LEMMA GroupServedWas ==
  ASSUME NEW g \in Slots, g = GroupOne, GroupServed, ~Switching, Asleep # {}
  PROVE  \/ Loud(g)
         \/ Cardinality(ClosedParked(g)) + signals[g]
              <= start + Cardinality(Awake) + Cardinality(Wakers(g))
  BY DEF GroupServed

(* What a signaler's step that wakes nobody leaves of the queues,          *)
LEMMA SignalerOrder ==
  ASSUME Inv, WakeInv, NEW s \in Signalers, Others(s), QueuesStay, start' = start
  PROVE  OrderOK'
  <1>1. s \in Threads /\ Types /\ QueuesOK /\ LocalsOK /\ OrderOK /\ TicketsStay(s)
    BY SignalerFacts DEF Inv, WakeInv
  <1>2. QED BY <1>1, OrderKeeps DEF QueuesStay

(* of the sleepers of the closed groups,                                   *)
LEMMA SignalerClosed ==
  ASSUME NEW s \in Signalers, Others(s), WaitersKeep(s), start' = start
  PROVE  \A slot : ClosedParked(slot)' = ClosedParked(slot)
  BY SignalerFacts, ClosedSame

(* of the members of group one,                                            *)
LEMMA SignalerMembers ==
  ASSUME NEW s \in Signalers, Others(s), WaitersKeep(s), start' = start, word'.size = word.size
  PROVE  Awake' = Awake /\ Asleep' = Asleep
  BY SignalerFacts, MembersSame

(* and of the tickets.                                                     *)
LEMMA SignalerWithin ==
  ASSUME NEW s \in Signalers, Others(s), NEW lo, NEW hi
  PROVE  {w \in Waiters : HasTicket(w)' /\ lo <= my'[w].position /\ my'[w].position < hi}
           = Within(lo, hi)
  BY SignalerFacts DEF Within

(* The wakes of a slot that s neither begins nor ends.                     *)
LEMMA SlotWakers ==
  ASSUME WakeInv, NEW s \in Signalers, Others(s), NEW slot \in Slots, ~Wakes(s, slot),
         ~Wakes(s, slot)'
  PROVE  Wakers(slot)' = Wakers(slot) /\ (Loud(slot)' <=> Loud(slot))
  <1>1. Wakers(slot)' \ {s} = Wakers(slot) \ {s}
    BY OtherWakersStay
  <1>2. s \notin Wakers(slot) /\ s \notin Wakers(slot)'
    BY DEF Wakers
  <1>3. Loud(slot)' <=> Loud(slot)
    BY OtherWakersStay DEF Loud
  <1>4. QED BY <1>1, <1>2, <1>3

(* A broadcast posts the rest of group one; its wake is under way.         *)
LEMMA PostRestDelivers ==
  ASSUME Inv, Inv', WakeInv, NEW s \in Signalers, PostRest(s)
  PROVE  Delivered'
  <1>1. /\ Others(s) /\ pc[s] = "postRest" /\ pc'[s] = "wakeRest"
        /\ signals' = [signals EXCEPT ![my[s].slot] = @ + sizes[my[s].slot]]
        /\ sizes' = [sizes EXCEPT ![my[s].slot] = 0]
        /\ sequence' = sequence /\ start' = start /\ word' = word /\ my' = my /\ since' = since
    BY PostRestDoes DEF Inv, Base
  <1>2. /\ my[s].slot = GroupOne /\ s \in Threads /\ GroupOne \in Slots /\ Types /\ Types'
        /\ signals[GroupOne] \in Nat /\ sizes[GroupOne] \in Nat /\ start \in Nat
        /\ word.size \in Nat
        /\ pc[s] \in LockedPlaces /\ ~Switching
        /\ Reused = GroupOne /\ LastSlot = Other(GroupOne) /\ Other(GroupOne) \in Slots
        /\ GroupOne # Other(GroupOne)
        /\ \A slot \in Slots : slot = GroupOne \/ slot = Other(GroupOne)
    BY <1>1, HolderSlots DEF Inv
  <1>3. GroupOne' = GroupOne /\ ~Switching' /\ Reused' = Reused /\ LastSlot' = LastSlot
    <2>1. GroupOne' = GroupOne
      BY <1>1 DEF GroupOne
    <2>2. QED BY <1>1, <1>2, <2>1, HolderSlotsAfter
  <1>4. WaitersKeep(s) /\ QueuesStay
    BY <1>2, GotoKeeps DEF PostRest, QueuesStay
  <1>5. my[s].call = "broadcast" /\ ~my[s].wake
    BY <1>1 DEF WakeInv, Small, CallOK, CallAt
  <1>6. /\ signals'[GroupOne] = signals[GroupOne] + sizes[GroupOne]
        /\ signals'[Other(GroupOne)] = signals[Other(GroupOne)] /\ signals[Other(GroupOne)] \in Nat
        /\ sizes'[GroupOne] = 0
    BY <1>1, <1>2 DEF Types
  <1>7. Laggards'
    <2>1. \A w \in Waiters : LaggardStays(w)
      BY <1>1, SignalerFacts
    <2>2. signals'[LastSlot] >= signals[LastSlot]
      BY <1>2, <1>6
    <2>3. QED BY <1>1, <1>2, <1>3, <2>1, <2>2, LaggardsMove DEF WakeInv
  <1>8. OrderOK'
    BY <1>1, <1>4, SignalerOrder
  <1>9. PICK g \in Slots : g = GroupOne
    BY <1>2
  <1>10. Wakes(s, g)' /\ Loud(g)'
    BY <1>1, <1>2, <1>5, <1>9 DEF Loud, Wakes
  <1>11. ASSUME NEW slot \in Slots PROVE Served(slot)'
    <2>1. CASE slot = g
      BY <2>1, <1>10 DEF Served
    <2>2. CASE slot # g
      <3>1. ~Wakes(s, slot) /\ ~Wakes(s, slot)'
        BY <1>1, <1>2, <1>9, <2>2 DEF Wakes
      <3>2. Wakers(slot)' = Wakers(slot) /\ (Loud(slot)' <=> Loud(slot))
        BY <1>1, <3>1, SlotWakers
      <3>3. ClosedParked(slot)' = ClosedParked(slot)
        BY <1>1, <1>4, SignalerClosed
      <3>4. QED BY <3>2, <3>3, ServedKeeps DEF WakeInv, DeliveryOK
    <2>3. QED BY <2>1, <2>2
  <1>12. GroupServed'
    BY <1>3, <1>9, <1>10, GroupServedAt
  <1>13. CalledOK'
    <2>1. Posting' = Posting
      <3>1. Posts(s)' <=> Posts(s)
        BY <1>1, <1>5 DEF Posts
      <3>2. QED BY <3>1, <1>1, SignalersStay, PostingSame DEF WakeInv, Small
    <2>2. Within(0, start)' = Within(0, start)
      <3>1. Within(0, start)' = {w \in Waiters : HasTicket(w)' /\ 0 <= my'[w].position
                                                 /\ my'[w].position < start}
        BY <1>1 DEF Within
      <3>2. QED BY <3>1, <1>1, SignalerWithin
    <2>3. Owed' >= Owed
      <3>1. Posted' = Posted + sizes[GroupOne] /\ Posted \in Nat
        BY <1>1, <1>2, <1>3, <1>6, OwedNotNegative DEF Posted
      <3>2. QED BY <2>1, <2>2, <3>1, <1>2, CountsAreNat DEF Owed
    <2>4. ASSUME NEW w \in Waiters
          PROVE  (Certain(w) => Certain(w)') /\ (Reaches(s, w) => Reaches(s, w)')
      BY <1>1, <1>2, <1>3, <1>6 DEF Certain, Reaches
    <2>5. SinceStays
      BY <1>1 DEF SinceStays
    <2>6. QED BY <1>1, <1>2, <2>3, <2>4, <2>5, SignalerCalled
  <1>14. QED BY <1>7, <1>8, <1>11, <1>12, <1>13 DEF Delivered, DeliveryOK

(* A post of one signal or of all owes a wake for as many.                 *)
LEMMA PostDelivers ==
  ASSUME Inv, Inv', WakeInv, NEW s \in Signalers, Post(s)
  PROVE  Delivered'
  <1>0. /\ Others(s) /\ pc[s] = "post" /\ pc'[s] = "unlock"
        /\ \E n \in Nat : /\ n = IF my[s].call = "signal" THEN 1 ELSE sizes[my[s].slot]
                          /\ signals' = [signals EXCEPT ![my[s].slot] = @ + n]
                          /\ sizes' = [sizes EXCEPT ![my[s].slot] = @ - n]
        /\ my'[s] = [my[s] EXCEPT !.wake = TRUE]
        /\ sequence' = sequence /\ start' = start /\ word' = word /\ since' = since
    BY PostDoes DEF Inv, Base
  <1>1. PICK n \in Nat : /\ n = IF my[s].call = "signal" THEN 1 ELSE sizes[my[s].slot]
                         /\ signals' = [signals EXCEPT ![my[s].slot] = @ + n]
                         /\ sizes' = [sizes EXCEPT ![my[s].slot] = @ - n]
    BY <1>0
  <1>2. /\ my[s].slot = GroupOne /\ s \in Threads /\ GroupOne \in Slots /\ Types /\ Types'
        /\ signals[GroupOne] \in Nat /\ sizes[GroupOne] \in Nat /\ start \in Nat
        /\ word.size \in Nat
        /\ pc[s] \in LockedPlaces /\ ~Switching
        /\ Reused = GroupOne /\ LastSlot = Other(GroupOne) /\ Other(GroupOne) \in Slots
        /\ GroupOne # Other(GroupOne)
        /\ my[s].call \in {"signal", "broadcast"} /\ my[s] \in LocalType
        /\ sizes[GroupOne] >= 1
    BY <1>0, HolderSlots DEF Inv, HolderAt
  <1>3. GroupOne' = GroupOne /\ ~Switching' /\ Reused' = Reused /\ LastSlot' = LastSlot
    <2>1. GroupOne' = GroupOne
      BY <1>0 DEF GroupOne
    <2>2. QED BY <1>0, <1>2, <2>1, HolderSlotsAfter
  <1>4. WaitersKeep(s) /\ QueuesStay
    BY <1>2, GotoKeeps DEF Post, QueuesStay
  <1>5. /\ my'[s].call = my[s].call /\ my'[s].slot = my[s].slot /\ my'[s].wake
        /\ ~my[s].wake /\ my'[s].position = my[s].position
    <2>1. ~my[s].wake
      BY <1>0 DEF WakeInv, Small, CallOK, CallAt
    <2>2. QED BY <2>1, <1>0, <1>2 DEF LocalType
  <1>6. /\ signals'[GroupOne] = signals[GroupOne] + n
        /\ signals'[Other(GroupOne)] = signals[Other(GroupOne)] /\ signals[Other(GroupOne)] \in Nat
        /\ sizes'[GroupOne] = sizes[GroupOne] - n
    BY <1>1, <1>2 DEF Types
  <1>7. Laggards'
    <2>1. \A w \in Waiters : LaggardStays(w)
      BY <1>0, SignalerFacts
    <2>2. signals'[LastSlot] >= signals[LastSlot]
      BY <1>2, <1>6
    <2>3. QED BY <1>0, <1>2, <1>3, <2>1, <2>2, LaggardsMove DEF WakeInv
  <1>8. OrderOK'
    BY <1>0, <1>4, SignalerOrder
  <1>9. PICK g \in Slots : g = GroupOne
    BY <1>2
  <1>10. Wakes(s, g)' /\ ~Wakes(s, g) /\ (my[s].call = "broadcast" => Loud(g)')
    BY <1>0, <1>2, <1>5, <1>9 DEF Loud, Wakes
  <1>11. /\ Cardinality(Wakers(g)') = Cardinality(Wakers(g)) + 1 /\ Cardinality(Wakers(g)) \in Nat
         /\ Loud(g) => Loud(g)'
    <2>1. Wakers(g)' \ {s} = Wakers(g) \ {s}
      BY <1>0, OtherWakersStay
    <2>2. s \notin Wakers(g) /\ s \in Wakers(g)' /\ Wakers(g) \subseteq Signalers
      BY <1>10 DEF Wakers
    <2>3. Wakers(g)' = Wakers(g) \cup {s}
      BY <2>1, <2>2
    <2>4. Loud(g) => Loud(g)'
      BY <1>0, <1>10, OtherWakersStay DEF Loud
    <2>5. QED BY <2>2, <2>3, <2>4, OneMore
  <1>12. \A slot : ClosedParked(slot)' = ClosedParked(slot)
    BY <1>0, <1>4, SignalerClosed
  <1>13. ASSUME NEW slot \in Slots PROVE Served(slot)'
    <2>1. CASE slot = g
      <3>1. Served(g) /\ ClosedParked(g)' = ClosedParked(g)
        BY <1>12 DEF WakeInv, DeliveryOK
      <3>2. Cardinality(ClosedParked(g)) \in Nat
        BY CountsAreNat
      <3>3. QED BY <3>1, <3>2, <2>1, <1>11 DEF Served
    <2>2. CASE slot # g
      <3>1. ~Wakes(s, slot) /\ ~Wakes(s, slot)'
        BY <1>2, <1>5, <1>9, <2>2 DEF Wakes
      <3>2. Wakers(slot)' = Wakers(slot) /\ (Loud(slot)' <=> Loud(slot))
        BY <1>0, <3>1, SlotWakers
      <3>3. QED BY <3>2, <1>12, ServedKeeps DEF WakeInv, DeliveryOK
    <2>3. QED BY <2>1, <2>2
  <1>14. GroupServed'
    <2>1. Awake' = Awake /\ Asleep' = Asleep
      BY <1>0, <1>4, SignalerMembers
    <2>2. SUFFICES ASSUME Asleep # {}, my[s].call = "signal"
                   PROVE  \/ Loud(g)'
                          \/ Cardinality(ClosedParked(g)') + signals'[g]
                               <= start' + Cardinality(Awake') + Cardinality(Wakers(g)')
      BY <2>1, <1>2, <1>3, <1>9, <1>10, GroupServedAt
    <2>3. \/ Loud(g)
          \/ Cardinality(ClosedParked(g)) + signals[g]
               <= start + Cardinality(Awake) + Cardinality(Wakers(g))
      BY <2>2, <1>2, <1>9, GroupServedWas DEF WakeInv, DeliveryOK
    <2>4. signals'[g] = signals[g] + 1 /\ signals[g] \in Nat
      BY <2>2, <1>1, <1>2, <1>6, <1>9
    <2>5. /\ Cardinality(ClosedParked(g)) \in Nat /\ Cardinality(Awake) \in Nat
          /\ ClosedParked(g)' = ClosedParked(g)
      BY CountsAreNat, <1>12
    <2>6. QED BY <2>1, <2>3, <2>4, <2>5, <1>0, <1>2, <1>11
  <1>15. CalledOK'
    <2>1. Within(0, start)' = Within(0, start)
      <3>1. Within(0, start)' = {w \in Waiters : HasTicket(w)' /\ 0 <= my'[w].position
                                                 /\ my'[w].position < start}
        BY <1>0 DEF Within
      <3>2. QED BY <3>1, <1>0, SignalerWithin
    <2>2. Posted' = Posted + n /\ Posted \in Nat
      BY <1>0, <1>2, <1>3, <1>6, OwedNotNegative DEF Posted
    <2>3. /\ Cardinality(Posting') + n >= Cardinality(Posting) /\ Cardinality(Posting') \in Nat
          /\ Cardinality(Posting) \in Nat
      <3>1. \A u \in Signalers : u # s => (Posts(u)' <=> Posts(u))
        BY <1>0, <1>2, OtherSignaler DEF WakeInv, Small
      <3>2. ~Posts(s)' /\ (Posts(s) <=> my[s].call = "signal")
        BY <1>0 DEF Posts
      <3>3. Posting \subseteq Signalers
        BY DEF Posting
      <3>4. CASE my[s].call = "signal"
        <4>1. Posting' = Posting \ {s} /\ s \in Posting
          BY <3>1, <3>2, <3>4 DEF Posting
        <4>2. n = 1
          BY <3>4, <1>1
        <4>3. /\ Cardinality(Posting') = Cardinality(Posting) - 1 /\ Cardinality(Posting') \in Nat
              /\ Cardinality(Posting) \in Nat
          BY <4>1, <3>3, OneFewer
        <4>4. QED BY <4>2, <4>3
      <3>5. CASE my[s].call # "signal"
        <4>1. Posting' = Posting
          BY <3>1, <3>2, <3>5 DEF Posting
        <4>2. QED BY <4>1, CountsAreNat
      <3>6. QED BY <3>4, <3>5
    <2>4. Owed' >= Owed
      BY <2>1, <2>2, <2>3, CountsAreNat DEF Owed
    <2>5. ASSUME NEW w \in Waiters, Blocked(w)
          PROVE  \/ Certain(w)'
                 \/ (Certain(w) => Certain(w)') /\ (Reaches(s, w) => Reaches(s, w)')
      <3>1. my'[w] = my[w]
        BY <1>0, SignalerFacts
      <3>2. Certain(w) => Certain(w)'
        BY <3>1, <1>0, <1>2 DEF Certain
      <3>3. CASE my[s].call = "signal"
        BY <3>2, <3>3 DEF Reaches
      <3>4. CASE my[s].call = "broadcast"
        <4>1. sizes'[GroupOne'] = 0
          BY <3>4, <1>1, <1>2, <1>3, <1>6
        <4>2. Reaches(s, w) => my[w].position < start + word.size
          BY <1>0 DEF Reaches
        <4>3. Reaches(s, w) => Certain(w)'
          BY <4>1, <4>2, <3>1, <1>0, <1>3 DEF Certain
        <4>4. QED BY <3>2, <4>3
      <3>5. QED BY <3>3, <3>4, <1>2
    <2>6. SinceStays
      BY <1>0 DEF SinceStays
    <2>7. QED BY <1>0, <1>2, <2>4, <2>5, <2>6, SignalerCalled
  <1>16. QED BY <1>7, <1>8, <1>13, <1>14, <1>15 DEF Delivered, DeliveryOK

-----------------------------------------------------------------------------
(* The slots change roles inside the switch,                               *)
LEMMA FlipSlotDelivers ==
  ASSUME Inv, Inv', WakeInv, NEW s \in Signalers, FlipSlot(s)
  PROVE  Delivered'
  <1>1. /\ Others(s) /\ pc[s] = "flip" /\ pc'[s] = "open"
        /\ sequence' = [sequence EXCEPT !.slot = Other(@)]
        /\ my'[s] = [my[s] EXCEPT !.slot = Other(@), !.position = sequence.ticket]
        /\ signals' = signals /\ sizes' = sizes /\ start' = start /\ word' = word /\ since' = since
    BY FlipSlotDoes DEF Inv, Base
  <1>2. /\ my[s].slot = GroupOne /\ s \in Threads /\ GroupOne \in Slots /\ Types /\ Types'
        /\ start \in Nat /\ word.size \in Nat
        /\ pc[s] \in LockedPlaces /\ Switching /\ Other(GroupOne) \in Slots
        /\ Reused = Other(GroupOne) /\ LastSlot = GroupOne /\ my[s] \in LocalType
    BY <1>1, HolderSlots DEF Inv
  <1>3. GroupOne' = Other(GroupOne) /\ Switching' /\ Reused' = Reused /\ LastSlot' = LastSlot
    <2>1. GroupOne' = Other(GroupOne) /\ Other(Other(GroupOne)) = GroupOne
      BY <1>1, <1>2 DEF GroupOne, Types, Other, Slots
    <2>2. QED BY <1>1, <1>2, <2>1, HolderSlotsAfter
  <1>4. WaitersKeep(s) /\ QueuesStay
    BY <1>2, GotoKeeps DEF FlipSlot, QueuesStay
  <1>5. /\ my'[s].call = my[s].call /\ ~my'[s].wake /\ ~my[s].wake
        /\ my'[s].position = sequence.ticket
    <2>1. ~my[s].wake
      BY <1>1 DEF WakeInv, Small, CallOK, CallAt
    <2>2. QED BY <2>1, <1>1, <1>2 DEF LocalType
  <1>6. Laggards'
    <2>1. \A w \in Waiters : LaggardStays(w)
      BY <1>1, SignalerFacts
    <2>2. signals'[LastSlot] >= signals[LastSlot] /\ signals'[Reused] >= signals[Reused]
      BY <1>1, <1>2 DEF Types
    <2>3. QED BY <1>1, <1>2, <1>3, <2>1, <2>2, LaggardsMove DEF WakeInv
  <1>7. OrderOK'
    BY <1>1, <1>4, SignalerOrder
  <1>8. ASSUME NEW slot \in Slots PROVE Served(slot)'
    <2>1. ~Wakes(s, slot) /\ ~Wakes(s, slot)'
      BY <1>1, <1>5 DEF Wakes
    <2>2. Wakers(slot)' = Wakers(slot) /\ (Loud(slot)' <=> Loud(slot))
      BY <1>1, <2>1, SlotWakers
    <2>3. ClosedParked(slot)' = ClosedParked(slot)
      BY <1>1, <1>4, SignalerClosed
    <2>4. QED BY <2>2, <2>3, ServedKeeps DEF WakeInv, DeliveryOK
  <1>9. GroupServed'
    BY <1>3 DEF GroupServed
  <1>10. CalledOK'
    <2>1. Posting' = Posting
      <3>1. Posts(s)' <=> Posts(s)
        BY <1>1, <1>5 DEF Posts
      <3>2. QED BY <3>1, <1>1, SignalersStay, PostingSame DEF WakeInv, Small
    <2>2. Within(0, start)' = Within(0, start)
      <3>1. Within(0, start)' = {w \in Waiters : HasTicket(w)' /\ 0 <= my'[w].position
                                                 /\ my'[w].position < start}
        BY <1>1 DEF Within
      <3>2. QED BY <3>1, <1>1, SignalerWithin
    <2>3. Owed' >= Owed
      <3>1. Posted' = Posted /\ Posted \in Nat
        BY <1>2, <1>3, OwedNotNegative DEF Posted
      <3>2. QED BY <2>1, <2>2, <3>1, CountsAreNat DEF Owed
    <2>4. ASSUME NEW w \in Waiters, Blocked(w)
          PROVE  (Certain(w) => Certain(w)') /\ (Reaches(s, w) => Reaches(s, w)')
      <3>1. my'[w] = my[w] /\ my[w].position < sequence.ticket
        BY <1>1, <2>4, SignalerFacts, TicketsBelow DEF HasTicket
      <3>2. QED BY <1>1, <1>2, <1>5, <3>1 DEF Certain, Reaches
    <2>5. SinceStays
      BY <1>1 DEF SinceStays
    <2>6. QED BY <1>1, <1>2, <2>3, <2>4, <2>5, SignalerCalled
  <1>11. QED BY <1>6, <1>7, <1>8, <1>9, <1>10 DEF Delivered, DeliveryOK

(* and group two is opened with no signal posted yet.                      *)
LEMMA OpenGroupDelivers ==
  ASSUME Inv, Inv', WakeInv, NEW s \in Signalers, OpenGroup(s)
  PROVE  Delivered'
  <1>0. /\ Others(s) /\ pc[s] = "open"
        /\ signals' = [signals EXCEPT ![my[s].slot] = start]
        /\ word' = [word EXCEPT !.size = my[s].position - start]
        /\ sizes' = [sizes EXCEPT ![my[s].slot] = @ + my[s].position - start]
        /\ pc'[s] = IF sizes'[my[s].slot] = 0 THEN "unlock" ELSE "post"
        /\ sequence' = sequence /\ start' = start /\ my' = my /\ since' = since
    BY OpenGroupDoes DEF Inv, Base
  <1>2. /\ my[s].slot = GroupOne /\ s \in Threads /\ GroupOne \in Slots /\ Types /\ Types'
        /\ start \in Nat /\ word.size \in Nat /\ sizes[GroupOne] = 0
        /\ pc[s] \in LockedPlaces /\ Switching /\ Other(GroupOne) \in Slots
        /\ Reused = GroupOne /\ LastSlot = Other(GroupOne) /\ GroupOne # Other(GroupOne)
        /\ my[s] \in LocalType /\ start < my[s].position /\ my[s].position \in Nat
    BY <1>0, HolderSlots DEF Inv, HolderAt, LocalType
  <1>1. /\ pc'[s] = "post" /\ word'.size = my[s].position - start
        /\ signals'[GroupOne] = start /\ signals'[Other(GroupOne)] = signals[Other(GroupOne)]
    <2>1. sizes'[GroupOne] = my[s].position - start
      BY <1>0, <1>2 DEF Types
    <2>2. pc'[s] = "post"
      BY <1>0, <1>2, <2>1
    <2>3. QED BY <1>0, <1>2, <2>2 DEF Types
  <1>3. GroupOne' = GroupOne /\ ~Switching' /\ Reused' = Reused /\ LastSlot' = LastSlot
    <2>1. GroupOne' = GroupOne
      BY <1>0 DEF GroupOne
    <2>2. QED BY <1>0, <1>1, <1>2, <2>1, HolderSlotsAfter
  <1>4. WaitersKeep(s) /\ QueuesStay
    BY <1>2, GotoKeeps DEF OpenGroup, QueuesStay
  <1>5. ~my[s].wake
    BY <1>0 DEF WakeInv, Small, CallOK, CallAt
  <1>6. Laggards'
    <2>1. \A w \in Waiters : LaggardStays(w)
      BY <1>0, SignalerFacts
    <2>2. signals'[LastSlot] >= signals[LastSlot]
      <3>1. signals[Other(GroupOne)] \in Nat
        BY <1>2, NumberFacts
      <3>2. QED BY <3>1, <1>1, <1>2
    <2>3. QED BY <1>0, <1>2, <1>3, <2>1, <2>2, LaggardsMove DEF WakeInv
  <1>7. OrderOK'
    BY <1>0, <1>4, SignalerOrder
  <1>8. \A slot \in Slots : Wakers(slot)' = Wakers(slot) /\ (Loud(slot)' <=> Loud(slot))
    <2>1. ASSUME NEW slot \in Slots
          PROVE  Wakers(slot)' = Wakers(slot) /\ (Loud(slot)' <=> Loud(slot))
      <3>1. ~Wakes(s, slot) /\ ~Wakes(s, slot)'
        BY <1>0, <1>1, <1>5 DEF Wakes
      <3>2. QED BY <1>0, <3>1, SlotWakers
    <2>2. QED BY <2>1
  <1>9. \A slot : ClosedParked(slot)' = ClosedParked(slot)
    BY <1>0, <1>4, SignalerClosed
  <1>10. \A slot \in Slots : Served(slot)'
    BY <1>8, <1>9, ServedKeeps DEF WakeInv, DeliveryOK
  <1>11. GroupServed'
    <2>1. PICK g \in Slots : g = GroupOne
      BY <1>2
    <2>2. Loud(g)' \/ Cardinality(ClosedParked(g)') <= Cardinality(Wakers(g)')
      BY <1>10 DEF Served
    <2>3. /\ Cardinality(ClosedParked(g)') \in Nat /\ Cardinality(Wakers(g)') \in Nat
          /\ Cardinality(Awake') \in Nat
      BY <1>8, <1>9, CountsAreNat, SetsFinite DEF Awake
    <2>4. signals'[g] = start /\ start' = start
      BY <1>0, <1>1, <2>1
    <2>5. QED BY <1>2, <1>3, <2>1, <2>2, <2>3, <2>4, GroupServedAt
  <1>12. CalledOK'
    <2>1. Posting' = Posting
      <3>1. Posts(s)' <=> Posts(s)
        BY <1>0, <1>1 DEF Posts
      <3>2. QED BY <3>1, <1>0, SignalersStay, PostingSame DEF WakeInv, Small
    <2>2. Within(0, start)' = Within(0, start)
      <3>1. Within(0, start)' = {w \in Waiters : HasTicket(w)' /\ 0 <= my'[w].position
                                                 /\ my'[w].position < start}
        BY <1>0 DEF Within
      <3>2. QED BY <3>1, <1>0, SignalerWithin
    <2>3. Owed' >= Owed
      <3>1. Posted' = Posted /\ Posted \in Nat
        BY <1>0, <1>1, <1>2, <1>3, OwedNotNegative DEF Posted
      <3>2. QED BY <2>1, <2>2, <3>1, CountsAreNat DEF Owed
    <2>4. ASSUME NEW w \in Waiters, Blocked(w)
          PROVE  (Certain(w) => Certain(w)') /\ (Reaches(s, w) => Reaches(s, w)')
      <3>1. Certain(w) => Certain(w)'
        BY <1>0, <1>2 DEF Certain
      <3>2. start' + word'.size = my[s].position
        BY <1>0, <1>1, <1>2
      <3>3. Reaches(s, w) => Reaches(s, w)'
        BY <1>0, <1>1, <3>2 DEF Reaches
      <3>4. QED BY <3>1, <3>3
    <2>5. SinceStays
      BY <1>0 DEF SinceStays
    <2>6. QED BY <1>0, <1>2, <2>3, <2>4, <2>5, SignalerCalled
  <1>13. QED BY <1>6, <1>7, <1>10, <1>11, <1>12 DEF Delivered, DeliveryOK

-----------------------------------------------------------------------------
(* CloseGroup: group one has been given all its signals, so that each of   *)
(* its members becomes one of a closed group for which there is a signal.  *)
LEMMA CloseDoes ==
  ASSUME Inv, Inv', NEW s \in Signalers, CloseGroup(s)
  PROVE  /\ Others(s) /\ pc[s] = "close" /\ pc'[s] = "flip" /\ WaitersKeep(s) /\ QueuesStay
         /\ start' = start + word.size
         /\ sequence' = sequence /\ sizes' = sizes /\ word' = word /\ signals' = signals
         /\ my' = my /\ since' = since
         /\ s \in Threads /\ GroupOne \in Slots /\ Types /\ Types'
         /\ start \in Nat /\ word.size \in Nat /\ start' \in Nat /\ sizes[GroupOne] = 0
         /\ signals[GroupOne] \in Nat
         /\ pc[s] \in LockedPlaces /\ ~Switching /\ Other(GroupOne) \in Slots
         /\ Reused = GroupOne /\ LastSlot = Other(GroupOne) /\ GroupOne # Other(GroupOne)
         /\ \A slot \in Slots : slot = GroupOne \/ slot = Other(GroupOne)
         /\ GroupOne' = GroupOne /\ Switching' /\ Reused' = LastSlot /\ LastSlot' = GroupOne
  <1>1. /\ Others(s) /\ pc[s] = "close" /\ pc'[s] = "flip"
        /\ start' = start + word.size
        /\ sequence' = sequence /\ sizes' = sizes /\ word' = word /\ signals' = signals
        /\ my' = my /\ since' = since
    BY CloseGroupDoes DEF Inv, Base
  <1>2. /\ s \in Threads /\ GroupOne \in Slots /\ Types /\ Types'
        /\ start \in Nat /\ word.size \in Nat /\ sizes[GroupOne] = 0 /\ signals[GroupOne] \in Nat
        /\ pc[s] \in LockedPlaces /\ ~Switching /\ Other(GroupOne) \in Slots
        /\ Reused = GroupOne /\ LastSlot = Other(GroupOne) /\ GroupOne # Other(GroupOne)
        /\ \A slot \in Slots : slot = GroupOne \/ slot = Other(GroupOne)
    BY <1>1, HolderSlots DEF Inv, HolderAt
  <1>3. GroupOne' = GroupOne /\ Switching' /\ Reused' = LastSlot /\ LastSlot' = GroupOne
    <2>1. GroupOne' = GroupOne
      BY <1>1 DEF GroupOne
    <2>2. QED BY <1>1, <1>2, <2>1, HolderSlotsAfter
  <1>4. WaitersKeep(s) /\ QueuesStay
    BY <1>2, GotoKeeps DEF CloseGroup, QueuesStay
  <1>5. start' \in Nat
    BY <1>1, <1>2
  <1>6. QED BY <1>1, <1>2, <1>3, <1>4, <1>5

(* The books at a close: where its waiters are, and how many.              *)
LEMMA CloseFacts ==
  ASSUME Inv, Inv', NEW s \in Signalers, CloseGroup(s)
  PROVE  /\ start <= MaxTickets /\ start <= start'
         /\ Cardinality(Within(start, start')) = signals[GroupOne] - start
         /\ signals[GroupOne] >= start
         /\ \A w \in Waiters :
              /\ my[w].position \in Nat /\ my[w].slot \in Slots /\ my[w].seen \in Nat
              /\ HasTicket(w) =>
                   /\ start <= my[w].position /\ my[w].position < start' => my[w].slot = GroupOne
                   /\ start' <= my[w].position => my[w].slot = Other(GroupOne)
              /\ pc[w] = "take" /\ my[w].position < start /\ my[w].slot = GroupOne
                   => my[w].seen < start
  <1>1. /\ start' = start + word.size /\ Types /\ start \in Nat /\ word.size \in Nat /\ ~Switching
        /\ sizes[GroupOne] = 0 /\ signals[GroupOne] \in Nat /\ Reused = GroupOne
    BY CloseDoes
  <1>2. PICK e \in 0 .. MaxTickets : BooksAt(e)
    BY EndIs DEF Inv
  <1>3. e = start' /\ start <= e
    BY <1>1, <1>2 DEF BooksAt, EndAt
  <1>4. /\ Cardinality(Within(start, e)) = sizes[GroupOne] + signals[GroupOne] - start
        /\ start <= signals[GroupOne]
    BY <1>1, <1>2 DEF BooksAt, CountsAt, SignalsAreAt
  <1>5. Cardinality(Within(start, start')) = signals[GroupOne] - start
    BY <1>1, <1>3, <1>4
  <1>6. ASSUME NEW w \in Waiters
        PROVE  /\ my[w].position \in Nat /\ my[w].slot \in Slots /\ my[w].seen \in Nat
               /\ HasTicket(w) =>
                   /\ start <= my[w].position /\ my[w].position < start' => my[w].slot = GroupOne
                   /\ start' <= my[w].position => my[w].slot = Other(GroupOne)
               /\ pc[w] = "take" /\ my[w].position < start /\ my[w].slot = GroupOne
                   => my[w].seen < start
    <2>1. my[w].position \in Nat /\ my[w].slot \in Slots /\ my[w].seen \in Nat
      BY <1>1, NumberFacts DEF Threads
    <2>2. WaiterAt(w, e)
      BY <1>2 DEF BooksAt
    <2>3. QED BY <1>1, <1>3, <2>1, <2>2 DEF WaiterAt
  <1>7. start <= MaxTickets /\ start <= start' /\ signals[GroupOne] >= start
    <2>1. MaxTickets \in Nat
      BY CondAssumption
    <2>2. QED BY <2>1, <1>1, <1>2, <1>3, <1>4
  <1>8. QED BY <1>5, <1>6, <1>7

(* Closing group one: its members got a signal each,                       *)
LEMMA CloseLaggards ==
  ASSUME Inv, Inv', WakeInv, NEW s \in Signalers, CloseGroup(s)
  PROVE  Laggards'
  <1>1. /\ Others(s) /\ start' = start + word.size /\ signals' = signals /\ my' = my
        /\ start \in Nat /\ start' \in Nat /\ signals[GroupOne] \in Nat
        /\ ~Switching /\ Switching' /\ Reused = GroupOne /\ LastSlot # GroupOne
        /\ Reused' = LastSlot /\ LastSlot' = GroupOne
    BY CloseDoes
  <1>2. /\ start <= MaxTickets /\ start <= start'
        /\ Cardinality(Within(start, start')) = signals[GroupOne] - start
    BY CloseFacts
  <1>3. PICK b0 \in 0 .. MaxTickets, b \in 0 .. MaxTickets : LaggardsAt(b0, b)
    BY DEF WakeInv, Laggards
  <1>4. /\ b \in Nat /\ b <= start
        /\ signals[LastSlot] >= b + Cardinality(Within(b, start))
    BY <1>3 DEF LaggardsAt, BasesAt
  <1>5. PICK c \in 0 .. MaxTickets : c = start
    BY <1>1, <1>2, CondAssumption
  <1>6. /\ Within(c, start)' = Within(start, start')
        /\ Within(b, c)' = Within(b, start)
    <2>1. /\ Within(c, start)' = {w \in Waiters : HasTicket(w)' /\ c <= my'[w].position
                                                  /\ my'[w].position < start'}
          /\ Within(b, c)' = {w \in Waiters : HasTicket(w)' /\ b <= my'[w].position
                                              /\ my'[w].position < c}
      BY DEF Within
    <2>2. QED BY <2>1, <1>1, <1>5, SignalerWithin
  <1>7. BasesAt(b, c)'
    <2>1. signals'[LastSlot'] >= c + Cardinality(Within(c, start)')
      BY <1>1, <1>2, <1>5, <1>6
    <2>2. signals'[Reused'] >= b + Cardinality(Within(b, c)')
      BY <1>1, <1>4, <1>5, <1>6
    <2>3. c \in Nat /\ b \in Nat /\ b <= c /\ c <= start'
      BY <1>1, <1>2, <1>4, <1>5
    <2>4. QED BY <2>1, <2>2, <2>3 DEF BasesAt
  <1>8. ASSUME NEW w \in Waiters PROVE LaggardAt(w, b, c)'
    <2>1. /\ my[w].position \in Nat /\ my[w].slot \in Slots /\ my[w].seen \in Nat
          /\ HasTicket(w) =>
               /\ start <= my[w].position /\ my[w].position < start' => my[w].slot = GroupOne
               /\ start' <= my[w].position => my[w].slot = Other(GroupOne)
          /\ pc[w] = "take" /\ my[w].position < start /\ my[w].slot = GroupOne
               => my[w].seen < start
      BY CloseFacts
    <2>2. LaggardAt(w, b0, b)
      BY <1>3 DEF LaggardsAt
    <2>3. (HasTicket(w)' <=> HasTicket(w)) /\ (pc'[w] \in {"take", "park"} => pc'[w] = pc[w])
      BY <1>1, SignalerFacts, CloseDoes DEF WaitersKeep
    <2>4. HasTicket(w)' =>
             /\ c <= my'[w].position /\ my'[w].position < start' => my'[w].slot = LastSlot'
             /\ Switching' /\ b <= my'[w].position /\ my'[w].position < c => my'[w].slot = Reused'
      BY <1>1, <1>5, <2>1, <2>2, <2>3 DEF LaggardAt
    <2>5. pc'[w] = "take" =>
             /\ my'[w].slot = LastSlot' /\ my'[w].position < c => my'[w].seen < c
             /\ Switching' /\ my'[w].slot = Reused' /\ my'[w].position < b => my'[w].seen < b
      BY <1>1, <1>5, <2>1, <2>2, <2>3 DEF LaggardAt
    <2>6. pc'[w] = "park" =>
             /\ my'[w].seen <= my'[w].position /\ my'[w].seen <= start'
             /\ c <= my'[w].position /\ my'[w].position < start' => my'[w].seen <= c
             /\ Switching' /\ b <= my'[w].position /\ my'[w].position < c => my'[w].seen <= b
      BY <1>1, <1>2, <1>4, <1>5, <2>1, <2>2, <2>3 DEF LaggardAt
    <2>7. QED BY <2>4, <2>5, <2>6 DEF LaggardAt
  <1>9. LaggardsAt(b, c)'
    BY <1>7, <1>8 DEF LaggardsAt
  <1>10. QED BY <1>9 DEF Laggards

(* Who is in the queue of a slot.                                          *)
LEMMA QueueHolds ==
  ASSUME Types, QueuesOK, LocalsOK, NEW slot \in Slots
  PROVE  /\ queue[SignalsAt(slot)] \in Seq(Threads) /\ SignalsAt(slot) \in Addresses
         /\ \A i \in 1 .. Len(queue[SignalsAt(slot)]) :
              /\ queue[SignalsAt(slot)][i] \in Waiters
              /\ pc[queue[SignalsAt(slot)][i]] = "parked"
              /\ my[queue[SignalsAt(slot)][i]].slot = slot
         /\ \A w \in Waiters : pc[w] = "parked" /\ my[w].slot = slot =>
              \E i \in 1 .. Len(queue[SignalsAt(slot)]) : queue[SignalsAt(slot)][i] = w
  <1> DEFINE q == queue[SignalsAt(slot)]
  <1>1. SignalsAt(slot) \in Addresses /\ SignalsAt(slot) \notin {"lock", "references"}
    BY DEF SignalsAt, Addresses
  <1>2. q \in Seq(Threads)
    BY <1>1 DEF Types
  <1>3. ASSUME NEW i \in 1 .. Len(q)
        PROVE  q[i] \in Waiters /\ pc[q[i]] = "parked" /\ my[q[i]].slot = slot
    <2>1. q[i] \in Threads /\ Contains(q, q[i])
      BY <1>2 DEF Contains
    <2>2. pc[q[i]] = "parked" /\ Where(q[i]) = SignalsAt(slot)
      BY <1>1, <2>1 DEF QueuesOK
    <2>3. q[i] \in Waiters
      BY <1>1, <2>1, <2>2 DEF Where, Threads
    <2>4. my[q[i]].slot \in Slots /\ SignalsAt(my[q[i]].slot) = SignalsAt(slot)
      BY <2>1, <2>2, <2>3, NumberFacts DEF Where
    <2>5. QED BY <2>2, <2>3, <2>4 DEF SignalsAt, Slots
  <1>4. ASSUME NEW w \in Waiters, pc[w] = "parked", my[w].slot = slot
        PROVE  \E i \in 1 .. Len(q) : q[i] = w
    <2>1. w \in Threads /\ Where(w) = SignalsAt(slot)
      BY <1>4 DEF Threads, Where
    <2>2. Contains(q, w)
      BY <1>1, <1>4, <2>1 DEF QueuesOK
    <2>3. QED BY <2>2 DEF Contains
  <1>5. QED BY <1>1, <1>2, <1>3, <1>4

(* stand in the queue before all others of their slot,                     *)
LEMMA CloseOrder ==
  ASSUME Inv, Inv', WakeInv, NEW s \in Signalers, CloseGroup(s)
  PROVE  OrderOK'
  <1>1. /\ Types /\ QueuesOK /\ LocalsOK /\ OrderOK /\ QueuesStay /\ my' = my
        /\ start \in Nat /\ start' \in Nat /\ GroupOne # Other(GroupOne)
        /\ \A slot \in Slots : slot = GroupOne \/ slot = Other(GroupOne)
    BY CloseDoes DEF Inv, WakeInv
  <1>2. ASSUME NEW slot \in Slots PROVE ClosedFirst(queue[SignalsAt(slot)], my, start')
    <2> DEFINE q == queue[SignalsAt(slot)]
    <2>1. \A i \in 1 .. Len(q) :
             /\ my[q[i]].position \in Nat
             /\ start <= my[q[i]].position /\ my[q[i]].position < start' => slot = GroupOne
             /\ start' <= my[q[i]].position => slot = Other(GroupOne)
      <3>1. ASSUME NEW i \in 1 .. Len(q)
            PROVE  /\ q[i] \in Waiters /\ my[q[i]].slot = slot /\ HasTicket(q[i])
        <4>1. q[i] \in Waiters /\ pc[q[i]] = "parked" /\ my[q[i]].slot = slot
          BY <1>1, QueueHolds
        <4>2. QED BY <4>1 DEF HasTicket, Blocked
      <3>2. QED BY <3>1, CloseFacts
    <2>2. ClosedFirst(q, my, start) /\ start <= start'
      BY <1>1, CloseFacts DEF OrderOK
    <2> HIDE DEF q
    <2>3. ASSUME NEW i \in 1 .. Len(q), NEW j \in 1 .. Len(q), i < j, my[q[j]].position < start'
          PROVE  my[q[i]].position < start'
      <3>1. CASE slot = GroupOne
        BY <1>1, <2>1, <3>1
      <3>2. CASE slot # GroupOne
        <4>1. my[q[j]].position < start
          BY <1>1, <2>1, <2>3, <3>2
        <4>2. my[q[i]].position < start
          BY <2>2, <2>3, <4>1 DEF ClosedFirst
        <4>3. QED BY <1>1, <2>1, <2>2, <4>2
      <3>3. QED BY <3>1, <3>2
    <2>4. ClosedFirst(q, my, start')
      BY <2>3 DEF ClosedFirst
    <2>5. QED BY <2>4 DEF q
  <1>3. ASSUME NEW slot \in Slots PROVE ClosedFirst(queue'[SignalsAt(slot)], my', start')
    <2>1. queue'[SignalsAt(slot)] = queue[SignalsAt(slot)]
      BY <1>1 DEF QueuesStay
    <2>2. QED BY <1>1, <1>2, <2>1
  <1>4. QED BY <1>3 DEF OrderOK

(* have their wakes under way,                                             *)
LEMMA CloseDelivery ==
  ASSUME Inv, Inv', WakeInv, NEW s \in Signalers, CloseGroup(s)
  PROVE  DeliveryOK'
  <1>1. /\ Others(s) /\ WaitersKeep(s) /\ my' = my /\ start' = start + word.size
        /\ pc[s] = "close" /\ pc'[s] = "flip" /\ GroupOne \in Slots /\ ~Switching /\ Switching'
        /\ start \in Nat /\ start' \in Nat /\ signals[GroupOne] \in Nat
        /\ GroupOne # Other(GroupOne)
        /\ \A slot \in Slots : slot = GroupOne \/ slot = Other(GroupOne)
    BY CloseDoes
  <1>2. GroupServed'
    BY <1>1 DEF GroupServed
  <1>3. ~my[s].wake
    BY <1>1 DEF WakeInv, Small, CallOK, CallAt
  <1>4. \A w \in Waiters : pc'[w] = pc[w]
    BY <1>1, CondAssumption DEF WaitersKeep
  <1>5. ASSUME NEW slot \in Slots PROVE Wakers(slot)' = Wakers(slot) /\ (Loud(slot)' <=> Loud(slot))
    <2>1. ~Wakes(s, slot) /\ ~Wakes(s, slot)'
      BY <1>1, <1>3 DEF Wakes
    <2>2. QED BY <1>1, <2>1, SlotWakers
  <1>6. PICK g \in Slots : g = GroupOne
    BY <1>1
  <1>7. \A w \in Waiters : /\ my[w].position \in Nat
                           /\ Blocked(w) /\ start <= my[w].position /\ my[w].position < start'
                                => my[w].slot = g
    BY <1>6, CloseFacts DEF HasTicket
  <1>8. ClosedParked(g)' = ClosedParked(g) \cup Asleep /\ ClosedParked(g) \cap Asleep = {}
    <2>1. \A w \in Waiters : w \in Asleep
            <=> pc[w] = "parked" /\ start <= my[w].position /\ my[w].position < start'
      BY <1>1 DEF Asleep, IsMember, Blocked
    <2>2. \A w \in Waiters : w \in Asleep => my[w].slot = g
      BY <1>1, <1>7 DEF Asleep, IsMember
    <2>3. ClosedParked(g)' = {w \in Waiters : pc[w] = "parked" /\ my[w].position < start'
                                              /\ my[w].slot = g}
      BY <1>1, <1>4 DEF ClosedParked
    <2>4. Asleep \subseteq Waiters
      BY DEF Asleep
    <2>5. start <= start'
      BY CloseFacts
    <2>6. QED BY <1>1, <1>7, <2>1, <2>2, <2>3, <2>4, <2>5 DEF ClosedParked
  <1>9. Served(g)'
    <2>1. CASE Asleep = {}
      <3>1. ClosedParked(g)' = ClosedParked(g)
        BY <1>8, <2>1
      <3>2. QED BY <3>1, <1>5, ServedKeeps DEF WakeInv, DeliveryOK
    <2>2. CASE Asleep # {}
      <3>1. \/ Loud(g)
            \/ Cardinality(ClosedParked(g)) + signals[g]
                 <= start + Cardinality(Awake) + Cardinality(Wakers(g))
        BY <1>1, <1>6, <2>2, GroupServedWas DEF WakeInv, DeliveryOK
      <3>2. Cardinality(ClosedParked(g)') = Cardinality(ClosedParked(g)) + Cardinality(Asleep)
        <4>1. ClosedParked(g) \subseteq Waiters /\ Asleep \subseteq Waiters
          BY DEF ClosedParked, Asleep
        <4>2. QED BY <4>1, <1>8, BothCount
      <3>3. Cardinality(Awake) + Cardinality(Asleep) <= signals[g] - start
        <4>1. Awake \subseteq Waiters /\ Asleep \subseteq Waiters /\ Awake \cap Asleep = {}
          BY DEF Awake, Asleep
        <4>2. /\ Awake \cup Asleep \subseteq Within(start, start')
              /\ Within(start, start') \subseteq Waiters
          BY <1>1 DEF Awake, Asleep, IsMember, Within, HasTicket
        <4>3. Cardinality(Awake \cup Asleep) <= Cardinality(Within(start, start'))
          BY <4>2, FewerCount
        <4>4. Cardinality(Awake \cup Asleep) = Cardinality(Awake) + Cardinality(Asleep)
          BY <4>1, BothCount
        <4>5. Cardinality(Within(start, start')) = signals[g] - start
          BY <1>6, CloseFacts
        <4>6. QED BY <4>3, <4>4, <4>5
      <3>4. /\ Cardinality(ClosedParked(g)) \in Nat /\ Cardinality(Wakers(g)) \in Nat
            /\ Cardinality(Awake) \in Nat /\ Cardinality(Asleep) \in Nat /\ signals[g] \in Nat
        BY <1>1, <1>6, CountsAreNat
      <3>5. Loud(g) \/ Cardinality(ClosedParked(g)') <= Cardinality(Wakers(g))
        BY <3>1, <3>2, <3>3, <3>4, <1>1
      <3>6. QED BY <3>5, <1>5 DEF Served
    <2>3. QED BY <2>1, <2>2
  <1>10. ASSUME NEW slot \in Slots PROVE Served(slot)'
    <2>1. CASE slot # g
      <3>1. ClosedParked(slot)' \subseteq ClosedParked(slot)
        <4>1. ClosedParked(slot)' = {w \in Waiters : pc[w] = "parked" /\ my[w].position < start'
                                                     /\ my[w].slot = slot}
          BY <1>1, <1>4 DEF ClosedParked
        <4>2. ASSUME NEW w \in Waiters, pc[w] = "parked", my[w].position < start', my[w].slot = slot
              PROVE  my[w].position < start
          <5>1. Blocked(w)
            BY <4>2 DEF Blocked
          <5>2. QED BY <5>1, <4>2, <1>1, <1>7, <2>1
        <4>3. QED BY <4>1, <4>2 DEF ClosedParked
      <3>2. QED BY <3>1, <1>5, ServedKeeps DEF WakeInv, DeliveryOK
    <2>2. QED BY <2>1, <1>9
  <1>11. QED BY <1>2, <1>10 DEF DeliveryOK

(* and are sure of them.                                                   *)
LEMMA CloseCalled ==
  ASSUME Inv, Inv', WakeInv, NEW s \in Signalers, CloseGroup(s)
  PROVE  CalledOK'
  <1>1. /\ Others(s) /\ my' = my /\ start' = start + word.size /\ since' = since /\ sizes' = sizes
        /\ pc[s] = "close" /\ pc'[s] = "flip" /\ ~Switching /\ Switching' /\ pc[s] \in LockedPlaces
        /\ start \in Nat /\ word.size \in Nat /\ start' \in Nat /\ signals[GroupOne] \in Nat
    BY CloseDoes
  <1>2. Posting' = Posting
    <2>1. Posts(s)' <=> Posts(s)
      BY <1>1 DEF Posts
    <2>2. QED BY <2>1, <1>1, SignalersStay, PostingSame DEF WakeInv, Small
  <1>3. Cardinality(Within(0, start)')
          = Cardinality(Within(0, start)) + Cardinality(Within(start, start'))
    <2>1. Within(0, start)' = Within(0, start')
      <3>1. Within(0, start)' = {w \in Waiters : HasTicket(w)' /\ 0 <= my'[w].position
                                                 /\ my'[w].position < start'}
        BY DEF Within
      <3>2. QED BY <3>1, <1>1, SignalerWithin
    <2>2. /\ Within(0, start') = Within(0, start) \cup Within(start, start')
          /\ Within(0, start) \cap Within(start, start') = {}
          /\ Within(0, start) \subseteq Waiters /\ Within(start, start') \subseteq Waiters
      <3>1. \A w \in Waiters : my[w].position \in Nat
        BY CloseFacts
      <3>2. start <= start'
        BY CloseFacts
      <3>3. QED BY <3>1, <3>2, <1>1 DEF Within
    <2>3. QED BY <2>1, <2>2, BothCount
  <1>4. Owed' >= Owed
    <2>1. Posted = Cardinality(Within(start, start')) /\ Posted' = 0
      BY <1>1, CloseFacts DEF Posted
    <2>2. QED BY <2>1, <1>2, <1>3, CountsAreNat DEF Owed
  <1>5. ASSUME NEW w \in Waiters
        PROVE  (Certain(w) => Certain(w)') /\ (Reaches(s, w) => Reaches(s, w)')
    <2>1. my[w].position \in Nat /\ start <= start'
      BY CloseFacts
    <2>2. Certain(w) => Certain(w)'
      BY <1>1, <2>1 DEF Certain
    <2>3. Reaches(s, w) => Reaches(s, w)'
      BY <1>1 DEF Reaches
    <2>4. QED BY <2>2, <2>3
  <1>6. SinceStays
    BY <1>1 DEF SinceStays
  <1>7. QED BY <1>1, <1>4, <1>5, <1>6, SignalerCalled

(* So closing the group keeps the invariant.                               *)
LEMMA CloseGroupDelivers ==
  ASSUME Inv, Inv', WakeInv, NEW s \in Signalers, CloseGroup(s)
  PROVE  Delivered'
  BY CloseLaggards, CloseOrder, CloseDelivery, CloseCalled DEF Delivered

-----------------------------------------------------------------------------
(* A queue that holds each thread once is no longer than there are threads.*)
LEMMA QueueFits ==
  ASSUME NEW q \in Seq(Threads), Distinct(q)
  PROVE  Len(q) <= Cardinality(Threads)
  <1>1. IsFiniteSet(Threads) /\ Cardinality(Threads) \in Nat /\ Len(q) \in Nat
    BY CondAssumption, FS_CardinalityType, LenProperties
  <1>2. SUFFICES ASSUME Cardinality(Threads) < Len(q) PROVE FALSE
    BY <1>1
  <1>3. IsFiniteSet(1 .. Len(q)) /\ Cardinality(1 .. Len(q)) = Len(q)
    <2>1. 1 \in Int /\ Len(q) \in Int /\ 1 <= Len(q)
      BY <1>1, <1>2
    <2> DEFINE m == Len(q)
    <2>2. m \in Int /\ 1 <= m
      BY <2>1
    <2> HIDE DEF m
    <2>3. IsFiniteSet(1 .. m) /\ Cardinality(1 .. m) = m
      BY <2>2, FS_Interval
    <2>4. QED BY <2>3 DEF m
  <1> DEFINE f == [i \in 1 .. Len(q) |-> q[i]]
  <1>4. f \in [1 .. Len(q) -> Threads]
    BY ElementOfSeq
  <1>5. PICK x, y \in 1 .. Len(q) : x # y /\ f[x] = f[y]
    BY <1>1, <1>2, <1>3, <1>4, FS_PigeonHole
  <1>6. q[x] = q[y]
    BY <1>5
  <1>7. QED BY <1>5, <1>6 DEF Distinct

(* A wake of the first n threads of a slot's queue.                        *)
Drops(h, n) ==
  /\ n \in 0 .. Len(queue[SignalsAt(h)])
  /\ queue' = [queue EXCEPT ![SignalsAt(h)] = SubSeq(@, n + 1, Len(@))]
  /\ \A w \in Waiters :
       pc'[w] = IF \E i \in 1 .. n : queue[SignalsAt(h)][i] = w THEN "load" ELSE pc[w]

(* The kernel call of a signaler is such a wake,                           *)
LEMMA WakeDrops ==
  ASSUME Inv, NEW s \in Signalers, NEW h \in Slots, NEW count \in Nat, NEW next,
         WakeThen(s, SignalsAt(h), count, "load", next)
  PROVE  \E n \in Nat : /\ Drops(h, n)
                        /\ n = IF count < Len(queue[SignalsAt(h)])
                                 THEN count ELSE Len(queue[SignalsAt(h)])
  <1> DEFINE q == queue[SignalsAt(h)]
             n == IF count < Len(q) THEN count ELSE Len(q)
  <1>1. q \in Seq(Threads) /\ SignalsAt(h) \in Addresses /\ Types
    BY QueueHolds DEF Inv
  <1>2. n \in 0 .. Len(q) /\ n \in Nat
    BY <1>1, LenProperties
  <1>3. queue' = [queue EXCEPT ![SignalsAt(h)] = SubSeq(@, n + 1, Len(@))]
    BY DEF WakeThen
  <1>4. ASSUME NEW w \in Waiters PROVE pc'[w] = IF \E i \in 1 .. n : q[i] = w THEN "load" ELSE pc[w]
    <2>1. w # s /\ w \in Threads
      BY CondAssumption DEF Threads
    <2>2. QED BY <2>1 DEF WakeThen
  <1>5. Drops(h, n)
    BY <1>2, <1>3, <1>4 DEF Drops
  <1>6. QED BY <1>2, <1>5

(* which moves only threads asleep on the slot, all of them if it takes    *)
(* the whole queue,                                                        *)
LEMMA DropsWakes ==
  ASSUME Inv, NEW h \in Slots, NEW n, Drops(h, n)
  PROVE  /\ \A w \in Waiters : pc'[w] # pc[w]
              => pc[w] = "parked" /\ my[w].slot = h /\ pc'[w] = "load"
         /\ n = Len(queue[SignalsAt(h)]) => \A w \in Waiters : pc'[w] = "parked" => my[w].slot # h
  <1> DEFINE q == queue[SignalsAt(h)]
  <1>1. /\ \A i \in 1 .. Len(q) : q[i] \in Waiters /\ pc[q[i]] = "parked" /\ my[q[i]].slot = h
        /\ \A w \in Waiters : pc[w] = "parked" /\ my[w].slot = h => \E i \in 1 .. Len(q) : q[i] = w
        /\ Len(q) \in Nat
    BY QueueHolds, LenProperties DEF Inv
  <1>2. /\ n \in 0 .. Len(q)
        /\ \A w \in Waiters : pc'[w] = IF \E i \in 1 .. n : q[i] = w THEN "load" ELSE pc[w]
    BY DEF Drops
  <1> HIDE DEF q
  <1>3. QED BY <1>1, <1>2 DEF q

(* and keeps the order.                                                    *)
LEMMA DropsOrder ==
  ASSUME Inv, WakeInv, NEW s \in Signalers, Others(s), NEW h \in Slots, NEW n, Drops(h, n),
         start' = start
  PROVE  OrderOK'
  <1>1. /\ s \in Threads /\ TicketsStay(s) /\ Types /\ QueuesOK /\ LocalsOK /\ OrderOK
        /\ queue \in [Addresses -> Seq(Threads)] /\ n \in 0 .. Len(queue[SignalsAt(h)])
        /\ queue' = [queue EXCEPT ![SignalsAt(h)] = SubSeq(@, n + 1, Len(@))]
    BY SignalerFacts DEF Inv, WakeInv, Types, Drops
  <1>2. \A w \in Waiters : my'[w] = my[w]
    BY SignalerFacts
  <1>3. ASSUME NEW slot \in Slots
        PROVE  \/ queue'[SignalsAt(slot)] = queue[SignalsAt(slot)]
               \/ ClosedFirst(queue'[SignalsAt(slot)], my', start)
    <2> DEFINE q == queue[SignalsAt(slot)]
               r == SubSeq(q, n + 1, Len(q))
    <2>1. /\ q \in Seq(Threads) /\ SignalsAt(slot) \in Addresses /\ ClosedFirst(q, my, start)
          /\ \A i \in 1 .. Len(q) : my'[q[i]].position = my[q[i]].position
      BY <1>1, QueuedKeep, QueueHolds DEF OrderOK
    <2>2. CASE SignalsAt(slot) # SignalsAt(h)
      BY <1>1, <2>1, <2>2
    <2>3. CASE SignalsAt(slot) = SignalsAt(h)
      <3>1. queue'[SignalsAt(slot)] = r
        BY <1>1, <2>1, <2>3
      <3>2. ClosedFirst(q, my', start)
        BY <2>1, OrderMoves
      <3>3. ClosedFirst(r, my', start)
        BY <3>2, <2>1, <2>3, <1>1, OrderDrop
      <3>4. QED BY <3>1, <3>3
    <2>4. QED BY <2>2, <2>3
  <1>4. QED BY <1>1, <1>3, OrderKeeps

(* Group one's members are in its slot.                                    *)
LEMMA MemberSlot ==
  ASSUME Inv, ~Switching
  PROVE  \A w \in Waiters :
           /\ my[w].position \in Nat /\ start \in Nat
           /\ IsMember(w) => my[w].slot = GroupOne
           /\ Blocked(w) /\ my[w].slot = GroupOne /\ start <= my[w].position => IsMember(w)
  <1>1. PICK e \in 0 .. MaxTickets : BooksAt(e)
    BY EndIs DEF Inv
  <1>2. e = start + word.size /\ start \in Nat /\ word.size \in Nat /\ GroupOne # Other(GroupOne)
    BY <1>1, NumberFacts, SlotFacts DEF BooksAt, EndAt, Inv
  <1>3. ASSUME NEW w \in Waiters
        PROVE  /\ my[w].position \in Nat
               /\ IsMember(w) => my[w].slot = GroupOne
               /\ Blocked(w) /\ my[w].slot = GroupOne /\ start <= my[w].position => IsMember(w)
    <2>1. WaiterAt(w, e) /\ my[w].position \in Nat
      BY <1>1, NumberFacts DEF BooksAt, Inv, Threads
    <2>2. QED BY <1>2, <2>1 DEF WaiterAt, IsMember, HasTicket
  <1>4. QED BY <1>2, <1>3

(* What a wake leaves of the other slot, and of group one if it is there.  *)
LEMMA DropsElsewhere ==
  ASSUME Inv, NEW s \in Signalers, Others(s), NEW h \in Slots, NEW n, Drops(h, n),
         start' = start, word'.size = word.size
  PROVE  /\ \A slot : ClosedParked(slot)' \subseteq ClosedParked(slot)
         /\ \A slot : slot # h => ClosedParked(slot)' = ClosedParked(slot)
         /\ \A w \in Waiters : IsMember(w)' <=> IsMember(w)
         /\ ~Switching /\ GroupOne # h => Awake' = Awake /\ Asleep' = Asleep
  <1>1. \A w \in Waiters : /\ my'[w] = my[w] /\ (Blocked(w)' <=> Blocked(w))
                           /\ pc'[w] = "parked" => pc[w] = "parked"
    BY SignalerFacts
  <1>2. \A w \in Waiters : pc'[w] # pc[w] => pc[w] = "parked" /\ my[w].slot = h /\ pc'[w] = "load"
    BY DropsWakes
  <1>3. \A slot : ClosedParked(slot)' = {w \in Waiters : pc'[w] = "parked"
                                                         /\ my[w].position < start
                                                         /\ my[w].slot = slot}
    BY <1>1 DEF ClosedParked
  <1>4. /\ \A slot : ClosedParked(slot)' \subseteq ClosedParked(slot)
        /\ \A slot : slot # h => ClosedParked(slot)' = ClosedParked(slot)
    BY <1>1, <1>2, <1>3 DEF ClosedParked
  <1>5. \A w \in Waiters : IsMember(w)' <=> IsMember(w)
    BY <1>1 DEF IsMember
  <1>6. ASSUME ~Switching, GroupOne # h PROVE Awake' = Awake /\ Asleep' = Asleep
    <2>1. ASSUME NEW w \in Waiters, IsMember(w) PROVE pc'[w] = pc[w]
      BY <1>2, <1>6, <2>1, MemberSlot
    <2>2. QED BY <1>5, <2>1 DEF Awake, Asleep
  <1>7. QED BY <1>4, <1>5, <1>6

(* A wake of everybody in a slot.                                          *)
LEMMA EmptiedDelivers ==
  ASSUME Inv, WakeInv, NEW s \in Signalers, Others(s), NEW h \in Slots, NEW n, Drops(h, n),
         n = Len(queue[SignalsAt(h)]), start' = start, word'.size = word.size, signals' = signals,
         sequence'.slot = sequence.slot, Switching' <=> Switching,
         \A slot \in Slots : slot # h => ~Wakes(s, slot) /\ ~Wakes(s, slot)'
  PROVE  DeliveryOK'
  <1>1. \A w \in Waiters : my'[w] = my[w] /\ (pc'[w] = "parked" => my[w].slot # h)
    BY SignalerFacts, DropsWakes
  <1>2. \A w \in Waiters : pc'[w] # pc[w] => pc[w] = "parked" /\ my[w].slot = h /\ pc'[w] = "load"
    BY DropsWakes
  <1>3. /\ GroupOne' = GroupOne /\ GroupOne \in Slots /\ Types
        /\ \A slot : slot # h => ClosedParked(slot)' = ClosedParked(slot)
        /\ ~Switching /\ GroupOne # h => Awake' = Awake /\ Asleep' = Asleep
    BY SlotFacts, DropsElsewhere DEF Inv, GroupOne
  <1>4. Served(h)'
    <2>1. ClosedParked(h)' = {}
      BY <1>1 DEF ClosedParked
    <2>2. Cardinality(ClosedParked(h)') = 0 /\ Cardinality(Wakers(h)') \in Nat
      BY <2>1, FS_EmptySet, SetsFinite DEF Wakers
    <2>3. QED BY <2>2 DEF Served
  <1>5. ASSUME NEW slot \in Slots, slot # h
        PROVE  Wakers(slot)' = Wakers(slot) /\ (Loud(slot)' <=> Loud(slot)) /\ Served(slot)'
    <2>1. ~Wakes(s, slot) /\ ~Wakes(s, slot)'
      BY <1>5
    <2>2. Wakers(slot)' = Wakers(slot) /\ (Loud(slot)' <=> Loud(slot))
      BY <2>1, SlotWakers
    <2>3. QED BY <2>2, <1>3, <1>5, ServedKeeps DEF WakeInv, DeliveryOK
  <1>6. GroupServed'
    <2>1. PICK g \in Slots : g = GroupOne
      BY <1>3
    <2>2. CASE g = h
      <3>1. Asleep' = {} \/ Switching'
        <4>1. SUFFICES ASSUME ~Switching PROVE Asleep' = {}
          OBVIOUS
        <4>2. \A w \in Waiters : IsMember(w)' => my[w].slot = h
          BY <4>1, <2>1, <2>2, DropsElsewhere, MemberSlot
        <4>3. QED BY <4>2, <1>1 DEF Asleep
      <3>2. QED BY <3>1 DEF GroupServed
    <2>3. CASE g # h
      <3>1. SUFFICES ASSUME ~Switching, Asleep # {}
                     PROVE  \/ Loud(g)'
                            \/ Cardinality(ClosedParked(g)') + signals'[g]
                                 <= start' + Cardinality(Awake') + Cardinality(Wakers(g)')
        BY <1>3, <2>1, <2>3, GroupServedAt
      <3>2. \/ Loud(g)
            \/ Cardinality(ClosedParked(g)) + signals[g]
                 <= start + Cardinality(Awake) + Cardinality(Wakers(g))
        BY <3>1, <2>1, GroupServedWas DEF WakeInv, DeliveryOK
      <3>3. /\ Awake' = Awake /\ ClosedParked(g)' = ClosedParked(g) /\ Wakers(g)' = Wakers(g)
            /\ Loud(g)' <=> Loud(g)
        BY <1>3, <1>5, <2>1, <2>3, <3>1
      <3>4. QED BY <3>2, <3>3
    <2>4. QED BY <2>2, <2>3
  <1>7. \A slot \in Slots : Served(slot)'
    BY <1>4, <1>5
  <1>8. QED BY <1>6, <1>7 DEF DeliveryOK

(* What a wake of waiters leaves to be shown: that its slot is served.     *)
LEMMA WakeLeaves ==
  ASSUME Inv, Inv', WakeInv, NEW s \in Signalers, Others(s), NEW h \in Slots, NEW n, Drops(h, n),
         start' = start, sizes' = sizes, word' = word, signals' = signals, sequence' = sequence,
         pc[s] \notin {"flip", "open"}, pc'[s] \notin {"flip", "open"}, ~Posts(s), ~Posts(s)'
  PROVE  /\ Laggards' /\ OrderOK' /\ Owed' = Owed /\ Owed \in Nat
         /\ GroupOne' = GroupOne /\ (Switching' <=> Switching)
         /\ \A w \in Waiters : Certain(w)' <=> Certain(w)
  <1>1. SwitchStays /\ PostsStay
    BY SignalersStay DEF WakeInv, Small
  <1>2. GroupsStay /\ GroupOne' = GroupOne /\ (Switching' <=> Switching)
    BY <1>1, SwitchSame DEF GroupsStay, GroupOne
  <1>3. \A w \in Waiters : my'[w] = my[w] /\ (HasTicket(w)' <=> HasTicket(w)) /\ LaggardStays(w)
    BY SignalerFacts
  <1>4. Types /\ Types' /\ Laggards
    BY DEF Inv, WakeInv
  <1>5. Laggards'
    <2>1. \A slot \in Slots : signals'[slot] >= signals[slot]
      BY <1>4 DEF Types
    <2>2. QED BY <1>1, <1>3, <1>4, <2>1, LaggardsKeep
  <1>6. OrderOK'
    BY DropsOrder
  <1>7. Owed' = Owed /\ Owed \in Nat
    <2>1. Within(0, start)' = Within(0, start)
      BY <1>3 DEF Within
    <2>2. Posting' = Posting
      BY <1>1, PostingSame
    <2>3. Posted' = Posted
      BY <1>2 DEF Posted
    <2>4. QED BY <2>1, <2>2, <2>3, OwedNotNegative DEF Owed
  <1>8. ASSUME NEW w \in Waiters PROVE Certain(w)' <=> Certain(w)
    BY <1>1, <1>2, <1>3, CertainSame
  <1>9. QED BY <1>2, <1>5, <1>6, <1>7, <1>8

(* A broadcast drops a whole queue.                                        *)
LEMMA WakesAll ==
  ASSUME Inv, NEW h \in Slots, NEW n \in Nat,
         n = IF All < Len(queue[SignalsAt(h)]) THEN All ELSE Len(queue[SignalsAt(h)])
  PROVE  n = Len(queue[SignalsAt(h)])
  <1> DEFINE q == queue[SignalsAt(h)]
  <1>1. q \in Seq(Threads) /\ Distinct(q)
    BY QueueHolds DEF Inv, QueuesOK
  <1>2. Len(q) <= Cardinality(Threads) /\ Len(q) \in Nat
    BY <1>1, QueueFits, LenProperties
  <1>3. Cardinality(Threads) \in Nat
    BY CondAssumption, FS_CardinalityType
  <1>4. QED BY <1>2, <1>3 DEF All

(* A broadcast wakes the rest of group one,                                *)
LEMMA WakeRestDelivers ==
  ASSUME Inv, Inv', WakeInv, NEW s \in Signalers, WakeRest(s)
  PROVE  Delivered'
  <1>1. /\ Others(s) /\ pc[s] = "wakeRest"
        /\ pc'[s] = IF NothingToInherit(my[s].position, my[s].slot) THEN "unlock" ELSE "close"
        /\ sequence' = sequence /\ start' = start /\ sizes' = sizes /\ word' = word
        /\ signals' = signals /\ since' = since /\ my' = my
    BY WakeRestDoes DEF Inv, Base
  <1>2. /\ my[s].slot = GroupOne /\ s \in Threads /\ GroupOne \in Slots /\ Types /\ HolderAt(s)
        /\ pc[s] \in LockedPlaces /\ ~Switching /\ start \in Nat /\ word.size \in Nat
        /\ sequence.ticket \in Nat
    BY <1>1, HolderSlots DEF Inv
  <1>3. my[s].call = "broadcast" /\ ~my[s].wake
    BY <1>1 DEF WakeInv, Small, CallOK, CallAt
  <1>4. PICK h \in Slots : h = GroupOne
    BY <1>2
  <1>5. PICK n \in Nat : Drops(h, n) /\ n = Len(queue[SignalsAt(h)])
    <2>1. \E next : WakeThen(s, SignalsAt(h), All, "load", next)
      BY <1>2, <1>4 DEF WakeRest
    <2>2. All \in Nat
      BY CondAssumption, FS_CardinalityType DEF All
    <2>3. QED BY <2>1, <2>2, WakeDrops, WakesAll
  <1>6. ~Posts(s) /\ ~Posts(s)' /\ pc'[s] \in {"unlock", "close"}
    BY <1>1, <1>3 DEF Posts
  <1>7. /\ Laggards' /\ OrderOK' /\ Owed' = Owed /\ Owed \in Nat
        /\ GroupOne' = GroupOne /\ (Switching' <=> Switching)
        /\ \A w \in Waiters : Certain(w)' <=> Certain(w)
    BY <1>1, <1>5, <1>6, WakeLeaves
  <1>8. DeliveryOK'
    <2>1. \A slot \in Slots : slot # h => ~Wakes(s, slot) /\ ~Wakes(s, slot)'
      BY <1>1, <1>2, <1>4 DEF Wakes
    <2>2. QED BY <1>1, <1>5, <1>7, <2>1, EmptiedDelivers
  <1>9. CalledOK'
    <2>1. SinceStays /\ Owed' >= Owed
      BY <1>1, <1>7 DEF SinceStays
    <2>2. ASSUME NEW w \in Waiters, Blocked(w), ~Certain(w)', Reaches(s, w) PROVE Reaches(s, w)'
      <3>1. my[w].position < my[s].position /\ ~Certain(w)
        BY <1>1, <1>7, <2>2 DEF Reaches
      <3>2. CASE pc'[s] = "close"
        BY <1>1, <1>3, <3>2 DEF Reaches
      <3>3. CASE pc'[s] = "unlock"
        <4>1. NothingToInherit(my[s].position, GroupOne)
          BY <1>1, <1>2, <3>3
        <4>2. sizes[Other(GroupOne)] = 0 /\ my[s].position \in Nat
          BY <1>2, GroupsAre, NumberFacts DEF Inv
        <4>3. my[s].position = start + word.size
          BY <1>2, <4>1, <4>2 DEF NothingToInherit
        <4>4. Certain(w)
          BY <1>1, <1>2, <2>2, <3>1, <4>2, <4>3, NobodyWaits DEF HolderAt, HasTicket, LockedPlaces
        <4>5. QED BY <4>4, <3>1
      <3>4. QED BY <1>6, <3>2, <3>3
    <2>3. QED BY <1>1, <1>2, <1>7, <2>1, <2>2, SignalerCalled
  <1>10. QED BY <1>7, <1>8, <1>9 DEF Delivered

(* Who a signal's wake takes: the first of its slot's queue, a member of a *)
(* closed group if there is one.                                           *)
LEMMA FirstWoken ==
  ASSUME Inv, WakeInv, NEW s \in Signalers, Others(s), NEW h \in Slots, Drops(h, 1)
  PROVE  \E u \in Waiters :
           /\ pc[u] = "parked" /\ my[u].slot = h /\ pc'[u] # "parked"
           /\ \A w \in Waiters : w # u => pc'[w] = pc[w]
           /\ my[u].position < start \/ ClosedParked(h) = {}
  <1> DEFINE q == queue[SignalsAt(h)]
  <1>1. /\ \A i \in 1 .. Len(q) : q[i] \in Waiters /\ pc[q[i]] = "parked" /\ my[q[i]].slot = h
        /\ \A w \in Waiters : pc[w] = "parked" /\ my[w].slot = h => \E i \in 1 .. Len(q) : q[i] = w
        /\ Len(q) \in Nat /\ ClosedFirst(q, my, start)
    BY QueueHolds, LenProperties DEF Inv, WakeInv, OrderOK
  <1>2. /\ 1 \in 0 .. Len(q)
        /\ \A w \in Waiters : pc'[w] = IF \E i \in 1 .. 1 : q[i] = w THEN "load" ELSE pc[w]
    BY DEF Drops
  <1> HIDE DEF q
  <1>3. 1 \in 1 .. Len(q) /\ q[1] \in Waiters
    BY <1>1, <1>2
  <1>4. PICK u \in Waiters : u = q[1]
    BY <1>3
  <1>5. pc[u] = "parked" /\ my[u].slot = h /\ pc'[u] # "parked"
    BY <1>1, <1>2, <1>3, <1>4
  <1>6. \A w \in Waiters : w # u => pc'[w] = pc[w]
    BY <1>2, <1>4
  <1>7. ASSUME ~(my[u].position < start), NEW w \in ClosedParked(h) PROVE FALSE
    <2>1. w \in Waiters /\ pc[w] = "parked" /\ my[w].position < start /\ my[w].slot = h
      BY <1>7 DEF ClosedParked
    <2>2. PICK j \in 1 .. Len(q) : q[j] = w
      BY <1>1, <2>1
    <2>3. j # 1
      BY <1>4, <1>7, <2>1, <2>2
    <2>4. 1 < j
      BY <1>1, <2>2, <2>3
    <2>5. my[q[1]].position < start
      BY <1>1, <1>3, <2>1, <2>2, <2>4 DEF ClosedFirst
    <2>6. QED BY <1>4, <1>7, <2>5
  <1>8. QED BY <1>5, <1>6, <1>7

(* A signal's wake takes one thread, and one waker is gone.                *)
LEMMA OneDelivers ==
  ASSUME Inv, WakeInv, NEW s \in Signalers, Others(s), NEW h \in Slots, Drops(h, 1),
         start' = start, word'.size = word.size, signals' = signals,
         sequence'.slot = sequence.slot, Switching' <=> Switching,
         my[s].call # "broadcast", Wakes(s, h), \A slot \in Slots : ~Wakes(s, slot)'
  PROVE  DeliveryOK'
  <1>1. PICK u \in Waiters :
           /\ pc[u] = "parked" /\ my[u].slot = h /\ pc'[u] # "parked"
           /\ \A w \in Waiters : w # u => pc'[w] = pc[w]
           /\ my[u].position < start \/ ClosedParked(h) = {}
    BY FirstWoken
  <1>2. /\ GroupOne' = GroupOne /\ GroupOne \in Slots /\ Types
        /\ \A slot : ClosedParked(slot)' \subseteq ClosedParked(slot)
        /\ \A slot : slot # h => ClosedParked(slot)' = ClosedParked(slot)
        /\ \A w \in Waiters : IsMember(w)' <=> IsMember(w)
        /\ ~Switching /\ GroupOne # h => Awake' = Awake /\ Asleep' = Asleep
    BY SlotFacts, DropsElsewhere DEF Inv, GroupOne
  <1>3. \A w \in Waiters : my'[w] = my[w]
    BY SignalerFacts
  <1>4. Cardinality(Wakers(h)') = Cardinality(Wakers(h)) - 1
    <2>1. s \in Wakers(h) /\ s \notin Wakers(h)' /\ Wakers(h) \subseteq Signalers
      BY DEF Wakers
    <2>2. Wakers(h)' = Wakers(h) \ {s}
      BY <2>1, OtherWakersStay
    <2>3. QED BY <2>1, <2>2, OneFewer
  <1>5. Loud(h) => Loud(h)'
    <2>1. SUFFICES ASSUME Loud(h) PROVE Loud(h)'
      OBVIOUS
    <2>2. \E v \in Signalers : v # s /\ Wakes(v, h) /\ my[v].call = "broadcast"
      BY <2>1 DEF Loud
    <2>3. QED BY <2>2, OtherWakersStay
  <1>6. \/ /\ Cardinality(ClosedParked(h)') = Cardinality(ClosedParked(h)) - 1
           /\ ~Switching /\ GroupOne = h => Cardinality(Awake') = Cardinality(Awake)
        \/ /\ Cardinality(ClosedParked(h)') = 0 /\ Cardinality(ClosedParked(h)) = 0
           /\ ~Switching /\ GroupOne = h => Cardinality(Awake') = Cardinality(Awake) + 1
    <2>1. CASE my[u].position < start
      <3>1. u \in ClosedParked(h) /\ ClosedParked(h) \subseteq Waiters
        BY <1>1, <2>1 DEF ClosedParked
      <3>2. ClosedParked(h)' = ClosedParked(h) \ {u}
        BY <1>1, <1>3, SignalerFacts, DropsElsewhere DEF ClosedParked
      <3>3. Cardinality(ClosedParked(h)') = Cardinality(ClosedParked(h)) - 1
        BY <3>1, <3>2, OneFewer
      <3>4. ASSUME ~Switching PROVE Awake' = Awake
        <4>1. my[u].position \in Nat /\ start \in Nat
          BY <3>4, MemberSlot
        <4>2. ~IsMember(u)
          BY <2>1, <4>1 DEF IsMember
        <4>3. QED BY <1>1, <1>2, <4>2 DEF Awake
      <3>5. QED BY <3>3, <3>4
    <2>2. CASE ~(my[u].position < start)
      <3>1. ClosedParked(h) = {} /\ ClosedParked(h)' = {}
        BY <1>1, <1>2, <2>2
      <3>2. Cardinality(ClosedParked(h)) = 0 /\ Cardinality(ClosedParked(h)') = 0
        BY <3>1, FS_EmptySet
      <3>3. ASSUME ~Switching, GroupOne = h PROVE Cardinality(Awake') = Cardinality(Awake) + 1
        <4>1. my[u].position \in Nat /\ start \in Nat /\ Blocked(u)
          BY <1>1, <3>3, MemberSlot DEF Blocked
        <4>2. IsMember(u)
          BY <1>1, <2>2, <3>3, <4>1, MemberSlot
        <4>3. Awake \subseteq Waiters /\ u \notin Awake /\ Awake' = Awake \cup {u}
          BY <1>1, <1>2, <4>2 DEF Awake
        <4>4. QED BY <4>3, OneMore
      <3>4. QED BY <3>2, <3>3
    <2>3. QED BY <2>1, <2>2
  <1>7. /\ Cardinality(ClosedParked(h)) \in Nat /\ Cardinality(Wakers(h)) \in Nat
        /\ Cardinality(Awake) \in Nat /\ start \in Nat /\ signals[h] \in Nat
    BY <1>2, CountsAreNat DEF Types
  <1>8. Served(h)'
    <2>1. CASE Loud(h)
      BY <2>1, <1>5 DEF Served
    <2>2. CASE ~Loud(h)
      <3>1. Cardinality(ClosedParked(h)) <= Cardinality(Wakers(h))
        BY <2>2 DEF WakeInv, DeliveryOK, Served
      <3>2. Cardinality(Wakers(h)) >= 1
        BY <1>4, <1>7, CountsAreNat, SetsFinite DEF Wakers
      <3>3. Cardinality(ClosedParked(h)') <= Cardinality(Wakers(h)')
        BY <1>4, <1>6, <1>7, <3>1, <3>2
      <3>4. QED BY <3>3 DEF Served
    <2>3. QED BY <2>1, <2>2
  <1>9. ASSUME NEW slot \in Slots, slot # h
        PROVE  Wakers(slot)' = Wakers(slot) /\ (Loud(slot)' <=> Loud(slot)) /\ Served(slot)'
    <2>1. ~Wakes(s, slot) /\ ~Wakes(s, slot)'
      BY <1>9 DEF Wakes
    <2>2. Wakers(slot)' = Wakers(slot) /\ (Loud(slot)' <=> Loud(slot))
      BY <2>1, SlotWakers
    <2>3. QED BY <2>2, <1>2, <1>9, ServedKeeps DEF WakeInv, DeliveryOK
  <1>10. GroupServed'
    <2>1. PICK g \in Slots : g = GroupOne
      BY <1>2
    <2>2. SUFFICES ASSUME ~Switching, Asleep' # {}
                   PROVE  \/ Loud(g)'
                          \/ Cardinality(ClosedParked(g)') + signals'[g]
                               <= start' + Cardinality(Awake') + Cardinality(Wakers(g)')
      BY <1>2, <2>1, GroupServedAt
    <2>3. Asleep # {}
      <3>1. PICK w \in Waiters : IsMember(w)' /\ pc'[w] = "parked"
        BY <2>2 DEF Asleep
      <3>2. IsMember(w) /\ pc[w] = "parked"
        BY <3>1, <1>2, SignalerFacts
      <3>3. QED BY <3>2 DEF Asleep
    <2>4. \/ Loud(g)
          \/ Cardinality(ClosedParked(g)) + signals[g]
               <= start + Cardinality(Awake) + Cardinality(Wakers(g))
      BY <2>1, <2>2, <2>3, GroupServedWas DEF WakeInv, DeliveryOK
    <2>5. CASE g = h
      <3>1. CASE Loud(g)
        BY <3>1, <2>5, <1>5
      <3>2. CASE ~Loud(g)
        <4>1. Cardinality(ClosedParked(h)) + signals[h]
                <= start + Cardinality(Awake) + Cardinality(Wakers(h))
          BY <2>4, <2>5, <3>2
        <4>2. Cardinality(ClosedParked(h)') + signals[h]
                <= start + Cardinality(Awake') + Cardinality(Wakers(h)')
          <5>1. \/ /\ Cardinality(ClosedParked(h)') = Cardinality(ClosedParked(h)) - 1
                   /\ Cardinality(Awake') = Cardinality(Awake)
                \/ /\ Cardinality(ClosedParked(h)') = 0 /\ Cardinality(ClosedParked(h)) = 0
                   /\ Cardinality(Awake') = Cardinality(Awake) + 1
            BY <1>6, <2>1, <2>2, <2>5
          <5>2. QED BY <1>4, <1>7, <4>1, <5>1
        <4>3. QED BY <4>2, <2>5
      <3>3. QED BY <3>1, <3>2
    <2>6. CASE g # h
      <3>1. /\ Awake' = Awake /\ ClosedParked(g)' = ClosedParked(g) /\ Wakers(g)' = Wakers(g)
            /\ Loud(g)' <=> Loud(g)
        BY <1>2, <1>9, <2>1, <2>2, <2>6
      <3>2. QED BY <2>4, <3>1
    <2>7. QED BY <2>5, <2>6
  <1>11. QED BY <1>8, <1>9, <1>10 DEF DeliveryOK

(* and a call ends with the wake that it owes: of the first thread, or of  *)
(* all.                                                                    *)
LEMMA WakeWaitersDelivers ==
  ASSUME Inv, Inv', WakeInv, NEW s \in Signalers, WakeWaiters(s)
  PROVE  Delivered'
  <1>1. /\ Others(s) /\ pc[s] = "wake" /\ pc'[s] = "out" /\ my'[s] = Idle
        /\ sequence' = sequence /\ start' = start /\ sizes' = sizes /\ word' = word
        /\ signals' = signals /\ since' = since
    BY WakeWaitersDoes DEF Inv, Base
  <1>2. s \in Threads /\ Types /\ LocalAt(s) /\ my[s] \in LocalType /\ my[s].slot \in Slots
        /\ my[s].wake /\ my[s].call \in {"signal", "broadcast"}
    <2>1. s \in Threads /\ Types /\ LocalAt(s)
      BY DEF Inv, Threads, LocalsOK
    <2>2. my[s] \in LocalType /\ my[s].wake
      BY <1>1, <2>1 DEF Types, WakeInv, Small, CallOK, CallAt
    <2>3. QED BY <2>1, <2>2 DEF LocalType, LocalAt
  <1>3. PICK h \in Slots : h = my[s].slot
    BY <1>2
  <1>4. PICK n \in Nat : /\ Drops(h, n)
                         /\ n = IF WakeCount(my[s].call) < Len(queue[SignalsAt(h)])
                                  THEN WakeCount(my[s].call) ELSE Len(queue[SignalsAt(h)])
    <2>1. WakeThen(s, SignalsAt(h), WakeCount(my[s].call), "load", "out")
      BY <1>3 DEF WakeWaiters
    <2>2. WakeCount(my[s].call) \in Nat
      BY CondAssumption, FS_CardinalityType DEF All, WakeCount
    <2>3. QED BY <2>1, <2>2, WakeDrops
  <1>5. ~Posts(s) /\ ~Posts(s)' /\ (\A slot \in Slots : ~Wakes(s, slot)')
    BY <1>1, IdleFacts DEF Posts, Wakes
  <1>6. /\ Laggards' /\ OrderOK' /\ Owed' = Owed /\ Owed \in Nat
        /\ GroupOne' = GroupOne /\ (Switching' <=> Switching)
        /\ \A w \in Waiters : Certain(w)' <=> Certain(w)
    BY <1>1, <1>4, <1>5, WakeLeaves
  <1>7. Wakes(s, h) /\ \A slot \in Slots : slot # h => ~Wakes(s, slot)
    BY <1>2, <1>3 DEF Wakes
  <1>8. DeliveryOK'
    <2>1. CASE n = Len(queue[SignalsAt(h)])
      BY <1>1, <1>4, <1>5, <1>6, <1>7, <2>1, EmptiedDelivers
    <2>2. CASE n # Len(queue[SignalsAt(h)])
      <3>1. n = WakeCount(my[s].call)
        BY <1>4, <2>2
      <3>2. my[s].call # "broadcast"
        <4>1. SUFFICES ASSUME my[s].call = "broadcast" PROVE FALSE
          OBVIOUS
        <4>2. n = IF All < Len(queue[SignalsAt(h)]) THEN All ELSE Len(queue[SignalsAt(h)])
          BY <1>4, <4>1 DEF WakeCount
        <4>3. QED BY <2>2, <4>2, WakesAll
      <3>3. n = 1
        BY <1>2, <3>1, <3>2 DEF WakeCount
      <3>4. Drops(h, 1)
        BY <1>4, <3>3
      <3>5. QED BY <1>1, <1>5, <1>6, <1>7, <3>2, <3>4, OneDelivers
    <2>3. QED BY <2>1, <2>2
  <1>9. CalledOK'
    <2>1. SinceStays /\ Owed' >= Owed /\ start' + word'.size = start + word.size
      BY <1>1, <1>6 DEF SinceStays
    <2>2. \A w \in Waiters : ~Reaches(s, w)
      BY <1>1 DEF Reaches
    <2>3. QED BY <1>1, <1>6, <2>1, <2>2, SignalerCalled
  <1>10. QED BY <1>6, <1>8, <1>9 DEF Delivered

-----------------------------------------------------------------------------
(* Every step of the condition variable keeps what is owed to the waiters, *)
LEMMA DeliveredStep ==
  ASSUME FifoWake, Inv, Inv', WakeInv, Next
  PROVE  Delivered'
  <1>1. ASSUME NEW w \in Waiters, LockMutex(w) PROVE Delivered'
    BY <1>1, LockMutexQuiet, QuietKeeps DEF Delivered, Threads
  <1>2. ASSUME NEW w \in Waiters, UnlockMutex(w) PROVE Delivered'
    BY <1>2, UnlockMutexQuiet, QuietKeeps DEF Delivered, Threads
  <1>3. ASSUME NEW w \in Waiters, TakeTicket(w) PROVE Delivered'
    BY <1>3, TakeTicketDelivers
  <1>4. ASSUME NEW w \in Waiters, Register(w) PROVE Delivered'
    BY <1>4, RegisterQuiet, QuietKeeps DEF Delivered, Threads
  <1>5. ASSUME NEW w \in Waiters, ReleaseMutex(w) PROVE Delivered'
    BY <1>5, ReleaseMutexDelivers
  <1>6. ASSUME NEW w \in Waiters, LoadSignals(w) PROVE Delivered'
    BY <1>6, LoadSignalsQuiet, QuietKeeps DEF Delivered, Threads
  <1>7. ASSUME NEW w \in Waiters, Decide(w) PROVE Delivered'
    BY <1>7, DecideDelivers
  <1>8. ASSUME NEW w \in Waiters, TakeSignal(w) PROVE Delivered'
    BY <1>8, TakeSignalDelivers
  <1>9. ASSUME NEW w \in Waiters, ParkWaiter(w) PROVE Delivered'
    BY <1>9, ParkWaiterDelivers
  <1>10. ASSUME NEW w \in Waiters, Confirm(w) PROVE Delivered'
    BY <1>10, ConfirmQuiet, QuietKeeps DEF Delivered, Threads
  <1>11. ASSUME NEW w \in Waiters, WakeDestroyer(w) PROVE Delivered'
    BY <1>11, WakeDestroyerQuiet, QuietKeeps DEF Delivered, Threads
  <1>12. ASSUME NEW w \in Waiters, ReacquireMutex(w) PROVE Delivered'
    BY <1>12, ReacquireMutexQuiet, QuietKeeps DEF Delivered, Threads
  <1>13. ASSUME NEW w \in Waiters, Interrupted(w) PROVE Delivered'
    BY <1>13, InterruptedWaiterDelivers
  <1>14. ASSUME NEW s \in Signalers, LockWord(s) PROVE Delivered'
    BY <1>14, LockWordQuiet, QuietKeeps DEF Delivered, Threads
  <1>15. ASSUME NEW s \in Signalers, LockSlow(s) PROVE Delivered'
    BY <1>15, LockSlowQuiet, QuietKeeps DEF Delivered, Threads
  <1>16. ASSUME NEW s \in Signalers, LockPark(s) PROVE Delivered'
    BY <1>16, LockParkQuiet, QuietKeeps DEF Delivered, Threads
  <1>17. ASSUME NEW s \in Signalers, Observe(s) PROVE Delivered'
    BY <1>17, ObserveDelivers
  <1>18. ASSUME NEW s \in Signalers, PostRest(s) PROVE Delivered'
    BY <1>18, PostRestDelivers
  <1>19. ASSUME NEW s \in Signalers, WakeRest(s) PROVE Delivered'
    BY <1>19, WakeRestDelivers
  <1>20. ASSUME NEW s \in Signalers, CloseGroup(s) PROVE Delivered'
    BY <1>20, CloseGroupDelivers
  <1>21. ASSUME NEW s \in Signalers, FlipSlot(s) PROVE Delivered'
    BY <1>21, FlipSlotDelivers
  <1>22. ASSUME NEW s \in Signalers, OpenGroup(s) PROVE Delivered'
    BY <1>22, OpenGroupDelivers
  <1>23. ASSUME NEW s \in Signalers, Post(s) PROVE Delivered'
    BY <1>23, PostDelivers
  <1>24. ASSUME NEW s \in Signalers, Unlock(s) PROVE Delivered'
    BY <1>24, UnlockQuiet, QuietKeeps DEF Delivered, Threads
  <1>25. ASSUME NEW s \in Signalers, WakeLocker(s) PROVE Delivered'
    BY <1>25, WakeLockerQuiet, QuietKeeps DEF Delivered, Threads
  <1>26. ASSUME NEW s \in Signalers, WakeWaiters(s) PROVE Delivered'
    BY <1>26, WakeWaitersDelivers
  <1>27. ASSUME NEW s \in Signalers, BeginDestroy(s) PROVE Delivered'
    BY <1>27, BeginDestroyQuiet, QuietKeeps DEF Delivered, Threads
  <1>28. ASSUME NEW s \in Signalers, Destroy(s) PROVE Delivered'
    BY <1>28, DestroyQuiet, QuietKeeps DEF Delivered, Threads
  <1>29. ASSUME NEW s \in Signalers, ParkDestroyer(s) PROVE Delivered'
    BY <1>29, ParkDestroyerQuiet, QuietKeeps DEF Delivered, Threads
  <1>30. ASSUME NEW s \in Signalers, Interrupted(s) PROVE Delivered'
    BY <1>30, InterruptedQuiet, QuietKeeps DEF Delivered, Threads
  <1>31. ASSUME NEW s \in Signalers, NEW k \in Kinds, Begin(s, k) PROVE Delivered'
    BY <1>31, BeginDelivers, CondAssumption
  <1>32. QED
    BY <1>1, <1>2, <1>3, <1>4, <1>5, <1>6, <1>7, <1>8, <1>9, <1>10, <1>11, <1>12, <1>13, <1>14,
       <1>15, <1>16, <1>17, <1>18, <1>19, <1>20, <1>21, <1>22, <1>23, <1>24, <1>25, <1>26, <1>27,
       <1>28, <1>29, <1>30, <1>31
       DEF Next, WaitStep, SignalStep, DestroyStep

(* and so does a step that changes nothing; it holds at the start.         *)
LEMMA WakeStutter ==
  ASSUME Inv, Inv', WakeInv, UNCHANGED vars
  PROVE  WakeInv'
  <1>1. UNCHANGED <<sequence, start, sizes, word, refs, signals, depth, suspended, queue, pc, my,
          calls, destroyed, since>>
    BY DEF vars, state, history, mutexVars
  <1>2. GroupsStay /\ SwitchStays /\ PostsStay /\ WaitersStand
    BY <1>1 DEF GroupsStay, SwitchStays, PostsStay, Posts, WaitersStand, Stands, HasTicket, Blocked
  <1>3. Small'
    BY <1>1 DEF WakeInv, Small, MutexOK, LastOK, FreshOK, CallOK, CallAt, HasTicket, Blocked
  <1>4. Types /\ Types' /\ GroupOne' = GroupOne
    BY <1>2, SlotsSame DEF Inv
  <1>5. Laggards'
    <2>1. \A w \in Waiters : LaggardStays(w)
      BY <1>2, StandingLaggard DEF WaitersStand
    <2>2. \A slot \in Slots : signals'[slot] >= signals[slot]
      BY <1>1, <1>4 DEF Types
    <2>3. QED BY <1>1, <1>2, <1>4, <2>1, <2>2, LaggardsKeep DEF WakeInv
  <1>6. OrderOK'
    BY <1>1 DEF WakeInv, OrderOK, ClosedFirst
  <1>7. \A slot \in Slots : Wakers(slot)' = Wakers(slot) /\ (Loud(slot)' <=> Loud(slot))
    BY <1>1 DEF Wakers, Loud, Wakes
  <1>8. /\ \A slot : ClosedParked(slot)' = ClosedParked(slot)
        /\ Awake' = Awake /\ Asleep' = Asleep
    BY <1>1, <1>2, ClosedSame, MembersSame
  <1>9. DeliveryOK'
    <2>1. GroupServed'
      BY <1>1, <1>2, <1>4, <1>7, <1>8, GroupKeeps, SwitchSame DEF WakeInv, DeliveryOK
    <2>2. \A slot \in Slots : Served(slot)'
      BY <1>7, <1>8, ServedKeeps DEF WakeInv, DeliveryOK
    <2>3. QED BY <2>1, <2>2 DEF DeliveryOK
  <1>10. CalledOK'
    <2>1. Owed' = Owed /\ Owed \in Nat
      BY <1>1, <1>2, OwedSame, OwedNotNegative
    <2>2. ASSUME NEW w \in Waiters PROVE CalledStays(w)
      <3>1. Certain(w)' <=> Certain(w)
        BY <1>1, <1>2, CertainSame
      <3>2. \A s \in Signalers : Reaches(s, w)' <=> Reaches(s, w)
        BY <1>1 DEF Reaches
      <3>3. QED BY <1>1, <1>2, <3>1, <3>2 DEF CalledStays, WaitersStand, Stands
    <2>3. Owed' >= Owed /\ Owed' >= 0
      BY <2>1
    <2>4. QED BY <1>4, <2>2, <2>3, CalledKeeps DEF WakeInv
  <1>11. QED BY <1>3, <1>5, <1>6, <1>9, <1>10 DEF WakeInv

(* It holds at the start,                                                  *)
LEMMA WakeInit ==
  ASSUME Init
  PROVE  WakeInv
  <1>1. /\ pc = [t \in Threads |-> "out"] /\ my = [t \in Threads |-> Idle] /\ start = 0
        /\ \A slot \in Slots : signals[slot] = 0 /\ queue[SignalsAt(slot)] = <<>>
        /\ GroupOne \in Slots /\ Other(GroupOne) \in Slots
    BY DEF Init, Addresses, SignalsAt, GroupOne, Other, Slots
  <1>2. /\ \A w \in Waiters : pc[w] = "out" /\ ~HasTicket(w) /\ ~Blocked(w) /\ w \in Threads
        /\ \A s \in Signalers : pc[s] = "out" /\ my[s] = Idle /\ ~my[s].wake
        /\ ~Switching
    BY <1>1, IdleFacts DEF HasTicket, Blocked, Threads, Switching
  <1>3. Small
    <2>1. depth \in [Waiters -> Nat] /\ suspended \in [Waiters -> Nat]
      BY DEF Init, mutex!Init
    <2>2. \A w \in Waiters : since[w].signals = 0 /\ since[w].wakes = 0 /\ ~since[w].broadcast
      BY DEF Init, Nothing
    <2>3. MutexOK
      BY <1>2, <2>1 DEF MutexOK, Inside
    <2>4. QED BY <1>2, <2>2, <2>3 DEF Small, LastOK, FreshOK, CallOK, CallAt
  <1>4. Laggards
    <2>1. LastSlot \in Slots /\ signals[LastSlot] = 0
      BY <1>1, SlotFacts DEF LastSlot, Reused, Other, Slots
    <2>2. Cardinality(Within(0, start)) = 0
      <3>1. Within(0, start) = {}
        BY <1>2 DEF Within
      <3>2. QED BY <3>1, FS_EmptySet
    <2>3. BasesAt(0, 0)
      BY <1>1, <1>2, <2>1, <2>2 DEF BasesAt
    <2>4. \A w \in Waiters : LaggardAt(w, 0, 0)
      BY <1>2 DEF LaggardAt
    <2>5. 0 \in 0 .. MaxTickets
      BY CondAssumption
    <2>6. QED BY <2>3, <2>4, <2>5 DEF Laggards, LaggardsAt
  <1>5. OrderOK
    BY <1>1 DEF OrderOK, ClosedFirst
  <1>6. DeliveryOK
    <2>1. ASSUME NEW slot \in Slots PROVE Served(slot)
      <3>1. ClosedParked(slot) = {}
        BY <1>2 DEF ClosedParked
      <3>2. Cardinality(ClosedParked(slot)) = 0 /\ Cardinality(Wakers(slot)) \in Nat
        BY <3>1, FS_EmptySet, CountsAreNat
      <3>3. QED BY <3>2 DEF Served
    <2>2. Asleep = {}
      BY <1>2 DEF Asleep, IsMember
    <2>3. QED BY <2>1, <2>2 DEF DeliveryOK, GroupServed
  <1>7. CalledOK
    BY <1>2 DEF CalledOK, CalledAt
  <1>8. QED BY <1>3, <1>4, <1>5, <1>6, <1>7 DEF WakeInv

(* so it holds in every reachable state.                                   *)
LEMMA WakeInvariant ==
  ASSUME FifoWake
  PROVE  Spec => [](Inv /\ WakeInv)
  <1>1. Init => Inv /\ WakeInv
    BY InitInv, WakeInit
  <1>2. Inv /\ WakeInv /\ [Next]_vars => (Inv /\ WakeInv)'
    <2>1. SUFFICES ASSUME Inv, WakeInv, [Next]_vars PROVE Inv' /\ WakeInv'
      OBVIOUS
    <2>2. Inv'
      BY <2>1, NextInv, StutterInv
    <2>3. CASE UNCHANGED vars
      BY <2>1, <2>2, <2>3, WakeStutter
    <2>4. CASE Next
      <3>1. Delivered'
        BY <2>1, <2>2, <2>4, DeliveredStep
      <3>2. Small'
        BY <2>1, <2>4, SmallStep DEF WakeInv
      <3>3. QED BY <2>2, <3>1, <3>2 DEF WakeInv, Delivered
    <2>5. QED BY <2>1, <2>3, <2>4
  <1>3. QED BY <1>1, <1>2, PTL DEF Spec

-----------------------------------------------------------------------------
(* The wakes under way, counted as PostedIsDelivered counts them.          *)
LEMMA PendingAre ==
  ASSUME NEW slot
  PROVE  PendingWakes(slot) = IF Loud(slot) THEN Cardinality(Waiters) ELSE Cardinality(Wakers(slot))
  <1> DEFINE wakers == {s \in Signalers : /\ my[s].slot = slot
                                          /\ my[s].wake \/ pc[s] = "wakeRest"}
  <1>1. wakers = Wakers(slot)
    BY DEF Wakers, Wakes
  <1>2. (\E s \in wakers : my[s].call = "broadcast") <=> Loud(slot)
    BY DEF Loud, Wakes
  <1>3. PendingWakes(slot) = IF \E s \in wakers : my[s].call = "broadcast"
                               THEN Cardinality(Waiters) ELSE Cardinality(wakers)
    BY DEF PendingWakes
  <1>4. QED BY <1>1, <1>2, <1>3

(* Group one's members asleep and awake, those that still hold the mutex   *)
(* among the latter; there are signals for some of them at most.           *)
LEMMA MembersAre ==
  ASSUME Inv, ~Switching
  PROVE  LET S == {w \in Waiters : InGroupOne(w)}
             A == {w \in S : pc[w] # "parked"} IN
           /\ Cardinality(S) \in Nat /\ Cardinality(A) \in Nat
           /\ Cardinality(S) <= Cardinality(Waiters)
           /\ signals[GroupOne] \in Nat /\ start \in Nat /\ sizes[GroupOne] \in Nat
           /\ Cardinality(S) = sizes[GroupOne] + signals[GroupOne] - start
           /\ Cardinality(Awake) <= Cardinality(A)
           /\ Asleep = {} => A = S
  <1> DEFINE S == {w \in Waiters : InGroupOne(w)}
             A == {w \in S : pc[w] # "parked"}
  <1>1. S \subseteq Waiters /\ A \subseteq Waiters
    OBVIOUS
  <1>2. Cardinality(S) \in Nat /\ Cardinality(A) \in Nat /\ Cardinality(S) <= Cardinality(Waiters)
    BY <1>1, SetsFinite, FewerCount
  <1>3. signals[GroupOne] \in Nat /\ start \in Nat /\ sizes[GroupOne] \in Nat
    BY SlotFacts, NumberFacts DEF Inv, Types
  <1>4. Cardinality(S) = sizes[GroupOne] + signals[GroupOne] - start
    BY AccountsHold DEF GroupAccounting
  <1>5. Cardinality(Awake) <= Cardinality(A)
    <2>1. Awake \subseteq A
      BY DEF Awake, IsMember, InGroupOne, HasTicket
    <2>2. QED BY <1>1, <2>1, FewerCount
  <1>6. ASSUME Asleep = {} PROVE A = S
    <2>1. ASSUME NEW w \in S, pc[w] = "parked" PROVE FALSE
      BY <1>6, <2>1 DEF Asleep, IsMember, InGroupOne, Blocked
    <2>2. QED BY <2>1
  <1> HIDE DEF S, A
  <1>7. QED BY <1>2, <1>3, <1>4, <1>5, <1>6 DEF S, A

(* The wakes owed are what PostedIsDelivered counts,                       *)
LEMMA PostedDelivered ==
  ASSUME Inv, WakeInv
  PROVE  PostedIsDelivered
  <1>1. ASSUME NEW slot \in Slots
        PROVE  Cardinality({w \in Waiters : InClosed(w) /\ my[w].slot = slot /\ pc[w] = "parked"})
                 <= PendingWakes(slot)
    <2>1. {w \in Waiters : InClosed(w) /\ my[w].slot = slot
                           /\ pc[w] = "parked"} = ClosedParked(slot)
      BY DEF InClosed, ClosedParked, Blocked
    <2>2. CASE Loud(slot)
      <3>1. ClosedParked(slot) \subseteq Waiters
        BY DEF ClosedParked
      <3>2. Cardinality(ClosedParked(slot)) <= Cardinality(Waiters)
        BY <3>1, FewerCount
      <3>3. QED BY <2>1, <2>2, <3>2, PendingAre
    <2>3. CASE ~Loud(slot)
      <3>1. Cardinality(ClosedParked(slot)) <= Cardinality(Wakers(slot))
        BY <2>3 DEF WakeInv, DeliveryOK, Served
      <3>2. QED BY <2>1, <2>3, <3>1, PendingAre
    <2>4. QED BY <2>2, <2>3
  <1>2. ASSUME ~Switching
        PROVE  signals[GroupOne] - start
                 <= AwakeIn({w \in Waiters : InGroupOne(w)}) + PendingWakes(GroupOne)
    <2> DEFINE S == {w \in Waiters : InGroupOne(w)}
               A == {w \in S : pc[w] # "parked"}
    <2>1. /\ Cardinality(S) \in Nat /\ Cardinality(A) \in Nat
          /\ Cardinality(S) <= Cardinality(Waiters)
          /\ signals[GroupOne] \in Nat /\ start \in Nat /\ sizes[GroupOne] \in Nat
          /\ Cardinality(S) = sizes[GroupOne] + signals[GroupOne] - start
          /\ Cardinality(Awake) <= Cardinality(A)
          /\ Asleep = {} => A = S
      BY <1>2, MembersAre
    <2>2. AwakeIn(S) = Cardinality(A)
      BY DEF AwakeIn
    <2> HIDE DEF S, A
    <2>3. /\ Cardinality(Wakers(GroupOne)) \in Nat /\ Cardinality(ClosedParked(GroupOne)) \in Nat
          /\ Cardinality(Awake) \in Nat /\ Cardinality(Waiters) \in Nat
      BY CountsAreNat, SetsFinite
    <2>4. CASE Asleep = {}
      <3>1. Cardinality(A) = Cardinality(S) /\ PendingWakes(GroupOne) \in Nat
        BY <2>1, <2>3, <2>4, PendingAre
      <3>2. QED BY <2>1, <2>2, <3>1 DEF S
    <2>5. CASE Asleep # {}
      <3>1. CASE Loud(GroupOne)
        BY <2>1, <2>2, <2>3, <3>1, PendingAre DEF S
      <3>2. CASE ~Loud(GroupOne)
        <4>1. Cardinality(ClosedParked(GroupOne)) + signals[GroupOne]
                <= start + Cardinality(Awake) + Cardinality(Wakers(GroupOne))
          BY <1>2, <2>5, <3>2 DEF WakeInv, DeliveryOK, GroupServed
        <4>2. PendingWakes(GroupOne) = Cardinality(Wakers(GroupOne))
          BY <3>2, PendingAre
        <4>3. QED BY <2>1, <2>2, <2>3, <4>1, <4>2 DEF S
      <3>3. QED BY <3>1, <3>2
    <2>6. QED BY <2>4, <2>5
  <1>3. QED BY <1>1, <1>2 DEF PostedIsDelivered

(* Once all is settled a blocked thread is in an open group, and no signal *)
(* of group one is left.                                                   *)
LEMMA SettledPosts ==
  ASSUME Inv, WakeInv, Settled, NEW w \in Waiters, Blocked(w)
  PROVE  ~Certain(w) /\ Owed <= 0 /\ Owed \in Int /\ \A s \in Signalers : ~Reaches(s, w)
  <1>1. \A s \in Signalers : pc[s] = "out" /\ ~my[s].wake
    <2>1. \A s \in Signalers : pc[s] = "out" /\ LocalAt(s)
      BY DEF Settled, Inv, LocalsOK, Threads
    <2>2. QED BY <2>1 DEF LocalAt
  <1>2. \A v \in Waiters : Blocked(v) => pc[v] = "parked"
    BY DEF Settled
  <1>3. ~Switching /\ GroupOne \in Slots /\ Other(GroupOne) \in Slots
    BY <1>1, SlotFacts DEF Switching, Inv
  <1>4. /\ \A slot : ~Loud(slot)
        /\ \A slot : Cardinality(Wakers(slot)) = 0
        /\ Cardinality(Posting) = 0 /\ Cardinality(Awake) = 0
    <2>1. /\ \A slot : Wakers(slot) = {} /\ ~Loud(slot)
          /\ Posting = {} /\ Awake = {}
      BY <1>1, <1>2 DEF Wakers, Loud, Wakes, Posting, Posts, Awake, IsMember
    <2>2. QED BY <2>1, FS_EmptySet
  <1>5. ASSUME NEW slot \in Slots
        PROVE  ClosedParked(slot) = {} /\ Cardinality(ClosedParked(slot)) = 0
    <2>1. Cardinality(ClosedParked(slot)) <= 0 /\ Cardinality(ClosedParked(slot)) \in Nat
      BY <1>4, CountsAreNat DEF WakeInv, DeliveryOK, Served
    <2>2. ClosedParked(slot) \subseteq Waiters
      BY DEF ClosedParked
    <2>3. IsFiniteSet(ClosedParked(slot)) /\ Cardinality(ClosedParked(slot)) = 0
      BY <2>1, <2>2, SetsFinite
    <2>4. QED BY <2>3, FS_EmptySet
  <1>6. \A v \in Waiters : my[v].slot \in Slots /\ my[v].position \in Nat
    BY NumberFacts DEF Inv, Types, LocalType, Threads
  <1>7. start \in Nat /\ word.size \in Nat /\ signals[GroupOne] \in Nat /\ sizes[GroupOne] \in Nat
    BY <1>3, NumberFacts DEF Inv, Types
  <1>8. \A v \in Waiters : Blocked(v) => start <= my[v].position
    <2>1. SUFFICES ASSUME NEW v \in Waiters, Blocked(v), my[v].position < start PROVE FALSE
      BY <1>6, <1>7
    <2>2. v \in ClosedParked(my[v].slot)
      BY <1>2, <2>1 DEF ClosedParked
    <2>3. QED BY <1>5, <1>6, <2>2
  <1>9. ASSUME NEW v \in Waiters, HasTicket(v), ~Blocked(v) PROVE my[w].position < my[v].position
    BY <1>9 DEF WakeInv, Small, LastOK, HasTicket
  <1>10. Cardinality(Within(0, start)) = 0
    <2>1. ASSUME NEW v \in Within(0, start) PROVE FALSE
      <3>1. v \in Waiters /\ HasTicket(v) /\ my[v].position < start
        BY <2>1 DEF Within
      <3>2. CASE Blocked(v)
        BY <1>6, <1>7, <1>8, <3>1, <3>2
      <3>3. CASE ~Blocked(v)
        BY <1>6, <1>7, <1>8, <1>9, <3>1, <3>3
      <3>4. QED BY <3>2, <3>3
    <2>2. Within(0, start) = {}
      BY <2>1
    <2>3. QED BY <2>2, FS_EmptySet
  <1> DEFINE S == {v \in Waiters : InGroupOne(v)}
  <1>11. Cardinality(S) \in Nat /\ Cardinality(S) = sizes[GroupOne] + signals[GroupOne] - start
    BY <1>3, MembersAre
  <1>12. signals[GroupOne] <= start
    <2>1. CASE Asleep # {}
      BY <1>3, <1>4, <1>5, <1>7, <2>1 DEF WakeInv, DeliveryOK, GroupServed
    <2>2. CASE Asleep = {}
      <3>1. ASSUME NEW v \in S PROVE FALSE
        <4>1. /\ v \in Waiters /\ HasTicket(v) /\ start <= my[v].position
              /\ my[v].position < start + word.size
          BY <3>1 DEF InGroupOne
        <4>2. ~Blocked(v)
          BY <1>2, <2>2, <4>1 DEF Asleep, IsMember
        <4>3. my[w].position < my[v].position
          BY <1>9, <4>1, <4>2
        <4>4. w \in Asleep
          BY <1>2, <1>6, <1>7, <1>8, <4>1, <4>3 DEF Asleep, IsMember
        <4>5. QED BY <4>4, <2>2
      <3>2. S = {}
        BY <3>1
      <3>3. Cardinality(S) = 0
        BY <3>2, FS_EmptySet
      <3>4. QED BY <1>7, <1>11, <3>3
    <2>3. QED BY <2>1, <2>2
  <1>13. ASSUME Certain(w) PROVE FALSE
    <2>1. start <= my[w].position /\ my[w].position < start + word.size /\ sizes[GroupOne] = 0
      BY <1>13, <1>6, <1>7, <1>8 DEF Certain
    <2>2. w \in S /\ S \subseteq Waiters
      BY <2>1 DEF InGroupOne, HasTicket
    <2>3. Cardinality(S) <= 0
      BY <1>7, <1>11, <1>12, <2>1
    <2>4. IsFiniteSet(S) /\ Cardinality(S) = 0
      BY <1>11, <2>2, <2>3, SetsFinite
    <2> HIDE DEF S
    <2>5. S = {}
      BY <2>4, FS_EmptySet
    <2>6. QED BY <2>2, <2>5
  <1>14. Owed = signals[GroupOne] - start
    BY <1>3, <1>4, <1>7, <1>10 DEF Owed, Posted
  <1>15. \A s \in Signalers : ~Reaches(s, w)
    BY <1>1 DEF Reaches
  <1>16. QED BY <1>7, <1>12, <1>13, <1>14, <1>15

(* and with no call under way nothing is owed, so every signal since a     *)
(* blocked thread went to sleep has woken another.                         *)
LEMMA SignalsCount ==
  ASSUME Inv, WakeInv
  PROVE  EverySignalCounts
  <1> SUFFICES ASSUME Settled, NEW w \in Waiters, Blocked(w)
               PROVE  since[w].signals <= since[w].wakes /\ ~since[w].broadcast
    BY DEF EverySignalCounts
  <1>1. ~Certain(w) /\ Owed <= 0 /\ Owed \in Int /\ \A s \in Signalers : ~Reaches(s, w)
    BY SettledPosts
  <1>2. since[w].signals \in Nat /\ since[w].wakes \in Nat
    BY DEF Inv, Types, SinceType
  <1>3. /\ since[w].signals <= since[w].wakes + Owed
        /\ since[w].broadcast => \E s \in Signalers : Reaches(s, w)
    BY <1>1 DEF WakeInv, CalledOK, CalledAt
  <1>4. QED BY <1>1, <1>2, <1>3

(* With futex queues that are first in first out, every posted signal has  *)
(* a thread awake to take it or a wake under way for it, and once all      *)
(* calls have returned every signal called since a thread blocked has      *)
(* woken another thread, and no broadcast is missed (pthread_cond_signal   *)
(* and pthread_cond_broadcast).                                            *)
THEOREM SignalsDeliveredHolds ==
  ASSUME FifoWake
  PROVE  Spec => []SignalsDelivered
  <1>1. Inv /\ WakeInv => SignalsDelivered
    BY PostedDelivered, SignalsCount DEF SignalsDelivered
  <1>2. QED BY <1>1, WakeInvariant, PTL
=============================================================================
