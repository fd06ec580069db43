---------------------------- MODULE RwlockProofs ----------------------------
(***************************************************************************)
(* Proofs about Rwlock, for any threads, kinds, calls and reader limit: the*)
(* phases, the parked threads, the inductive invariant and the theorems.   *)
(***************************************************************************)
EXTENDS RwlockSteps

-----------------------------------------------------------------------------
(* The phase, while no writer has found its phase begun.                   *)
LEMMA OwnBegun ==
  ASSUME Types, Types', NEW t \in Threads, Moves(t),
         Core(t), HandoverBit, Owner, Counted(t) <= readers.n,
         "begun" \notin lapses', Unbegun(t)
  PROVE  Unbegun(t)'
  <1> USE DEF LocalOK, Awaiting, AwaitsRead, AwaitsWrite, Pending, PreferWriter, Types, ReaderWords,
              FutexWords, Addresses, Core, PrimaryOK, Primary, OwnerOK, PhaseOK, InWritePhase,
              HandoverBit, Owner, Counted, Waits, Closing, Opening, Unbegun, ShutOrOpen, ReadersIn,
              OneStores, NoReaders, Nonrecursive, Word, Zero, Others, Readers, Mind, Clear, Idles,
              Returns, Parks
  <1>1. CASE Others(t) /\ ReadLockEffect(t)  BY <1>1 DEF ReadLockEffect
  <1>2. CASE Others(t) /\ ReadPreferEffect(t)  BY <1>2 DEF ReadPreferEffect
  <1>3. CASE Others(t) /\ ReadWaitEffect(t)  BY <1>3 DEF ReadWaitEffect
  <1>4. CASE Others(t) /\ ReadParkEffect(t)  BY <1>4 DEF ReadParkEffect
  <1>5. CASE Others(t) /\ ReadAddEffect(t)  BY <1>5 DEF ReadAddEffect
  <1>6. CASE Others(t) /\ ReadUndoEffect(t)  BY <1>6 DEF ReadUndoEffect
  <1>7. CASE Others(t) /\ ReadStartEffect(t)  BY <1>7 DEF ReadStartEffect
  <1>8. CASE Others(t) /\ ReadOpenEffect(t)  BY <1>8 DEF ReadOpenEffect
  <1>9. CASE Others(t) /\ AwaitEffect(t)  BY <1>9 DEF AwaitEffect
  <1>10. CASE Others(t) /\ AwaitParkEffect(t)  BY <1>10 DEF AwaitParkEffect
  <1>11. CASE Others(t) /\ CheckEffect(t)  BY <1>11 DEF CheckEffect
  <1>12. CASE Others(t) /\ TryReadLockEffect(t)  BY <1>12 DEF TryReadLockEffect
  <1>13. CASE Others(t) /\ WriteLockEffect(t)  BY <1>13 DEF WriteLockEffect
  <1>14. CASE Others(t) /\ WriteSetEffect(t)  BY <1>14 DEF WriteSetEffect
  <1>15. CASE Others(t) /\ WriteRegisterEffect(t)  BY <1>15 DEF WriteRegisterEffect
  <1>16. CASE Others(t) /\ WriteTakeFreeEffect(t)  BY <1>16 DEF WriteTakeFreeEffect
  <1>17. CASE Others(t) /\ WriteUnregisterEffect(t)  BY <1>17 DEF WriteUnregisterEffect
  <1>18. CASE Others(t) /\ WriteTakeTokenEffect(t)  BY <1>18 DEF WriteTakeTokenEffect
  <1>19. CASE Others(t) /\ WriteGotEffect(t)  BY <1>19 DEF WriteGotEffect
  <1>20. CASE Others(t) /\ WriteFutexEffect(t)  BY <1>20 DEF WriteFutexEffect
  <1>21. CASE Others(t) /\ WriteMarkEffect(t)  BY <1>21 DEF WriteMarkEffect
  <1>22. CASE Others(t) /\ WriteParkEffect(t)  BY <1>22 DEF WriteParkEffect
  <1>23. CASE Others(t) /\ WriteReloadEffect(t)  BY <1>23 DEF WriteReloadEffect
  <1>24. CASE Others(t) /\ WriteOpenEffect(t)  BY <1>24 DEF WriteOpenEffect
  <1>25. CASE Others(t) /\ WritePhaseEffect(t)  BY <1>25 DEF WritePhaseEffect
  <1>26. CASE Others(t) /\ WriteStoreEffect(t)  BY <1>26 DEF WriteStoreEffect
  <1>27. CASE Others(t) /\ WriteOwnEffect(t)  BY <1>27 DEF WriteOwnEffect
  <1>28. CASE Others(t) /\ TryWriteLockEffect(t)  BY <1>28 DEF TryWriteLockEffect
  <1>29. CASE Others(t) /\ TryWriteOpenEffect(t)  BY <1>29 DEF TryWriteOpenEffect
  <1>30. CASE Others(t) /\ TryWriteStoreEffect(t)  BY <1>30 DEF TryWriteStoreEffect
  <1>31. CASE Others(t) /\ UnlockReadEffect(t)  BY <1>31 DEF UnlockReadEffect
  <1>32. CASE Others(t) /\ ReadReleaseEffect(t)  BY <1>32 DEF ReadReleaseEffect
  <1>33. CASE Others(t) /\ ReadHandoverEffect(t)  BY <1>33 DEF ReadHandoverEffect
  <1>34. CASE Others(t) /\ UnlockWriteEffect(t)  BY <1>34 DEF UnlockWriteEffect
  <1>35. CASE Others(t) /\ WriteCloseEffect(t)  BY <1>35 DEF WriteCloseEffect
  <1>36. CASE Others(t) /\ WriteHandoverEffect(t)  BY <1>36 DEF WriteHandoverEffect
  <1>37. CASE Others(t) /\ WriteReleaseEffect(t)  BY <1>37 DEF WriteReleaseEffect
  <1>38. CASE Others(t) /\ WriteReadersInEffect(t)  BY <1>38 DEF WriteReadersInEffect
  <1>39. CASE Others(t) /\ InterruptedEffect(t)  BY <1>39 DEF InterruptedEffect, Resume, Addresses
  <1>40. CASE CallsUp(t, Head(my[t].wakes))  BY <1>40 DEF CallsUp, Resume, Addresses
  <1> HIDE DEF LocalOK, Awaiting, AwaitsRead, AwaitsWrite, Pending, PreferWriter, Types,
               ReaderWords, FutexWords, Addresses, Core, PrimaryOK, Primary, OwnerOK, PhaseOK,
               InWritePhase, HandoverBit, Owner, Counted, Waits, Closing, Opening, Unbegun,
               ShutOrOpen, ReadersIn, OneStores, NoReaders, Nonrecursive, Word, Zero, Others,
               Readers, Mind, Clear, Idles, Returns, Parks
  <1>41. QED
    BY <1>1, <1>2, <1>3, <1>4, <1>5, <1>6, <1>7, <1>8, <1>9, <1>10, <1>11, <1>12, <1>13, <1>14,
       <1>15, <1>16, <1>17, <1>18, <1>19, <1>20, <1>21, <1>22, <1>23, <1>24, <1>25, <1>26, <1>27,
       <1>28, <1>29, <1>30, <1>31, <1>32, <1>33, <1>34, <1>35, <1>36, <1>37, <1>38, <1>39, <1>40 DEF Moves, Effects

(* Another thread has not found its phase begun either.                    *)
LEMMA OtherBegun ==
  ASSUME Types, Types', NEW t \in Threads, Moves(t),
         Core(t), HandoverBit, Owner, Counted(t) <= readers.n,
         NEW u \in Threads \ {t}, Core(u), ~(Primary(t) /\ Primary(u)),
         "begun" \notin lapses', Unbegun(t), Unbegun(u)
  PROVE  Unbegun(u)'
  <1> USE DEF LocalOK, Awaiting, AwaitsRead, AwaitsWrite, Pending, PreferWriter, Types, ReaderWords,
              FutexWords, Addresses, Core, PrimaryOK, Primary, OwnerOK, PhaseOK, InWritePhase,
              HandoverBit, Owner, Counted, Waits, Closing, Opening, Unbegun, ShutOrOpen, ReadersIn,
              OneStores, NoReaders, Nonrecursive, Word, Zero, Others, Readers, Mind, Clear, Idles,
              Returns, Parks
  <1>1. CASE Others(t) /\ ReadLockEffect(t)  BY <1>1 DEF ReadLockEffect
  <1>2. CASE Others(t) /\ ReadPreferEffect(t)  BY <1>2 DEF ReadPreferEffect
  <1>3. CASE Others(t) /\ ReadWaitEffect(t)  BY <1>3 DEF ReadWaitEffect
  <1>4. CASE Others(t) /\ ReadParkEffect(t)  BY <1>4 DEF ReadParkEffect
  <1>5. CASE Others(t) /\ ReadAddEffect(t)  BY <1>5 DEF ReadAddEffect
  <1>6. CASE Others(t) /\ ReadUndoEffect(t)  BY <1>6 DEF ReadUndoEffect
  <1>7. CASE Others(t) /\ ReadStartEffect(t)  BY <1>7 DEF ReadStartEffect
  <1>8. CASE Others(t) /\ ReadOpenEffect(t)  BY <1>8 DEF ReadOpenEffect
  <1>9. CASE Others(t) /\ AwaitEffect(t)  BY <1>9 DEF AwaitEffect
  <1>10. CASE Others(t) /\ AwaitParkEffect(t)  BY <1>10 DEF AwaitParkEffect
  <1>11. CASE Others(t) /\ CheckEffect(t)  BY <1>11 DEF CheckEffect
  <1>12. CASE Others(t) /\ TryReadLockEffect(t)  BY <1>12 DEF TryReadLockEffect
  <1>13. CASE Others(t) /\ WriteLockEffect(t)  BY <1>13 DEF WriteLockEffect
  <1>14. CASE Others(t) /\ WriteSetEffect(t)  BY <1>14 DEF WriteSetEffect
  <1>15. CASE Others(t) /\ WriteRegisterEffect(t)  BY <1>15 DEF WriteRegisterEffect
  <1>16. CASE Others(t) /\ WriteTakeFreeEffect(t)  BY <1>16 DEF WriteTakeFreeEffect
  <1>17. CASE Others(t) /\ WriteUnregisterEffect(t)  BY <1>17 DEF WriteUnregisterEffect
  <1>18. CASE Others(t) /\ WriteTakeTokenEffect(t)  BY <1>18 DEF WriteTakeTokenEffect
  <1>19. CASE Others(t) /\ WriteGotEffect(t)  BY <1>19 DEF WriteGotEffect
  <1>20. CASE Others(t) /\ WriteFutexEffect(t)  BY <1>20 DEF WriteFutexEffect
  <1>21. CASE Others(t) /\ WriteMarkEffect(t)  BY <1>21 DEF WriteMarkEffect
  <1>22. CASE Others(t) /\ WriteParkEffect(t)  BY <1>22 DEF WriteParkEffect
  <1>23. CASE Others(t) /\ WriteReloadEffect(t)  BY <1>23 DEF WriteReloadEffect
  <1>24. CASE Others(t) /\ WriteOpenEffect(t)  BY <1>24 DEF WriteOpenEffect
  <1>25. CASE Others(t) /\ WritePhaseEffect(t)  BY <1>25 DEF WritePhaseEffect
  <1>26. CASE Others(t) /\ WriteStoreEffect(t)  BY <1>26 DEF WriteStoreEffect
  <1>27. CASE Others(t) /\ WriteOwnEffect(t)  BY <1>27 DEF WriteOwnEffect
  <1>28. CASE Others(t) /\ TryWriteLockEffect(t)  BY <1>28 DEF TryWriteLockEffect
  <1>29. CASE Others(t) /\ TryWriteOpenEffect(t)  BY <1>29 DEF TryWriteOpenEffect
  <1>30. CASE Others(t) /\ TryWriteStoreEffect(t)  BY <1>30 DEF TryWriteStoreEffect
  <1>31. CASE Others(t) /\ UnlockReadEffect(t)  BY <1>31 DEF UnlockReadEffect
  <1>32. CASE Others(t) /\ ReadReleaseEffect(t)  BY <1>32 DEF ReadReleaseEffect
  <1>33. CASE Others(t) /\ ReadHandoverEffect(t)  BY <1>33 DEF ReadHandoverEffect
  <1>34. CASE Others(t) /\ UnlockWriteEffect(t)  BY <1>34 DEF UnlockWriteEffect
  <1>35. CASE Others(t) /\ WriteCloseEffect(t)  BY <1>35 DEF WriteCloseEffect
  <1>36. CASE Others(t) /\ WriteHandoverEffect(t)  BY <1>36 DEF WriteHandoverEffect
  <1>37. CASE Others(t) /\ WriteReleaseEffect(t)  BY <1>37 DEF WriteReleaseEffect
  <1>38. CASE Others(t) /\ WriteReadersInEffect(t)  BY <1>38 DEF WriteReadersInEffect
  <1>39. CASE Others(t) /\ InterruptedEffect(t)  BY <1>39 DEF InterruptedEffect, Resume, Addresses
  <1>40. CASE CallsUp(t, Head(my[t].wakes))  BY <1>40 DEF CallsUp, Resume, Addresses
  <1> HIDE DEF LocalOK, Awaiting, AwaitsRead, AwaitsWrite, Pending, PreferWriter, Types,
               ReaderWords, FutexWords, Addresses, Core, PrimaryOK, Primary, OwnerOK, PhaseOK,
               InWritePhase, HandoverBit, Owner, Counted, Waits, Closing, Opening, Unbegun,
               ShutOrOpen, ReadersIn, OneStores, NoReaders, Nonrecursive, Word, Zero, Others,
               Readers, Mind, Clear, Idles, Returns, Parks
  <1>41. QED
    BY <1>1, <1>2, <1>3, <1>4, <1>5, <1>6, <1>7, <1>8, <1>9, <1>10, <1>11, <1>12, <1>13, <1>14,
       <1>15, <1>16, <1>17, <1>18, <1>19, <1>20, <1>21, <1>22, <1>23, <1>24, <1>25, <1>26, <1>27,
       <1>28, <1>29, <1>30, <1>31, <1>32, <1>33, <1>34, <1>35, <1>36, <1>37, <1>38, <1>39, <1>40 DEF Moves, Effects

(* The mover that is to store a write phase finds readers.phase set.       *)
LEMMA OwnShut ==
  ASSUME Types, Types', NEW t \in Threads, Moves(t),
         Core(t), HandoverBit, Owner, Counted(t) <= readers.n,
         MaxReaders > 1, "begun" \notin lapses', Unbegun(t), ShutOrOpen(t),
         ~readers.phase /\ (readers.n = 0 \/ (readers.n = 1 /\ pc[t] = "ruDec")) => ~phaseWord.phase /\ \A v \in Threads : ~Opening(v)
  PROVE  ShutOrOpen(t)'
  <1> USE DEF LocalOK, Awaiting, AwaitsRead, AwaitsWrite, Pending, PreferWriter, Types, ReaderWords,
              FutexWords, Addresses, Core, PrimaryOK, Primary, OwnerOK, PhaseOK, InWritePhase,
              HandoverBit, Owner, Counted, Waits, Closing, Opening, Unbegun, ShutOrOpen, ReadersIn,
              OneStores, NoReaders, Nonrecursive, Word, Zero, Others, Readers, Mind, Clear, Idles,
              Returns, Parks
  <1>1. CASE Others(t) /\ ReadLockEffect(t)  BY <1>1 DEF ReadLockEffect
  <1>2. CASE Others(t) /\ ReadPreferEffect(t)  BY <1>2 DEF ReadPreferEffect
  <1>3. CASE Others(t) /\ ReadWaitEffect(t)  BY <1>3 DEF ReadWaitEffect
  <1>4. CASE Others(t) /\ ReadParkEffect(t)  BY <1>4 DEF ReadParkEffect
  <1>5. CASE Others(t) /\ ReadAddEffect(t)  BY <1>5 DEF ReadAddEffect
  <1>6. CASE Others(t) /\ ReadUndoEffect(t)  BY <1>6 DEF ReadUndoEffect
  <1>7. CASE Others(t) /\ ReadStartEffect(t)  BY <1>7 DEF ReadStartEffect
  <1>8. CASE Others(t) /\ ReadOpenEffect(t)  BY <1>8 DEF ReadOpenEffect
  <1>9. CASE Others(t) /\ AwaitEffect(t)  BY <1>9 DEF AwaitEffect
  <1>10. CASE Others(t) /\ AwaitParkEffect(t)  BY <1>10 DEF AwaitParkEffect
  <1>11. CASE Others(t) /\ CheckEffect(t)  BY <1>11 DEF CheckEffect
  <1>12. CASE Others(t) /\ TryReadLockEffect(t)  BY <1>12 DEF TryReadLockEffect
  <1>13. CASE Others(t) /\ WriteLockEffect(t)  BY <1>13 DEF WriteLockEffect
  <1>14. CASE Others(t) /\ WriteSetEffect(t)  BY <1>14 DEF WriteSetEffect
  <1>15. CASE Others(t) /\ WriteRegisterEffect(t)  BY <1>15 DEF WriteRegisterEffect
  <1>16. CASE Others(t) /\ WriteTakeFreeEffect(t)  BY <1>16 DEF WriteTakeFreeEffect
  <1>17. CASE Others(t) /\ WriteUnregisterEffect(t)  BY <1>17 DEF WriteUnregisterEffect
  <1>18. CASE Others(t) /\ WriteTakeTokenEffect(t)  BY <1>18 DEF WriteTakeTokenEffect
  <1>19. CASE Others(t) /\ WriteGotEffect(t)  BY <1>19 DEF WriteGotEffect
  <1>20. CASE Others(t) /\ WriteFutexEffect(t)  BY <1>20 DEF WriteFutexEffect
  <1>21. CASE Others(t) /\ WriteMarkEffect(t)  BY <1>21 DEF WriteMarkEffect
  <1>22. CASE Others(t) /\ WriteParkEffect(t)  BY <1>22 DEF WriteParkEffect
  <1>23. CASE Others(t) /\ WriteReloadEffect(t)  BY <1>23 DEF WriteReloadEffect
  <1>24. CASE Others(t) /\ WriteOpenEffect(t)  BY <1>24 DEF WriteOpenEffect
  <1>25. CASE Others(t) /\ WritePhaseEffect(t)  BY <1>25 DEF WritePhaseEffect
  <1>26. CASE Others(t) /\ WriteStoreEffect(t)  BY <1>26 DEF WriteStoreEffect
  <1>27. CASE Others(t) /\ WriteOwnEffect(t)  BY <1>27 DEF WriteOwnEffect
  <1>28. CASE Others(t) /\ TryWriteLockEffect(t)  BY <1>28 DEF TryWriteLockEffect
  <1>29. CASE Others(t) /\ TryWriteOpenEffect(t)  BY <1>29 DEF TryWriteOpenEffect
  <1>30. CASE Others(t) /\ TryWriteStoreEffect(t)  BY <1>30 DEF TryWriteStoreEffect
  <1>31. CASE Others(t) /\ UnlockReadEffect(t)  BY <1>31 DEF UnlockReadEffect
  <1>32. CASE Others(t) /\ ReadReleaseEffect(t)  BY <1>32 DEF ReadReleaseEffect
  <1>33. CASE Others(t) /\ ReadHandoverEffect(t)  BY <1>33 DEF ReadHandoverEffect
  <1>34. CASE Others(t) /\ UnlockWriteEffect(t)  BY <1>34 DEF UnlockWriteEffect
  <1>35. CASE Others(t) /\ WriteCloseEffect(t)  BY <1>35 DEF WriteCloseEffect
  <1>36. CASE Others(t) /\ WriteHandoverEffect(t)  BY <1>36 DEF WriteHandoverEffect
  <1>37. CASE Others(t) /\ WriteReleaseEffect(t)  BY <1>37 DEF WriteReleaseEffect
  <1>38. CASE Others(t) /\ WriteReadersInEffect(t)  BY <1>38 DEF WriteReadersInEffect
  <1>39. CASE Others(t) /\ InterruptedEffect(t)  BY <1>39 DEF InterruptedEffect, Resume, Addresses
  <1>40. CASE CallsUp(t, Head(my[t].wakes))  BY <1>40 DEF CallsUp, Resume, Addresses
  <1> HIDE DEF LocalOK, Awaiting, AwaitsRead, AwaitsWrite, Pending, PreferWriter, Types,
               ReaderWords, FutexWords, Addresses, Core, PrimaryOK, Primary, OwnerOK, PhaseOK,
               InWritePhase, HandoverBit, Owner, Counted, Waits, Closing, Opening, Unbegun,
               ShutOrOpen, ReadersIn, OneStores, NoReaders, Nonrecursive, Word, Zero, Others,
               Readers, Mind, Clear, Idles, Returns, Parks
  <1>41. QED
    BY <1>1, <1>2, <1>3, <1>4, <1>5, <1>6, <1>7, <1>8, <1>9, <1>10, <1>11, <1>12, <1>13, <1>14,
       <1>15, <1>16, <1>17, <1>18, <1>19, <1>20, <1>21, <1>22, <1>23, <1>24, <1>25, <1>26, <1>27,
       <1>28, <1>29, <1>30, <1>31, <1>32, <1>33, <1>34, <1>35, <1>36, <1>37, <1>38, <1>39, <1>40 DEF Moves, Effects

(* And so for another thread on its way to store.                          *)
LEMMA OtherShut ==
  ASSUME Types, Types', NEW t \in Threads, Moves(t),
         Core(t), HandoverBit, Owner, Counted(t) <= readers.n,
         MaxReaders > 1, "begun" \notin lapses', Unbegun(t), ShutOrOpen(t),
         ~readers.phase /\ (readers.n = 0 \/ (readers.n = 1 /\ pc[t] = "ruDec")) => ~phaseWord.phase /\ \A v \in Threads : ~Opening(v),
         NEW u \in Threads \ {t}, Core(u), ~(Primary(t) /\ Primary(u)),
         Counted(u) <= readers.n, Counted(t) + Counted(u) <= readers.n, Unbegun(u), ShutOrOpen(u), OneStores(t, u), OneStores(u, t)
  PROVE  ShutOrOpen(u)'
  <1> USE DEF LocalOK, Awaiting, AwaitsRead, AwaitsWrite, Pending, PreferWriter, Types, ReaderWords,
              FutexWords, Addresses, Core, PrimaryOK, Primary, OwnerOK, PhaseOK, InWritePhase,
              HandoverBit, Owner, Counted, Waits, Closing, Opening, Unbegun, ShutOrOpen, ReadersIn,
              OneStores, NoReaders, Nonrecursive, Word, Zero, Others, Readers, Mind, Clear, Idles,
              Returns, Parks
  <1>1. CASE Others(t) /\ ReadLockEffect(t)  BY <1>1 DEF ReadLockEffect
  <1>2. CASE Others(t) /\ ReadPreferEffect(t)  BY <1>2 DEF ReadPreferEffect
  <1>3. CASE Others(t) /\ ReadWaitEffect(t)  BY <1>3 DEF ReadWaitEffect
  <1>4. CASE Others(t) /\ ReadParkEffect(t)  BY <1>4 DEF ReadParkEffect
  <1>5. CASE Others(t) /\ ReadAddEffect(t)  BY <1>5 DEF ReadAddEffect
  <1>6. CASE Others(t) /\ ReadUndoEffect(t)  BY <1>6 DEF ReadUndoEffect
  <1>7. CASE Others(t) /\ ReadStartEffect(t)  BY <1>7 DEF ReadStartEffect
  <1>8. CASE Others(t) /\ ReadOpenEffect(t)  BY <1>8 DEF ReadOpenEffect
  <1>9. CASE Others(t) /\ AwaitEffect(t)  BY <1>9 DEF AwaitEffect
  <1>10. CASE Others(t) /\ AwaitParkEffect(t)  BY <1>10 DEF AwaitParkEffect
  <1>11. CASE Others(t) /\ CheckEffect(t)  BY <1>11 DEF CheckEffect
  <1>12. CASE Others(t) /\ TryReadLockEffect(t)  BY <1>12 DEF TryReadLockEffect
  <1>13. CASE Others(t) /\ WriteLockEffect(t)  BY <1>13 DEF WriteLockEffect
  <1>14. CASE Others(t) /\ WriteSetEffect(t)  BY <1>14 DEF WriteSetEffect
  <1>15. CASE Others(t) /\ WriteRegisterEffect(t)  BY <1>15 DEF WriteRegisterEffect
  <1>16. CASE Others(t) /\ WriteTakeFreeEffect(t)  BY <1>16 DEF WriteTakeFreeEffect
  <1>17. CASE Others(t) /\ WriteUnregisterEffect(t)  BY <1>17 DEF WriteUnregisterEffect
  <1>18. CASE Others(t) /\ WriteTakeTokenEffect(t)  BY <1>18 DEF WriteTakeTokenEffect
  <1>19. CASE Others(t) /\ WriteGotEffect(t)  BY <1>19 DEF WriteGotEffect
  <1>20. CASE Others(t) /\ WriteFutexEffect(t)  BY <1>20 DEF WriteFutexEffect
  <1>21. CASE Others(t) /\ WriteMarkEffect(t)  BY <1>21 DEF WriteMarkEffect
  <1>22. CASE Others(t) /\ WriteParkEffect(t)  BY <1>22 DEF WriteParkEffect
  <1>23. CASE Others(t) /\ WriteReloadEffect(t)  BY <1>23 DEF WriteReloadEffect
  <1>24. CASE Others(t) /\ WriteOpenEffect(t)  BY <1>24 DEF WriteOpenEffect
  <1>25. CASE Others(t) /\ WritePhaseEffect(t)  BY <1>25 DEF WritePhaseEffect
  <1>26. CASE Others(t) /\ WriteStoreEffect(t)  BY <1>26 DEF WriteStoreEffect
  <1>27. CASE Others(t) /\ WriteOwnEffect(t)  BY <1>27 DEF WriteOwnEffect
  <1>28. CASE Others(t) /\ TryWriteLockEffect(t)  BY <1>28 DEF TryWriteLockEffect
  <1>29. CASE Others(t) /\ TryWriteOpenEffect(t)  BY <1>29 DEF TryWriteOpenEffect
  <1>30. CASE Others(t) /\ TryWriteStoreEffect(t)  BY <1>30 DEF TryWriteStoreEffect
  <1>31. CASE Others(t) /\ UnlockReadEffect(t)  BY <1>31 DEF UnlockReadEffect
  <1>32. CASE Others(t) /\ ReadReleaseEffect(t)  BY <1>32 DEF ReadReleaseEffect
  <1>33. CASE Others(t) /\ ReadHandoverEffect(t)  BY <1>33 DEF ReadHandoverEffect
  <1>34. CASE Others(t) /\ UnlockWriteEffect(t)  BY <1>34 DEF UnlockWriteEffect
  <1>35. CASE Others(t) /\ WriteCloseEffect(t)  BY <1>35 DEF WriteCloseEffect
  <1>36. CASE Others(t) /\ WriteHandoverEffect(t)  BY <1>36 DEF WriteHandoverEffect
  <1>37. CASE Others(t) /\ WriteReleaseEffect(t)  BY <1>37 DEF WriteReleaseEffect
  <1>38. CASE Others(t) /\ WriteReadersInEffect(t)  BY <1>38 DEF WriteReadersInEffect
  <1>39. CASE Others(t) /\ InterruptedEffect(t)  BY <1>39 DEF InterruptedEffect, Resume, Addresses
  <1>40. CASE CallsUp(t, Head(my[t].wakes))  BY <1>40 DEF CallsUp, Resume, Addresses
  <1> HIDE DEF LocalOK, Awaiting, AwaitsRead, AwaitsWrite, Pending, PreferWriter, Types,
               ReaderWords, FutexWords, Addresses, Core, PrimaryOK, Primary, OwnerOK, PhaseOK,
               InWritePhase, HandoverBit, Owner, Counted, Waits, Closing, Opening, Unbegun,
               ShutOrOpen, ReadersIn, OneStores, NoReaders, Nonrecursive, Word, Zero, Others,
               Readers, Mind, Clear, Idles, Returns, Parks
  <1>41. QED
    BY <1>1, <1>2, <1>3, <1>4, <1>5, <1>6, <1>7, <1>8, <1>9, <1>10, <1>11, <1>12, <1>13, <1>14,
       <1>15, <1>16, <1>17, <1>18, <1>19, <1>20, <1>21, <1>22, <1>23, <1>24, <1>25, <1>26, <1>27,
       <1>28, <1>29, <1>30, <1>31, <1>32, <1>33, <1>34, <1>35, <1>36, <1>37, <1>38, <1>39, <1>40 DEF Moves, Effects

(* Two threads are never on their way to store a write phase.              *)
LEMMA OneCloses ==
  ASSUME Types, Types', NEW t \in Threads, Moves(t),
         Core(t), HandoverBit, Owner, Counted(t) <= readers.n,
         MaxReaders > 1, "begun" \notin lapses', Unbegun(t), ShutOrOpen(t),
         ~readers.phase /\ (readers.n = 0 \/ (readers.n = 1 /\ pc[t] = "ruDec")) => ~phaseWord.phase /\ \A v \in Threads : ~Opening(v),
         NEW u \in Threads \ {t}, Core(u), ~(Primary(t) /\ Primary(u)),
         Counted(u) <= readers.n, Counted(t) + Counted(u) <= readers.n, Unbegun(u), ShutOrOpen(u), OneStores(t, u), OneStores(u, t)
  PROVE  ~(Closing(t)' /\ Closing(u)')
  <1> USE DEF LocalOK, Awaiting, AwaitsRead, AwaitsWrite, Pending, PreferWriter, Types, ReaderWords,
              FutexWords, Addresses, Core, PrimaryOK, Primary, OwnerOK, PhaseOK, InWritePhase,
              HandoverBit, Owner, Counted, Waits, Closing, Opening, Unbegun, ShutOrOpen, ReadersIn,
              OneStores, NoReaders, Nonrecursive, Word, Zero, Others, Readers, Mind, Clear, Idles,
              Returns, Parks
  <1>1. CASE Others(t) /\ ReadLockEffect(t)  BY <1>1 DEF ReadLockEffect
  <1>2. CASE Others(t) /\ ReadPreferEffect(t)  BY <1>2 DEF ReadPreferEffect
  <1>3. CASE Others(t) /\ ReadWaitEffect(t)  BY <1>3 DEF ReadWaitEffect
  <1>4. CASE Others(t) /\ ReadParkEffect(t)  BY <1>4 DEF ReadParkEffect
  <1>5. CASE Others(t) /\ ReadAddEffect(t)  BY <1>5 DEF ReadAddEffect
  <1>6. CASE Others(t) /\ ReadUndoEffect(t)  BY <1>6 DEF ReadUndoEffect
  <1>7. CASE Others(t) /\ ReadStartEffect(t)  BY <1>7 DEF ReadStartEffect
  <1>8. CASE Others(t) /\ ReadOpenEffect(t)  BY <1>8 DEF ReadOpenEffect
  <1>9. CASE Others(t) /\ AwaitEffect(t)  BY <1>9 DEF AwaitEffect
  <1>10. CASE Others(t) /\ AwaitParkEffect(t)  BY <1>10 DEF AwaitParkEffect
  <1>11. CASE Others(t) /\ CheckEffect(t)  BY <1>11 DEF CheckEffect
  <1>12. CASE Others(t) /\ TryReadLockEffect(t)  BY <1>12 DEF TryReadLockEffect
  <1>13. CASE Others(t) /\ WriteLockEffect(t)  BY <1>13 DEF WriteLockEffect
  <1>14. CASE Others(t) /\ WriteSetEffect(t)  BY <1>14 DEF WriteSetEffect
  <1>15. CASE Others(t) /\ WriteRegisterEffect(t)  BY <1>15 DEF WriteRegisterEffect
  <1>16. CASE Others(t) /\ WriteTakeFreeEffect(t)  BY <1>16 DEF WriteTakeFreeEffect
  <1>17. CASE Others(t) /\ WriteUnregisterEffect(t)  BY <1>17 DEF WriteUnregisterEffect
  <1>18. CASE Others(t) /\ WriteTakeTokenEffect(t)  BY <1>18 DEF WriteTakeTokenEffect
  <1>19. CASE Others(t) /\ WriteGotEffect(t)  BY <1>19 DEF WriteGotEffect
  <1>20. CASE Others(t) /\ WriteFutexEffect(t)  BY <1>20 DEF WriteFutexEffect
  <1>21. CASE Others(t) /\ WriteMarkEffect(t)  BY <1>21 DEF WriteMarkEffect
  <1>22. CASE Others(t) /\ WriteParkEffect(t)  BY <1>22 DEF WriteParkEffect
  <1>23. CASE Others(t) /\ WriteReloadEffect(t)  BY <1>23 DEF WriteReloadEffect
  <1>24. CASE Others(t) /\ WriteOpenEffect(t)  BY <1>24 DEF WriteOpenEffect
  <1>25. CASE Others(t) /\ WritePhaseEffect(t)  BY <1>25 DEF WritePhaseEffect
  <1>26. CASE Others(t) /\ WriteStoreEffect(t)  BY <1>26 DEF WriteStoreEffect
  <1>27. CASE Others(t) /\ WriteOwnEffect(t)  BY <1>27 DEF WriteOwnEffect
  <1>28. CASE Others(t) /\ TryWriteLockEffect(t)  BY <1>28 DEF TryWriteLockEffect
  <1>29. CASE Others(t) /\ TryWriteOpenEffect(t)  BY <1>29 DEF TryWriteOpenEffect
  <1>30. CASE Others(t) /\ TryWriteStoreEffect(t)  BY <1>30 DEF TryWriteStoreEffect
  <1>31. CASE Others(t) /\ UnlockReadEffect(t)  BY <1>31 DEF UnlockReadEffect
  <1>32. CASE Others(t) /\ ReadReleaseEffect(t)  BY <1>32 DEF ReadReleaseEffect
  <1>33. CASE Others(t) /\ ReadHandoverEffect(t)  BY <1>33 DEF ReadHandoverEffect
  <1>34. CASE Others(t) /\ UnlockWriteEffect(t)  BY <1>34 DEF UnlockWriteEffect
  <1>35. CASE Others(t) /\ WriteCloseEffect(t)  BY <1>35 DEF WriteCloseEffect
  <1>36. CASE Others(t) /\ WriteHandoverEffect(t)  BY <1>36 DEF WriteHandoverEffect
  <1>37. CASE Others(t) /\ WriteReleaseEffect(t)  BY <1>37 DEF WriteReleaseEffect
  <1>38. CASE Others(t) /\ WriteReadersInEffect(t)  BY <1>38 DEF WriteReadersInEffect
  <1>39. CASE Others(t) /\ InterruptedEffect(t)  BY <1>39 DEF InterruptedEffect, Resume, Addresses
  <1>40. CASE CallsUp(t, Head(my[t].wakes))  BY <1>40 DEF CallsUp, Resume, Addresses
  <1> HIDE DEF LocalOK, Awaiting, AwaitsRead, AwaitsWrite, Pending, PreferWriter, Types,
               ReaderWords, FutexWords, Addresses, Core, PrimaryOK, Primary, OwnerOK, PhaseOK,
               InWritePhase, HandoverBit, Owner, Counted, Waits, Closing, Opening, Unbegun,
               ShutOrOpen, ReadersIn, OneStores, NoReaders, Nonrecursive, Word, Zero, Others,
               Readers, Mind, Clear, Idles, Returns, Parks
  <1>41. QED
    BY <1>1, <1>2, <1>3, <1>4, <1>5, <1>6, <1>7, <1>8, <1>9, <1>10, <1>11, <1>12, <1>13, <1>14,
       <1>15, <1>16, <1>17, <1>18, <1>19, <1>20, <1>21, <1>22, <1>23, <1>24, <1>25, <1>26, <1>27,
       <1>28, <1>29, <1>30, <1>31, <1>32, <1>33, <1>34, <1>35, <1>36, <1>37, <1>38, <1>39, <1>40 DEF Moves, Effects

(* The writer that lets the readers in is the only one opening.            *)
LEMMA OneOpens ==
  ASSUME Types, Types', NEW t \in Threads, Moves(t),
         Core(t), HandoverBit, Owner, Counted(t) <= readers.n,
         MaxReaders > 1, "begun" \notin lapses', Unbegun(t), ShutOrOpen(t),
         ~readers.phase /\ (readers.n = 0 \/ (readers.n = 1 /\ pc[t] = "ruDec")) => ~phaseWord.phase /\ \A v \in Threads : ~Opening(v),
         NEW u \in Threads \ {t}, Core(u), ~(Primary(t) /\ Primary(u)),
         Counted(u) <= readers.n, Counted(t) + Counted(u) <= readers.n, Unbegun(u), ShutOrOpen(u), OneStores(t, u), OneStores(u, t)
  PROVE  ~(pc'[t] = "wuOpen" /\ Opening(u)') /\ ~(pc'[u] = "wuOpen" /\ Opening(t)')
  <1> USE DEF LocalOK, Awaiting, AwaitsRead, AwaitsWrite, Pending, PreferWriter, Types, ReaderWords,
              FutexWords, Addresses, Core, PrimaryOK, Primary, OwnerOK, PhaseOK, InWritePhase,
              HandoverBit, Owner, Counted, Waits, Closing, Opening, Unbegun, ShutOrOpen, ReadersIn,
              OneStores, NoReaders, Nonrecursive, Word, Zero, Others, Readers, Mind, Clear, Idles,
              Returns, Parks
  <1>1. CASE Others(t) /\ ReadLockEffect(t)  BY <1>1 DEF ReadLockEffect
  <1>2. CASE Others(t) /\ ReadPreferEffect(t)  BY <1>2 DEF ReadPreferEffect
  <1>3. CASE Others(t) /\ ReadWaitEffect(t)  BY <1>3 DEF ReadWaitEffect
  <1>4. CASE Others(t) /\ ReadParkEffect(t)  BY <1>4 DEF ReadParkEffect
  <1>5. CASE Others(t) /\ ReadAddEffect(t)  BY <1>5 DEF ReadAddEffect
  <1>6. CASE Others(t) /\ ReadUndoEffect(t)  BY <1>6 DEF ReadUndoEffect
  <1>7. CASE Others(t) /\ ReadStartEffect(t)  BY <1>7 DEF ReadStartEffect
  <1>8. CASE Others(t) /\ ReadOpenEffect(t)  BY <1>8 DEF ReadOpenEffect
  <1>9. CASE Others(t) /\ AwaitEffect(t)  BY <1>9 DEF AwaitEffect
  <1>10. CASE Others(t) /\ AwaitParkEffect(t)  BY <1>10 DEF AwaitParkEffect
  <1>11. CASE Others(t) /\ CheckEffect(t)  BY <1>11 DEF CheckEffect
  <1>12. CASE Others(t) /\ TryReadLockEffect(t)  BY <1>12 DEF TryReadLockEffect
  <1>13. CASE Others(t) /\ WriteLockEffect(t)  BY <1>13 DEF WriteLockEffect
  <1>14. CASE Others(t) /\ WriteSetEffect(t)  BY <1>14 DEF WriteSetEffect
  <1>15. CASE Others(t) /\ WriteRegisterEffect(t)  BY <1>15 DEF WriteRegisterEffect
  <1>16. CASE Others(t) /\ WriteTakeFreeEffect(t)  BY <1>16 DEF WriteTakeFreeEffect
  <1>17. CASE Others(t) /\ WriteUnregisterEffect(t)  BY <1>17 DEF WriteUnregisterEffect
  <1>18. CASE Others(t) /\ WriteTakeTokenEffect(t)  BY <1>18 DEF WriteTakeTokenEffect
  <1>19. CASE Others(t) /\ WriteGotEffect(t)  BY <1>19 DEF WriteGotEffect
  <1>20. CASE Others(t) /\ WriteFutexEffect(t)  BY <1>20 DEF WriteFutexEffect
  <1>21. CASE Others(t) /\ WriteMarkEffect(t)  BY <1>21 DEF WriteMarkEffect
  <1>22. CASE Others(t) /\ WriteParkEffect(t)  BY <1>22 DEF WriteParkEffect
  <1>23. CASE Others(t) /\ WriteReloadEffect(t)  BY <1>23 DEF WriteReloadEffect
  <1>24. CASE Others(t) /\ WriteOpenEffect(t)  BY <1>24 DEF WriteOpenEffect
  <1>25. CASE Others(t) /\ WritePhaseEffect(t)  BY <1>25 DEF WritePhaseEffect
  <1>26. CASE Others(t) /\ WriteStoreEffect(t)  BY <1>26 DEF WriteStoreEffect
  <1>27. CASE Others(t) /\ WriteOwnEffect(t)  BY <1>27 DEF WriteOwnEffect
  <1>28. CASE Others(t) /\ TryWriteLockEffect(t)  BY <1>28 DEF TryWriteLockEffect
  <1>29. CASE Others(t) /\ TryWriteOpenEffect(t)  BY <1>29 DEF TryWriteOpenEffect
  <1>30. CASE Others(t) /\ TryWriteStoreEffect(t)  BY <1>30 DEF TryWriteStoreEffect
  <1>31. CASE Others(t) /\ UnlockReadEffect(t)  BY <1>31 DEF UnlockReadEffect
  <1>32. CASE Others(t) /\ ReadReleaseEffect(t)  BY <1>32 DEF ReadReleaseEffect
  <1>33. CASE Others(t) /\ ReadHandoverEffect(t)  BY <1>33 DEF ReadHandoverEffect
  <1>34. CASE Others(t) /\ UnlockWriteEffect(t)  BY <1>34 DEF UnlockWriteEffect
  <1>35. CASE Others(t) /\ WriteCloseEffect(t)  BY <1>35 DEF WriteCloseEffect
  <1>36. CASE Others(t) /\ WriteHandoverEffect(t)  BY <1>36 DEF WriteHandoverEffect
  <1>37. CASE Others(t) /\ WriteReleaseEffect(t)  BY <1>37 DEF WriteReleaseEffect
  <1>38. CASE Others(t) /\ WriteReadersInEffect(t)  BY <1>38 DEF WriteReadersInEffect
  <1>39. CASE Others(t) /\ InterruptedEffect(t)  BY <1>39 DEF InterruptedEffect, Resume, Addresses
  <1>40. CASE CallsUp(t, Head(my[t].wakes))  BY <1>40 DEF CallsUp, Resume, Addresses
  <1> HIDE DEF LocalOK, Awaiting, AwaitsRead, AwaitsWrite, Pending, PreferWriter, Types,
               ReaderWords, FutexWords, Addresses, Core, PrimaryOK, Primary, OwnerOK, PhaseOK,
               InWritePhase, HandoverBit, Owner, Counted, Waits, Closing, Opening, Unbegun,
               ShutOrOpen, ReadersIn, OneStores, NoReaders, Nonrecursive, Word, Zero, Others,
               Readers, Mind, Clear, Idles, Returns, Parks
  <1>41. QED
    BY <1>1, <1>2, <1>3, <1>4, <1>5, <1>6, <1>7, <1>8, <1>9, <1>10, <1>11, <1>12, <1>13, <1>14,
       <1>15, <1>16, <1>17, <1>18, <1>19, <1>20, <1>21, <1>22, <1>23, <1>24, <1>25, <1>26, <1>27,
       <1>28, <1>29, <1>30, <1>31, <1>32, <1>33, <1>34, <1>35, <1>36, <1>37, <1>38, <1>39, <1>40 DEF Moves, Effects

(* A reader hands over only to a writer that waits for the phase.          *)
LEMMA OneHands ==
  ASSUME Types, Types', NEW t \in Threads, Moves(t),
         Core(t), HandoverBit, Owner, Counted(t) <= readers.n,
         MaxReaders > 1, "begun" \notin lapses', Unbegun(t), ShutOrOpen(t),
         ~readers.phase /\ (readers.n = 0 \/ (readers.n = 1 /\ pc[t] = "ruDec")) => ~phaseWord.phase /\ \A v \in Threads : ~Opening(v),
         NEW u \in Threads \ {t}, Core(u), ~(Primary(t) /\ Primary(u)),
         Counted(u) <= readers.n, Counted(t) + Counted(u) <= readers.n, Unbegun(u), ShutOrOpen(u), OneStores(t, u), OneStores(u, t)
  PROVE  /\ (pc[t] = "ruHand" /\ Primary(u) =>
             AwaitsWrite(u) \/ (pc[u] \in {"wrOpen", "wrUnregister", "wrPhase"} /\ ~my[u].seen.phase))'
         /\ (pc[u] = "ruHand" /\ Primary(t) =>
             AwaitsWrite(t) \/ (pc[t] \in {"wrOpen", "wrUnregister", "wrPhase"} /\ ~my[t].seen.phase))'
  <1> USE DEF LocalOK, Awaiting, AwaitsRead, AwaitsWrite, Pending, PreferWriter, Types, ReaderWords,
              FutexWords, Addresses, Core, PrimaryOK, Primary, OwnerOK, PhaseOK, InWritePhase,
              HandoverBit, Owner, Counted, Waits, Closing, Opening, Unbegun, ShutOrOpen, ReadersIn,
              OneStores, NoReaders, Nonrecursive, Word, Zero, Others, Readers, Mind, Clear, Idles,
              Returns, Parks
  <1>1. CASE Others(t) /\ ReadLockEffect(t)  BY <1>1 DEF ReadLockEffect
  <1>2. CASE Others(t) /\ ReadPreferEffect(t)  BY <1>2 DEF ReadPreferEffect
  <1>3. CASE Others(t) /\ ReadWaitEffect(t)  BY <1>3 DEF ReadWaitEffect
  <1>4. CASE Others(t) /\ ReadParkEffect(t)  BY <1>4 DEF ReadParkEffect
  <1>5. CASE Others(t) /\ ReadAddEffect(t)  BY <1>5 DEF ReadAddEffect
  <1>6. CASE Others(t) /\ ReadUndoEffect(t)  BY <1>6 DEF ReadUndoEffect
  <1>7. CASE Others(t) /\ ReadStartEffect(t)  BY <1>7 DEF ReadStartEffect
  <1>8. CASE Others(t) /\ ReadOpenEffect(t)  BY <1>8 DEF ReadOpenEffect
  <1>9. CASE Others(t) /\ AwaitEffect(t)  BY <1>9 DEF AwaitEffect
  <1>10. CASE Others(t) /\ AwaitParkEffect(t)  BY <1>10 DEF AwaitParkEffect
  <1>11. CASE Others(t) /\ CheckEffect(t)  BY <1>11 DEF CheckEffect
  <1>12. CASE Others(t) /\ TryReadLockEffect(t)  BY <1>12 DEF TryReadLockEffect
  <1>13. CASE Others(t) /\ WriteLockEffect(t)  BY <1>13 DEF WriteLockEffect
  <1>14. CASE Others(t) /\ WriteSetEffect(t)  BY <1>14 DEF WriteSetEffect
  <1>15. CASE Others(t) /\ WriteRegisterEffect(t)  BY <1>15 DEF WriteRegisterEffect
  <1>16. CASE Others(t) /\ WriteTakeFreeEffect(t)  BY <1>16 DEF WriteTakeFreeEffect
  <1>17. CASE Others(t) /\ WriteUnregisterEffect(t)  BY <1>17 DEF WriteUnregisterEffect
  <1>18. CASE Others(t) /\ WriteTakeTokenEffect(t)  BY <1>18 DEF WriteTakeTokenEffect
  <1>19. CASE Others(t) /\ WriteGotEffect(t)  BY <1>19 DEF WriteGotEffect
  <1>20. CASE Others(t) /\ WriteFutexEffect(t)  BY <1>20 DEF WriteFutexEffect
  <1>21. CASE Others(t) /\ WriteMarkEffect(t)  BY <1>21 DEF WriteMarkEffect
  <1>22. CASE Others(t) /\ WriteParkEffect(t)  BY <1>22 DEF WriteParkEffect
  <1>23. CASE Others(t) /\ WriteReloadEffect(t)  BY <1>23 DEF WriteReloadEffect
  <1>24. CASE Others(t) /\ WriteOpenEffect(t)  BY <1>24 DEF WriteOpenEffect
  <1>25. CASE Others(t) /\ WritePhaseEffect(t)  BY <1>25 DEF WritePhaseEffect
  <1>26. CASE Others(t) /\ WriteStoreEffect(t)  BY <1>26 DEF WriteStoreEffect
  <1>27. CASE Others(t) /\ WriteOwnEffect(t)  BY <1>27 DEF WriteOwnEffect
  <1>28. CASE Others(t) /\ TryWriteLockEffect(t)  BY <1>28 DEF TryWriteLockEffect
  <1>29. CASE Others(t) /\ TryWriteOpenEffect(t)  BY <1>29 DEF TryWriteOpenEffect
  <1>30. CASE Others(t) /\ TryWriteStoreEffect(t)  BY <1>30 DEF TryWriteStoreEffect
  <1>31. CASE Others(t) /\ UnlockReadEffect(t)  BY <1>31 DEF UnlockReadEffect
  <1>32. CASE Others(t) /\ ReadReleaseEffect(t)  BY <1>32 DEF ReadReleaseEffect
  <1>33. CASE Others(t) /\ ReadHandoverEffect(t)  BY <1>33 DEF ReadHandoverEffect
  <1>34. CASE Others(t) /\ UnlockWriteEffect(t)  BY <1>34 DEF UnlockWriteEffect
  <1>35. CASE Others(t) /\ WriteCloseEffect(t)  BY <1>35 DEF WriteCloseEffect
  <1>36. CASE Others(t) /\ WriteHandoverEffect(t)  BY <1>36 DEF WriteHandoverEffect
  <1>37. CASE Others(t) /\ WriteReleaseEffect(t)  BY <1>37 DEF WriteReleaseEffect
  <1>38. CASE Others(t) /\ WriteReadersInEffect(t)  BY <1>38 DEF WriteReadersInEffect
  <1>39. CASE Others(t) /\ InterruptedEffect(t)  BY <1>39 DEF InterruptedEffect, Resume, Addresses
  <1>40. CASE CallsUp(t, Head(my[t].wakes))  BY <1>40 DEF CallsUp, Resume, Addresses
  <1> HIDE DEF LocalOK, Awaiting, AwaitsRead, AwaitsWrite, Pending, PreferWriter, Types,
               ReaderWords, FutexWords, Addresses, Core, PrimaryOK, Primary, OwnerOK, PhaseOK,
               InWritePhase, HandoverBit, Owner, Counted, Waits, Closing, Opening, Unbegun,
               ShutOrOpen, ReadersIn, OneStores, NoReaders, Nonrecursive, Word, Zero, Others,
               Readers, Mind, Clear, Idles, Returns, Parks
  <1>41. QED
    BY <1>1, <1>2, <1>3, <1>4, <1>5, <1>6, <1>7, <1>8, <1>9, <1>10, <1>11, <1>12, <1>13, <1>14,
       <1>15, <1>16, <1>17, <1>18, <1>19, <1>20, <1>21, <1>22, <1>23, <1>24, <1>25, <1>26, <1>27,
       <1>28, <1>29, <1>30, <1>31, <1>32, <1>33, <1>34, <1>35, <1>36, <1>37, <1>38, <1>39, <1>40 DEF Moves, Effects

(* No reader sleeps on the phase that somebody is about to shut.           *)
LEMMA OneShuts ==
  ASSUME Types, Types', NEW t \in Threads, Moves(t),
         Core(t), HandoverBit, Owner, Counted(t) <= readers.n,
         MaxReaders > 1, "begun" \notin lapses', Unbegun(t), ShutOrOpen(t),
         ~readers.phase /\ (readers.n = 0 \/ (readers.n = 1 /\ pc[t] = "ruDec")) => ~phaseWord.phase /\ \A v \in Threads : ~Opening(v),
         NEW u \in Threads \ {t}, Core(u), ~(Primary(t) /\ Primary(u)),
         Counted(u) <= readers.n, Counted(t) + Counted(u) <= readers.n, Unbegun(u), ShutOrOpen(u), OneStores(t, u), OneStores(u, t)
  PROVE  /\ (Closing(t) /\ pc[t] # "ruHand" => ~(AwaitsRead(u) /\ u \in parked["phase"]))'
         /\ (Closing(u) /\ pc[u] # "ruHand" => ~(AwaitsRead(t) /\ t \in parked["phase"]))'
  <1> USE DEF LocalOK, Awaiting, AwaitsRead, AwaitsWrite, Pending, PreferWriter, Types, ReaderWords,
              FutexWords, Addresses, Core, PrimaryOK, Primary, OwnerOK, PhaseOK, InWritePhase,
              HandoverBit, Owner, Counted, Waits, Closing, Opening, Unbegun, ShutOrOpen, ReadersIn,
              OneStores, NoReaders, Nonrecursive, Word, Zero, Others, Readers, Mind, Clear, Idles,
              Returns, Parks
  <1>1. CASE Others(t) /\ ReadLockEffect(t)  BY <1>1 DEF ReadLockEffect
  <1>2. CASE Others(t) /\ ReadPreferEffect(t)  BY <1>2 DEF ReadPreferEffect
  <1>3. CASE Others(t) /\ ReadWaitEffect(t)  BY <1>3 DEF ReadWaitEffect
  <1>4. CASE Others(t) /\ ReadParkEffect(t)  BY <1>4 DEF ReadParkEffect
  <1>5. CASE Others(t) /\ ReadAddEffect(t)  BY <1>5 DEF ReadAddEffect
  <1>6. CASE Others(t) /\ ReadUndoEffect(t)  BY <1>6 DEF ReadUndoEffect
  <1>7. CASE Others(t) /\ ReadStartEffect(t)  BY <1>7 DEF ReadStartEffect
  <1>8. CASE Others(t) /\ ReadOpenEffect(t)  BY <1>8 DEF ReadOpenEffect
  <1>9. CASE Others(t) /\ AwaitEffect(t)  BY <1>9 DEF AwaitEffect
  <1>10. CASE Others(t) /\ AwaitParkEffect(t)  BY <1>10 DEF AwaitParkEffect
  <1>11. CASE Others(t) /\ CheckEffect(t)  BY <1>11 DEF CheckEffect
  <1>12. CASE Others(t) /\ TryReadLockEffect(t)  BY <1>12 DEF TryReadLockEffect
  <1>13. CASE Others(t) /\ WriteLockEffect(t)  BY <1>13 DEF WriteLockEffect
  <1>14. CASE Others(t) /\ WriteSetEffect(t)  BY <1>14 DEF WriteSetEffect
  <1>15. CASE Others(t) /\ WriteRegisterEffect(t)  BY <1>15 DEF WriteRegisterEffect
  <1>16. CASE Others(t) /\ WriteTakeFreeEffect(t)  BY <1>16 DEF WriteTakeFreeEffect
  <1>17. CASE Others(t) /\ WriteUnregisterEffect(t)  BY <1>17 DEF WriteUnregisterEffect
  <1>18. CASE Others(t) /\ WriteTakeTokenEffect(t)  BY <1>18 DEF WriteTakeTokenEffect
  <1>19. CASE Others(t) /\ WriteGotEffect(t)  BY <1>19 DEF WriteGotEffect
  <1>20. CASE Others(t) /\ WriteFutexEffect(t)  BY <1>20 DEF WriteFutexEffect
  <1>21. CASE Others(t) /\ WriteMarkEffect(t)  BY <1>21 DEF WriteMarkEffect
  <1>22. CASE Others(t) /\ WriteParkEffect(t)  BY <1>22 DEF WriteParkEffect
  <1>23. CASE Others(t) /\ WriteReloadEffect(t)  BY <1>23 DEF WriteReloadEffect
  <1>24. CASE Others(t) /\ WriteOpenEffect(t)  BY <1>24 DEF WriteOpenEffect
  <1>25. CASE Others(t) /\ WritePhaseEffect(t)  BY <1>25 DEF WritePhaseEffect
  <1>26. CASE Others(t) /\ WriteStoreEffect(t)  BY <1>26 DEF WriteStoreEffect
  <1>27. CASE Others(t) /\ WriteOwnEffect(t)  BY <1>27 DEF WriteOwnEffect
  <1>28. CASE Others(t) /\ TryWriteLockEffect(t)  BY <1>28 DEF TryWriteLockEffect
  <1>29. CASE Others(t) /\ TryWriteOpenEffect(t)  BY <1>29 DEF TryWriteOpenEffect
  <1>30. CASE Others(t) /\ TryWriteStoreEffect(t)  BY <1>30 DEF TryWriteStoreEffect
  <1>31. CASE Others(t) /\ UnlockReadEffect(t)  BY <1>31 DEF UnlockReadEffect
  <1>32. CASE Others(t) /\ ReadReleaseEffect(t)  BY <1>32 DEF ReadReleaseEffect
  <1>33. CASE Others(t) /\ ReadHandoverEffect(t)  BY <1>33 DEF ReadHandoverEffect
  <1>34. CASE Others(t) /\ UnlockWriteEffect(t)  BY <1>34 DEF UnlockWriteEffect
  <1>35. CASE Others(t) /\ WriteCloseEffect(t)  BY <1>35 DEF WriteCloseEffect
  <1>36. CASE Others(t) /\ WriteHandoverEffect(t)  BY <1>36 DEF WriteHandoverEffect
  <1>37. CASE Others(t) /\ WriteReleaseEffect(t)  BY <1>37 DEF WriteReleaseEffect
  <1>38. CASE Others(t) /\ WriteReadersInEffect(t)  BY <1>38 DEF WriteReadersInEffect
  <1>39. CASE Others(t) /\ InterruptedEffect(t)  BY <1>39 DEF InterruptedEffect, Resume, Addresses
  <1>40. CASE CallsUp(t, Head(my[t].wakes))  BY <1>40 DEF CallsUp, Resume, Addresses
  <1> HIDE DEF LocalOK, Awaiting, AwaitsRead, AwaitsWrite, Pending, PreferWriter, Types,
               ReaderWords, FutexWords, Addresses, Core, PrimaryOK, Primary, OwnerOK, PhaseOK,
               InWritePhase, HandoverBit, Owner, Counted, Waits, Closing, Opening, Unbegun,
               ShutOrOpen, ReadersIn, OneStores, NoReaders, Nonrecursive, Word, Zero, Others,
               Readers, Mind, Clear, Idles, Returns, Parks
  <1>41. QED
    BY <1>1, <1>2, <1>3, <1>4, <1>5, <1>6, <1>7, <1>8, <1>9, <1>10, <1>11, <1>12, <1>13, <1>14,
       <1>15, <1>16, <1>17, <1>18, <1>19, <1>20, <1>21, <1>22, <1>23, <1>24, <1>25, <1>26, <1>27,
       <1>28, <1>29, <1>30, <1>31, <1>32, <1>33, <1>34, <1>35, <1>36, <1>37, <1>38, <1>39, <1>40 DEF Moves, Effects

(* A shut phase is stored, or the mover is on its way to store it.         *)
LEMMA ShutStays ==
  ASSUME Types, Types', NEW t \in Threads, Moves(t),
         Core(t), HandoverBit, Owner, Counted(t) <= readers.n,
         MaxReaders > 1, "begun" \notin lapses', Unbegun(t), ShutOrOpen(t),
         ~readers.phase /\ (readers.n = 0 \/ (readers.n = 1 /\ pc[t] = "ruDec")) => ~phaseWord.phase /\ \A v \in Threads : ~Opening(v)
  PROVE  readers'.phase /\ ~phaseWord'.phase => Closing(t)' \/ (readers.phase /\ ~phaseWord.phase /\ ~Closing(t))
  <1> USE DEF LocalOK, Awaiting, AwaitsRead, AwaitsWrite, Pending, PreferWriter, Types, ReaderWords,
              FutexWords, Addresses, Core, PrimaryOK, Primary, OwnerOK, PhaseOK, InWritePhase,
              HandoverBit, Owner, Counted, Waits, Closing, Opening, Unbegun, ShutOrOpen, ReadersIn,
              OneStores, NoReaders, Nonrecursive, Word, Zero, Others, Readers, Mind, Clear, Idles,
              Returns, Parks
  <1>1. CASE Others(t) /\ ReadLockEffect(t)  BY <1>1 DEF ReadLockEffect
  <1>2. CASE Others(t) /\ ReadPreferEffect(t)  BY <1>2 DEF ReadPreferEffect
  <1>3. CASE Others(t) /\ ReadWaitEffect(t)  BY <1>3 DEF ReadWaitEffect
  <1>4. CASE Others(t) /\ ReadParkEffect(t)  BY <1>4 DEF ReadParkEffect
  <1>5. CASE Others(t) /\ ReadAddEffect(t)  BY <1>5 DEF ReadAddEffect
  <1>6. CASE Others(t) /\ ReadUndoEffect(t)  BY <1>6 DEF ReadUndoEffect
  <1>7. CASE Others(t) /\ ReadStartEffect(t)  BY <1>7 DEF ReadStartEffect
  <1>8. CASE Others(t) /\ ReadOpenEffect(t)  BY <1>8 DEF ReadOpenEffect
  <1>9. CASE Others(t) /\ AwaitEffect(t)  BY <1>9 DEF AwaitEffect
  <1>10. CASE Others(t) /\ AwaitParkEffect(t)  BY <1>10 DEF AwaitParkEffect
  <1>11. CASE Others(t) /\ CheckEffect(t)  BY <1>11 DEF CheckEffect
  <1>12. CASE Others(t) /\ TryReadLockEffect(t)  BY <1>12 DEF TryReadLockEffect
  <1>13. CASE Others(t) /\ WriteLockEffect(t)  BY <1>13 DEF WriteLockEffect
  <1>14. CASE Others(t) /\ WriteSetEffect(t)  BY <1>14 DEF WriteSetEffect
  <1>15. CASE Others(t) /\ WriteRegisterEffect(t)  BY <1>15 DEF WriteRegisterEffect
  <1>16. CASE Others(t) /\ WriteTakeFreeEffect(t)  BY <1>16 DEF WriteTakeFreeEffect
  <1>17. CASE Others(t) /\ WriteUnregisterEffect(t)  BY <1>17 DEF WriteUnregisterEffect
  <1>18. CASE Others(t) /\ WriteTakeTokenEffect(t)  BY <1>18 DEF WriteTakeTokenEffect
  <1>19. CASE Others(t) /\ WriteGotEffect(t)  BY <1>19 DEF WriteGotEffect
  <1>20. CASE Others(t) /\ WriteFutexEffect(t)  BY <1>20 DEF WriteFutexEffect
  <1>21. CASE Others(t) /\ WriteMarkEffect(t)  BY <1>21 DEF WriteMarkEffect
  <1>22. CASE Others(t) /\ WriteParkEffect(t)  BY <1>22 DEF WriteParkEffect
  <1>23. CASE Others(t) /\ WriteReloadEffect(t)  BY <1>23 DEF WriteReloadEffect
  <1>24. CASE Others(t) /\ WriteOpenEffect(t)  BY <1>24 DEF WriteOpenEffect
  <1>25. CASE Others(t) /\ WritePhaseEffect(t)  BY <1>25 DEF WritePhaseEffect
  <1>26. CASE Others(t) /\ WriteStoreEffect(t)  BY <1>26 DEF WriteStoreEffect
  <1>27. CASE Others(t) /\ WriteOwnEffect(t)  BY <1>27 DEF WriteOwnEffect
  <1>28. CASE Others(t) /\ TryWriteLockEffect(t)  BY <1>28 DEF TryWriteLockEffect
  <1>29. CASE Others(t) /\ TryWriteOpenEffect(t)  BY <1>29 DEF TryWriteOpenEffect
  <1>30. CASE Others(t) /\ TryWriteStoreEffect(t)  BY <1>30 DEF TryWriteStoreEffect
  <1>31. CASE Others(t) /\ UnlockReadEffect(t)  BY <1>31 DEF UnlockReadEffect
  <1>32. CASE Others(t) /\ ReadReleaseEffect(t)  BY <1>32 DEF ReadReleaseEffect
  <1>33. CASE Others(t) /\ ReadHandoverEffect(t)  BY <1>33 DEF ReadHandoverEffect
  <1>34. CASE Others(t) /\ UnlockWriteEffect(t)  BY <1>34 DEF UnlockWriteEffect
  <1>35. CASE Others(t) /\ WriteCloseEffect(t)  BY <1>35 DEF WriteCloseEffect
  <1>36. CASE Others(t) /\ WriteHandoverEffect(t)  BY <1>36 DEF WriteHandoverEffect
  <1>37. CASE Others(t) /\ WriteReleaseEffect(t)  BY <1>37 DEF WriteReleaseEffect
  <1>38. CASE Others(t) /\ WriteReadersInEffect(t)  BY <1>38 DEF WriteReadersInEffect
  <1>39. CASE Others(t) /\ InterruptedEffect(t)  BY <1>39 DEF InterruptedEffect, Resume, Addresses
  <1>40. CASE CallsUp(t, Head(my[t].wakes))  BY <1>40 DEF CallsUp, Resume, Addresses
  <1> HIDE DEF LocalOK, Awaiting, AwaitsRead, AwaitsWrite, Pending, PreferWriter, Types,
               ReaderWords, FutexWords, Addresses, Core, PrimaryOK, Primary, OwnerOK, PhaseOK,
               InWritePhase, HandoverBit, Owner, Counted, Waits, Closing, Opening, Unbegun,
               ShutOrOpen, ReadersIn, OneStores, NoReaders, Nonrecursive, Word, Zero, Others,
               Readers, Mind, Clear, Idles, Returns, Parks
  <1>41. QED
    BY <1>1, <1>2, <1>3, <1>4, <1>5, <1>6, <1>7, <1>8, <1>9, <1>10, <1>11, <1>12, <1>13, <1>14,
       <1>15, <1>16, <1>17, <1>18, <1>19, <1>20, <1>21, <1>22, <1>23, <1>24, <1>25, <1>26, <1>27,
       <1>28, <1>29, <1>30, <1>31, <1>32, <1>33, <1>34, <1>35, <1>36, <1>37, <1>38, <1>39, <1>40 DEF Moves, Effects

(* An open phase is stored, or the mover is on its way to store it.        *)
LEMMA OpenStays ==
  ASSUME Types, Types', NEW t \in Threads, Moves(t),
         Core(t), HandoverBit, Owner, Counted(t) <= readers.n,
         MaxReaders > 1, "begun" \notin lapses', Unbegun(t), ShutOrOpen(t),
         ~readers.phase /\ (readers.n = 0 \/ (readers.n = 1 /\ pc[t] = "ruDec")) => ~phaseWord.phase /\ \A v \in Threads : ~Opening(v)
  PROVE  ~readers'.phase /\ phaseWord'.phase => Opening(t)' \/ (~readers.phase /\ phaseWord.phase /\ ~Opening(t))
  <1> USE DEF LocalOK, Awaiting, AwaitsRead, AwaitsWrite, Pending, PreferWriter, Types, ReaderWords,
              FutexWords, Addresses, Core, PrimaryOK, Primary, OwnerOK, PhaseOK, InWritePhase,
              HandoverBit, Owner, Counted, Waits, Closing, Opening, Unbegun, ShutOrOpen, ReadersIn,
              OneStores, NoReaders, Nonrecursive, Word, Zero, Others, Readers, Mind, Clear, Idles,
              Returns, Parks
  <1>1. CASE Others(t) /\ ReadLockEffect(t)  BY <1>1 DEF ReadLockEffect
  <1>2. CASE Others(t) /\ ReadPreferEffect(t)  BY <1>2 DEF ReadPreferEffect
  <1>3. CASE Others(t) /\ ReadWaitEffect(t)  BY <1>3 DEF ReadWaitEffect
  <1>4. CASE Others(t) /\ ReadParkEffect(t)  BY <1>4 DEF ReadParkEffect
  <1>5. CASE Others(t) /\ ReadAddEffect(t)  BY <1>5 DEF ReadAddEffect
  <1>6. CASE Others(t) /\ ReadUndoEffect(t)  BY <1>6 DEF ReadUndoEffect
  <1>7. CASE Others(t) /\ ReadStartEffect(t)  BY <1>7 DEF ReadStartEffect
  <1>8. CASE Others(t) /\ ReadOpenEffect(t)  BY <1>8 DEF ReadOpenEffect
  <1>9. CASE Others(t) /\ AwaitEffect(t)  BY <1>9 DEF AwaitEffect
  <1>10. CASE Others(t) /\ AwaitParkEffect(t)  BY <1>10 DEF AwaitParkEffect
  <1>11. CASE Others(t) /\ CheckEffect(t)  BY <1>11 DEF CheckEffect
  <1>12. CASE Others(t) /\ TryReadLockEffect(t)  BY <1>12 DEF TryReadLockEffect
  <1>13. CASE Others(t) /\ WriteLockEffect(t)  BY <1>13 DEF WriteLockEffect
  <1>14. CASE Others(t) /\ WriteSetEffect(t)  BY <1>14 DEF WriteSetEffect
  <1>15. CASE Others(t) /\ WriteRegisterEffect(t)  BY <1>15 DEF WriteRegisterEffect
  <1>16. CASE Others(t) /\ WriteTakeFreeEffect(t)  BY <1>16 DEF WriteTakeFreeEffect
  <1>17. CASE Others(t) /\ WriteUnregisterEffect(t)  BY <1>17 DEF WriteUnregisterEffect
  <1>18. CASE Others(t) /\ WriteTakeTokenEffect(t)  BY <1>18 DEF WriteTakeTokenEffect
  <1>19. CASE Others(t) /\ WriteGotEffect(t)  BY <1>19 DEF WriteGotEffect
  <1>20. CASE Others(t) /\ WriteFutexEffect(t)  BY <1>20 DEF WriteFutexEffect
  <1>21. CASE Others(t) /\ WriteMarkEffect(t)  BY <1>21 DEF WriteMarkEffect
  <1>22. CASE Others(t) /\ WriteParkEffect(t)  BY <1>22 DEF WriteParkEffect
  <1>23. CASE Others(t) /\ WriteReloadEffect(t)  BY <1>23 DEF WriteReloadEffect
  <1>24. CASE Others(t) /\ WriteOpenEffect(t)  BY <1>24 DEF WriteOpenEffect
  <1>25. CASE Others(t) /\ WritePhaseEffect(t)  BY <1>25 DEF WritePhaseEffect
  <1>26. CASE Others(t) /\ WriteStoreEffect(t)  BY <1>26 DEF WriteStoreEffect
  <1>27. CASE Others(t) /\ WriteOwnEffect(t)  BY <1>27 DEF WriteOwnEffect
  <1>28. CASE Others(t) /\ TryWriteLockEffect(t)  BY <1>28 DEF TryWriteLockEffect
  <1>29. CASE Others(t) /\ TryWriteOpenEffect(t)  BY <1>29 DEF TryWriteOpenEffect
  <1>30. CASE Others(t) /\ TryWriteStoreEffect(t)  BY <1>30 DEF TryWriteStoreEffect
  <1>31. CASE Others(t) /\ UnlockReadEffect(t)  BY <1>31 DEF UnlockReadEffect
  <1>32. CASE Others(t) /\ ReadReleaseEffect(t)  BY <1>32 DEF ReadReleaseEffect
  <1>33. CASE Others(t) /\ ReadHandoverEffect(t)  BY <1>33 DEF ReadHandoverEffect
  <1>34. CASE Others(t) /\ UnlockWriteEffect(t)  BY <1>34 DEF UnlockWriteEffect
  <1>35. CASE Others(t) /\ WriteCloseEffect(t)  BY <1>35 DEF WriteCloseEffect
  <1>36. CASE Others(t) /\ WriteHandoverEffect(t)  BY <1>36 DEF WriteHandoverEffect
  <1>37. CASE Others(t) /\ WriteReleaseEffect(t)  BY <1>37 DEF WriteReleaseEffect
  <1>38. CASE Others(t) /\ WriteReadersInEffect(t)  BY <1>38 DEF WriteReadersInEffect
  <1>39. CASE Others(t) /\ InterruptedEffect(t)  BY <1>39 DEF InterruptedEffect, Resume, Addresses
  <1>40. CASE CallsUp(t, Head(my[t].wakes))  BY <1>40 DEF CallsUp, Resume, Addresses
  <1> HIDE DEF LocalOK, Awaiting, AwaitsRead, AwaitsWrite, Pending, PreferWriter, Types,
               ReaderWords, FutexWords, Addresses, Core, PrimaryOK, Primary, OwnerOK, PhaseOK,
               InWritePhase, HandoverBit, Owner, Counted, Waits, Closing, Opening, Unbegun,
               ShutOrOpen, ReadersIn, OneStores, NoReaders, Nonrecursive, Word, Zero, Others,
               Readers, Mind, Clear, Idles, Returns, Parks
  <1>41. QED
    BY <1>1, <1>2, <1>3, <1>4, <1>5, <1>6, <1>7, <1>8, <1>9, <1>10, <1>11, <1>12, <1>13, <1>14,
       <1>15, <1>16, <1>17, <1>18, <1>19, <1>20, <1>21, <1>22, <1>23, <1>24, <1>25, <1>26, <1>27,
       <1>28, <1>29, <1>30, <1>31, <1>32, <1>33, <1>34, <1>35, <1>36, <1>37, <1>38, <1>39, <1>40 DEF Moves, Effects

(* Readers counted in a write phase: the mover waits, or it was so before. *)
LEMMA KeptStays ==
  ASSUME Types, Types', NEW t \in Threads, Moves(t),
         Core(t), HandoverBit, Owner, Counted(t) <= readers.n,
         MaxReaders > 1, "begun" \notin lapses', Unbegun(t), ShutOrOpen(t),
         ~readers.phase /\ (readers.n = 0 \/ (readers.n = 1 /\ pc[t] = "ruDec")) => ~phaseWord.phase /\ \A v \in Threads : ~Opening(v)
  PROVE  readers'.phase /\ readers'.n > 0 => Waits(t)' \/ (readers.phase /\ readers.n > 0 /\ ~Waits(t))
  <1> USE DEF LocalOK, Awaiting, AwaitsRead, AwaitsWrite, Pending, PreferWriter, Types, ReaderWords,
              FutexWords, Addresses, Core, PrimaryOK, Primary, OwnerOK, PhaseOK, InWritePhase,
              HandoverBit, Owner, Counted, Waits, Closing, Opening, Unbegun, ShutOrOpen, ReadersIn,
              OneStores, NoReaders, Nonrecursive, Word, Zero, Others, Readers, Mind, Clear, Idles,
              Returns, Parks
  <1>1. CASE Others(t) /\ ReadLockEffect(t)  BY <1>1 DEF ReadLockEffect
  <1>2. CASE Others(t) /\ ReadPreferEffect(t)  BY <1>2 DEF ReadPreferEffect
  <1>3. CASE Others(t) /\ ReadWaitEffect(t)  BY <1>3 DEF ReadWaitEffect
  <1>4. CASE Others(t) /\ ReadParkEffect(t)  BY <1>4 DEF ReadParkEffect
  <1>5. CASE Others(t) /\ ReadAddEffect(t)  BY <1>5, RwlockAssumption DEF ReadAddEffect
  <1>6. CASE Others(t) /\ ReadUndoEffect(t)  BY <1>6 DEF ReadUndoEffect
  <1>7. CASE Others(t) /\ ReadStartEffect(t)  BY <1>7 DEF ReadStartEffect
  <1>8. CASE Others(t) /\ ReadOpenEffect(t)  BY <1>8 DEF ReadOpenEffect
  <1>9. CASE Others(t) /\ AwaitEffect(t)  BY <1>9 DEF AwaitEffect
  <1>10. CASE Others(t) /\ AwaitParkEffect(t)  BY <1>10 DEF AwaitParkEffect
  <1>11. CASE Others(t) /\ CheckEffect(t)  BY <1>11 DEF CheckEffect
  <1>12. CASE Others(t) /\ TryReadLockEffect(t)  BY <1>12 DEF TryReadLockEffect
  <1>13. CASE Others(t) /\ WriteLockEffect(t)  BY <1>13 DEF WriteLockEffect
  <1>14. CASE Others(t) /\ WriteSetEffect(t)  BY <1>14 DEF WriteSetEffect
  <1>15. CASE Others(t) /\ WriteRegisterEffect(t)  BY <1>15 DEF WriteRegisterEffect
  <1>16. CASE Others(t) /\ WriteTakeFreeEffect(t)  BY <1>16 DEF WriteTakeFreeEffect
  <1>17. CASE Others(t) /\ WriteUnregisterEffect(t)  BY <1>17 DEF WriteUnregisterEffect
  <1>18. CASE Others(t) /\ WriteTakeTokenEffect(t)  BY <1>18 DEF WriteTakeTokenEffect
  <1>19. CASE Others(t) /\ WriteGotEffect(t)  BY <1>19 DEF WriteGotEffect
  <1>20. CASE Others(t) /\ WriteFutexEffect(t)  BY <1>20 DEF WriteFutexEffect
  <1>21. CASE Others(t) /\ WriteMarkEffect(t)  BY <1>21 DEF WriteMarkEffect
  <1>22. CASE Others(t) /\ WriteParkEffect(t)  BY <1>22 DEF WriteParkEffect
  <1>23. CASE Others(t) /\ WriteReloadEffect(t)  BY <1>23 DEF WriteReloadEffect
  <1>24. CASE Others(t) /\ WriteOpenEffect(t)  BY <1>24 DEF WriteOpenEffect
  <1>25. CASE Others(t) /\ WritePhaseEffect(t)  BY <1>25 DEF WritePhaseEffect
  <1>26. CASE Others(t) /\ WriteStoreEffect(t)  BY <1>26 DEF WriteStoreEffect
  <1>27. CASE Others(t) /\ WriteOwnEffect(t)  BY <1>27 DEF WriteOwnEffect
  <1>28. CASE Others(t) /\ TryWriteLockEffect(t)  BY <1>28 DEF TryWriteLockEffect
  <1>29. CASE Others(t) /\ TryWriteOpenEffect(t)  BY <1>29 DEF TryWriteOpenEffect
  <1>30. CASE Others(t) /\ TryWriteStoreEffect(t)  BY <1>30 DEF TryWriteStoreEffect
  <1>31. CASE Others(t) /\ UnlockReadEffect(t)  BY <1>31 DEF UnlockReadEffect
  <1>32. CASE Others(t) /\ ReadReleaseEffect(t)  BY <1>32 DEF ReadReleaseEffect
  <1>33. CASE Others(t) /\ ReadHandoverEffect(t)  BY <1>33 DEF ReadHandoverEffect
  <1>34. CASE Others(t) /\ UnlockWriteEffect(t)  BY <1>34 DEF UnlockWriteEffect
  <1>35. CASE Others(t) /\ WriteCloseEffect(t)  BY <1>35 DEF WriteCloseEffect
  <1>36. CASE Others(t) /\ WriteHandoverEffect(t)  BY <1>36 DEF WriteHandoverEffect
  <1>37. CASE Others(t) /\ WriteReleaseEffect(t)  BY <1>37 DEF WriteReleaseEffect
  <1>38. CASE Others(t) /\ WriteReadersInEffect(t)  BY <1>38 DEF WriteReadersInEffect
  <1>39. CASE Others(t) /\ InterruptedEffect(t)  BY <1>39 DEF InterruptedEffect, Resume, Addresses
  <1>40. CASE CallsUp(t, Head(my[t].wakes))  BY <1>40 DEF CallsUp, Resume, Addresses
  <1> HIDE DEF LocalOK, Awaiting, AwaitsRead, AwaitsWrite, Pending, PreferWriter, Types,
               ReaderWords, FutexWords, Addresses, Core, PrimaryOK, Primary, OwnerOK, PhaseOK,
               InWritePhase, HandoverBit, Owner, Counted, Waits, Closing, Opening, Unbegun,
               ShutOrOpen, ReadersIn, OneStores, NoReaders, Nonrecursive, Word, Zero, Others,
               Readers, Mind, Clear, Idles, Returns, Parks
  <1>41. QED
    BY <1>1, <1>2, <1>3, <1>4, <1>5, <1>6, <1>7, <1>8, <1>9, <1>10, <1>11, <1>12, <1>13, <1>14,
       <1>15, <1>16, <1>17, <1>18, <1>19, <1>20, <1>21, <1>22, <1>23, <1>24, <1>25, <1>26, <1>27,
       <1>28, <1>29, <1>30, <1>31, <1>32, <1>33, <1>34, <1>35, <1>36, <1>37, <1>38, <1>39, <1>40 DEF Moves, Effects

(* The writer that lets readers in finds the phase shut and one waiting.   *)
LEMMA OwnIn ==
  ASSUME Types, Types', NEW t \in Threads, Moves(t),
         Core(t), HandoverBit, Owner, Counted(t) <= readers.n,
         MaxReaders > 1, "begun" \notin lapses', Unbegun(t), ShutOrOpen(t),
         ~readers.phase /\ (readers.n = 0 \/ (readers.n = 1 /\ pc[t] = "ruDec")) => ~phaseWord.phase /\ \A v \in Threads : ~Opening(v),
         pc[t] = "wuRelease" => phaseWord.phase
  PROVE  pc'[t] = "wuOpen" => phaseWord'.phase /\ readers.phase /\ readers.n > 0 /\ ~Waits(t)
  <1> USE DEF LocalOK, Awaiting, AwaitsRead, AwaitsWrite, Pending, PreferWriter, Types, ReaderWords,
              FutexWords, Addresses, Core, PrimaryOK, Primary, OwnerOK, PhaseOK, InWritePhase,
              HandoverBit, Owner, Counted, Waits, Closing, Opening, Unbegun, ShutOrOpen, ReadersIn,
              OneStores, NoReaders, Nonrecursive, Word, Zero, Others, Readers, Mind, Clear, Idles,
              Returns, Parks
  <1>1. CASE Others(t) /\ ReadLockEffect(t)  BY <1>1 DEF ReadLockEffect
  <1>2. CASE Others(t) /\ ReadPreferEffect(t)  BY <1>2 DEF ReadPreferEffect
  <1>3. CASE Others(t) /\ ReadWaitEffect(t)  BY <1>3 DEF ReadWaitEffect
  <1>4. CASE Others(t) /\ ReadParkEffect(t)  BY <1>4 DEF ReadParkEffect
  <1>5. CASE Others(t) /\ ReadAddEffect(t)  BY <1>5 DEF ReadAddEffect
  <1>6. CASE Others(t) /\ ReadUndoEffect(t)  BY <1>6 DEF ReadUndoEffect
  <1>7. CASE Others(t) /\ ReadStartEffect(t)  BY <1>7 DEF ReadStartEffect
  <1>8. CASE Others(t) /\ ReadOpenEffect(t)  BY <1>8 DEF ReadOpenEffect
  <1>9. CASE Others(t) /\ AwaitEffect(t)  BY <1>9 DEF AwaitEffect
  <1>10. CASE Others(t) /\ AwaitParkEffect(t)  BY <1>10 DEF AwaitParkEffect
  <1>11. CASE Others(t) /\ CheckEffect(t)  BY <1>11 DEF CheckEffect
  <1>12. CASE Others(t) /\ TryReadLockEffect(t)  BY <1>12 DEF TryReadLockEffect
  <1>13. CASE Others(t) /\ WriteLockEffect(t)  BY <1>13 DEF WriteLockEffect
  <1>14. CASE Others(t) /\ WriteSetEffect(t)  BY <1>14 DEF WriteSetEffect
  <1>15. CASE Others(t) /\ WriteRegisterEffect(t)  BY <1>15 DEF WriteRegisterEffect
  <1>16. CASE Others(t) /\ WriteTakeFreeEffect(t)  BY <1>16 DEF WriteTakeFreeEffect
  <1>17. CASE Others(t) /\ WriteUnregisterEffect(t)  BY <1>17 DEF WriteUnregisterEffect
  <1>18. CASE Others(t) /\ WriteTakeTokenEffect(t)  BY <1>18 DEF WriteTakeTokenEffect
  <1>19. CASE Others(t) /\ WriteGotEffect(t)  BY <1>19 DEF WriteGotEffect
  <1>20. CASE Others(t) /\ WriteFutexEffect(t)  BY <1>20 DEF WriteFutexEffect
  <1>21. CASE Others(t) /\ WriteMarkEffect(t)  BY <1>21 DEF WriteMarkEffect
  <1>22. CASE Others(t) /\ WriteParkEffect(t)  BY <1>22 DEF WriteParkEffect
  <1>23. CASE Others(t) /\ WriteReloadEffect(t)  BY <1>23 DEF WriteReloadEffect
  <1>24. CASE Others(t) /\ WriteOpenEffect(t)  BY <1>24 DEF WriteOpenEffect
  <1>25. CASE Others(t) /\ WritePhaseEffect(t)  BY <1>25 DEF WritePhaseEffect
  <1>26. CASE Others(t) /\ WriteStoreEffect(t)  BY <1>26 DEF WriteStoreEffect
  <1>27. CASE Others(t) /\ WriteOwnEffect(t)  BY <1>27 DEF WriteOwnEffect
  <1>28. CASE Others(t) /\ TryWriteLockEffect(t)  BY <1>28 DEF TryWriteLockEffect
  <1>29. CASE Others(t) /\ TryWriteOpenEffect(t)  BY <1>29 DEF TryWriteOpenEffect
  <1>30. CASE Others(t) /\ TryWriteStoreEffect(t)  BY <1>30 DEF TryWriteStoreEffect
  <1>31. CASE Others(t) /\ UnlockReadEffect(t)  BY <1>31 DEF UnlockReadEffect
  <1>32. CASE Others(t) /\ ReadReleaseEffect(t)  BY <1>32 DEF ReadReleaseEffect
  <1>33. CASE Others(t) /\ ReadHandoverEffect(t)  BY <1>33 DEF ReadHandoverEffect
  <1>34. CASE Others(t) /\ UnlockWriteEffect(t)  BY <1>34 DEF UnlockWriteEffect
  <1>35. CASE Others(t) /\ WriteCloseEffect(t)  BY <1>35 DEF WriteCloseEffect
  <1>36. CASE Others(t) /\ WriteHandoverEffect(t)  BY <1>36 DEF WriteHandoverEffect
  <1>37. CASE Others(t) /\ WriteReleaseEffect(t)  BY <1>37 DEF WriteReleaseEffect
  <1>38. CASE Others(t) /\ WriteReadersInEffect(t)  BY <1>38 DEF WriteReadersInEffect
  <1>39. CASE Others(t) /\ InterruptedEffect(t)  BY <1>39 DEF InterruptedEffect, Resume, Addresses
  <1>40. CASE CallsUp(t, Head(my[t].wakes))  BY <1>40 DEF CallsUp, Resume, Addresses
  <1> HIDE DEF LocalOK, Awaiting, AwaitsRead, AwaitsWrite, Pending, PreferWriter, Types,
               ReaderWords, FutexWords, Addresses, Core, PrimaryOK, Primary, OwnerOK, PhaseOK,
               InWritePhase, HandoverBit, Owner, Counted, Waits, Closing, Opening, Unbegun,
               ShutOrOpen, ReadersIn, OneStores, NoReaders, Nonrecursive, Word, Zero, Others,
               Readers, Mind, Clear, Idles, Returns, Parks
  <1>41. QED
    BY <1>1, <1>2, <1>3, <1>4, <1>5, <1>6, <1>7, <1>8, <1>9, <1>10, <1>11, <1>12, <1>13, <1>14,
       <1>15, <1>16, <1>17, <1>18, <1>19, <1>20, <1>21, <1>22, <1>23, <1>24, <1>25, <1>26, <1>27,
       <1>28, <1>29, <1>30, <1>31, <1>32, <1>33, <1>34, <1>35, <1>36, <1>37, <1>38, <1>39, <1>40 DEF Moves, Effects

(* And it still does after another thread's step.                          *)
LEMMA OtherIn ==
  ASSUME Types, Types', NEW t \in Threads, Moves(t),
         Core(t), HandoverBit, Owner, Counted(t) <= readers.n,
         MaxReaders > 1, "begun" \notin lapses', Unbegun(t), ShutOrOpen(t),
         ~readers.phase /\ (readers.n = 0 \/ (readers.n = 1 /\ pc[t] = "ruDec")) => ~phaseWord.phase /\ \A v \in Threads : ~Opening(v),
         NEW u \in Threads \ {t}, Core(u), ~(Primary(t) /\ Primary(u)),
         Counted(u) <= readers.n, Counted(t) + Counted(u) <= readers.n, Unbegun(u), ShutOrOpen(u), OneStores(t, u), OneStores(u, t),
         pc[u] = "wuOpen" => phaseWord.phase
  PROVE  pc'[u] = "wuOpen" => pc[u] = "wuOpen" /\ (phaseWord.phase => phaseWord'.phase) /\ (Waits(t) => Waits(t)')
  <1> USE DEF LocalOK, Awaiting, AwaitsRead, AwaitsWrite, Pending, PreferWriter, Types, ReaderWords,
              FutexWords, Addresses, Core, PrimaryOK, Primary, OwnerOK, PhaseOK, InWritePhase,
              HandoverBit, Owner, Counted, Waits, Closing, Opening, Unbegun, ShutOrOpen, ReadersIn,
              OneStores, NoReaders, Nonrecursive, Word, Zero, Others, Readers, Mind, Clear, Idles,
              Returns, Parks
  <1>1. CASE Others(t) /\ ReadLockEffect(t)  BY <1>1 DEF ReadLockEffect
  <1>2. CASE Others(t) /\ ReadPreferEffect(t)  BY <1>2 DEF ReadPreferEffect
  <1>3. CASE Others(t) /\ ReadWaitEffect(t)  BY <1>3 DEF ReadWaitEffect
  <1>4. CASE Others(t) /\ ReadParkEffect(t)  BY <1>4 DEF ReadParkEffect
  <1>5. CASE Others(t) /\ ReadAddEffect(t)  BY <1>5 DEF ReadAddEffect
  <1>6. CASE Others(t) /\ ReadUndoEffect(t)  BY <1>6 DEF ReadUndoEffect
  <1>7. CASE Others(t) /\ ReadStartEffect(t)  BY <1>7 DEF ReadStartEffect
  <1>8. CASE Others(t) /\ ReadOpenEffect(t)  BY <1>8 DEF ReadOpenEffect
  <1>9. CASE Others(t) /\ AwaitEffect(t)  BY <1>9 DEF AwaitEffect
  <1>10. CASE Others(t) /\ AwaitParkEffect(t)  BY <1>10 DEF AwaitParkEffect
  <1>11. CASE Others(t) /\ CheckEffect(t)  BY <1>11 DEF CheckEffect
  <1>12. CASE Others(t) /\ TryReadLockEffect(t)  BY <1>12 DEF TryReadLockEffect
  <1>13. CASE Others(t) /\ WriteLockEffect(t)  BY <1>13 DEF WriteLockEffect
  <1>14. CASE Others(t) /\ WriteSetEffect(t)  BY <1>14 DEF WriteSetEffect
  <1>15. CASE Others(t) /\ WriteRegisterEffect(t)  BY <1>15 DEF WriteRegisterEffect
  <1>16. CASE Others(t) /\ WriteTakeFreeEffect(t)  BY <1>16 DEF WriteTakeFreeEffect
  <1>17. CASE Others(t) /\ WriteUnregisterEffect(t)  BY <1>17 DEF WriteUnregisterEffect
  <1>18. CASE Others(t) /\ WriteTakeTokenEffect(t)  BY <1>18 DEF WriteTakeTokenEffect
  <1>19. CASE Others(t) /\ WriteGotEffect(t)  BY <1>19 DEF WriteGotEffect
  <1>20. CASE Others(t) /\ WriteFutexEffect(t)  BY <1>20 DEF WriteFutexEffect
  <1>21. CASE Others(t) /\ WriteMarkEffect(t)  BY <1>21 DEF WriteMarkEffect
  <1>22. CASE Others(t) /\ WriteParkEffect(t)  BY <1>22 DEF WriteParkEffect
  <1>23. CASE Others(t) /\ WriteReloadEffect(t)  BY <1>23 DEF WriteReloadEffect
  <1>24. CASE Others(t) /\ WriteOpenEffect(t)  BY <1>24 DEF WriteOpenEffect
  <1>25. CASE Others(t) /\ WritePhaseEffect(t)  BY <1>25 DEF WritePhaseEffect
  <1>26. CASE Others(t) /\ WriteStoreEffect(t)  BY <1>26 DEF WriteStoreEffect
  <1>27. CASE Others(t) /\ WriteOwnEffect(t)  BY <1>27 DEF WriteOwnEffect
  <1>28. CASE Others(t) /\ TryWriteLockEffect(t)  BY <1>28 DEF TryWriteLockEffect
  <1>29. CASE Others(t) /\ TryWriteOpenEffect(t)  BY <1>29 DEF TryWriteOpenEffect
  <1>30. CASE Others(t) /\ TryWriteStoreEffect(t)  BY <1>30 DEF TryWriteStoreEffect
  <1>31. CASE Others(t) /\ UnlockReadEffect(t)  BY <1>31 DEF UnlockReadEffect
  <1>32. CASE Others(t) /\ ReadReleaseEffect(t)  BY <1>32 DEF ReadReleaseEffect
  <1>33. CASE Others(t) /\ ReadHandoverEffect(t)  BY <1>33 DEF ReadHandoverEffect
  <1>34. CASE Others(t) /\ UnlockWriteEffect(t)  BY <1>34 DEF UnlockWriteEffect
  <1>35. CASE Others(t) /\ WriteCloseEffect(t)  BY <1>35 DEF WriteCloseEffect
  <1>36. CASE Others(t) /\ WriteHandoverEffect(t)  BY <1>36 DEF WriteHandoverEffect
  <1>37. CASE Others(t) /\ WriteReleaseEffect(t)  BY <1>37 DEF WriteReleaseEffect
  <1>38. CASE Others(t) /\ WriteReadersInEffect(t)  BY <1>38 DEF WriteReadersInEffect
  <1>39. CASE Others(t) /\ InterruptedEffect(t)  BY <1>39 DEF InterruptedEffect, Resume, Addresses
  <1>40. CASE CallsUp(t, Head(my[t].wakes))  BY <1>40 DEF CallsUp, Resume, Addresses
  <1> HIDE DEF LocalOK, Awaiting, AwaitsRead, AwaitsWrite, Pending, PreferWriter, Types,
               ReaderWords, FutexWords, Addresses, Core, PrimaryOK, Primary, OwnerOK, PhaseOK,
               InWritePhase, HandoverBit, Owner, Counted, Waits, Closing, Opening, Unbegun,
               ShutOrOpen, ReadersIn, OneStores, NoReaders, Nonrecursive, Word, Zero, Others,
               Readers, Mind, Clear, Idles, Returns, Parks
  <1>41. QED
    BY <1>1, <1>2, <1>3, <1>4, <1>5, <1>6, <1>7, <1>8, <1>9, <1>10, <1>11, <1>12, <1>13, <1>14,
       <1>15, <1>16, <1>17, <1>18, <1>19, <1>20, <1>21, <1>22, <1>23, <1>24, <1>25, <1>26, <1>27,
       <1>28, <1>29, <1>30, <1>31, <1>32, <1>33, <1>34, <1>35, <1>36, <1>37, <1>38, <1>39, <1>40 DEF Moves, Effects

(* Whoever is parked is remembered.  A wake once due stays due.            *)
LEMMA BurdenStays ==
  ASSUME Types, Types', NEW t \in Threads, Others(t), Effects(t),
         LocalOK(t), NEW a \in Addresses
  PROVE  Bears(t, a) => Bears(t, a)'
  <1> USE DEF LocalOK, Pending, Others, Readers, Mind, Clear, Idles, Returns, Parks
  <1>a. pc[t] \notin Pending => ~Bears(t, a)
    BY DEF LocalOK, Bears
  <1>b. my'[t].wakes = my[t].wakes => (Bears(t, a) => Bears(t, a)')
    BY DEF Bears
  <1>1. CASE Others(t) /\ ReadLockEffect(t)  BY <1>1, <1>a, <1>b DEF ReadLockEffect
  <1>2. CASE Others(t) /\ ReadPreferEffect(t)  BY <1>2, <1>a, <1>b DEF ReadPreferEffect
  <1>3. CASE Others(t) /\ ReadWaitEffect(t)  BY <1>3, <1>a, <1>b DEF ReadWaitEffect
  <1>4. CASE Others(t) /\ ReadParkEffect(t)  BY <1>4, <1>a, <1>b DEF ReadParkEffect
  <1>5. CASE Others(t) /\ ReadAddEffect(t)  BY <1>5, <1>a, <1>b DEF ReadAddEffect
  <1>6. CASE Others(t) /\ ReadUndoEffect(t)  BY <1>6, <1>a, <1>b DEF ReadUndoEffect
  <1>7. CASE Others(t) /\ ReadStartEffect(t)  BY <1>7, <1>a, <1>b DEF ReadStartEffect
  <1>8. CASE Others(t) /\ ReadOpenEffect(t)  BY <1>8, <1>a, <1>b DEF ReadOpenEffect
  <1>9. CASE Others(t) /\ AwaitEffect(t)  BY <1>9, <1>a, <1>b DEF AwaitEffect
  <1>10. CASE Others(t) /\ AwaitParkEffect(t)  BY <1>10, <1>a, <1>b DEF AwaitParkEffect
  <1>11. CASE Others(t) /\ CheckEffect(t)  BY <1>11, <1>a, <1>b DEF CheckEffect
  <1>12. CASE Others(t) /\ TryReadLockEffect(t)  BY <1>12, <1>a, <1>b DEF TryReadLockEffect
  <1>13. CASE Others(t) /\ WriteLockEffect(t)  BY <1>13, <1>a, <1>b DEF WriteLockEffect
  <1>14. CASE Others(t) /\ WriteSetEffect(t)  BY <1>14, <1>a, <1>b DEF WriteSetEffect
  <1>15. CASE Others(t) /\ WriteRegisterEffect(t)  BY <1>15, <1>a, <1>b DEF WriteRegisterEffect
  <1>16. CASE Others(t) /\ WriteTakeFreeEffect(t)  BY <1>16, <1>a, <1>b DEF WriteTakeFreeEffect
  <1>17. CASE Others(t) /\ WriteUnregisterEffect(t)  BY <1>17, <1>a, <1>b DEF WriteUnregisterEffect
  <1>18. CASE Others(t) /\ WriteTakeTokenEffect(t)  BY <1>18, <1>a, <1>b DEF WriteTakeTokenEffect
  <1>19. CASE Others(t) /\ WriteGotEffect(t)  BY <1>19, <1>a, <1>b DEF WriteGotEffect
  <1>20. CASE Others(t) /\ WriteFutexEffect(t)  BY <1>20, <1>a, <1>b DEF WriteFutexEffect
  <1>21. CASE Others(t) /\ WriteMarkEffect(t)  BY <1>21, <1>a, <1>b DEF WriteMarkEffect
  <1>22. CASE Others(t) /\ WriteParkEffect(t)  BY <1>22, <1>a, <1>b DEF WriteParkEffect
  <1>23. CASE Others(t) /\ WriteReloadEffect(t)  BY <1>23, <1>a, <1>b DEF WriteReloadEffect
  <1>24. CASE Others(t) /\ WriteOpenEffect(t)  BY <1>24, <1>a, <1>b DEF WriteOpenEffect
  <1>25. CASE Others(t) /\ WritePhaseEffect(t)  BY <1>25, <1>a, <1>b DEF WritePhaseEffect
  <1>26. CASE Others(t) /\ WriteStoreEffect(t)  BY <1>26, <1>a, <1>b DEF WriteStoreEffect
  <1>27. CASE Others(t) /\ WriteOwnEffect(t)  BY <1>27, <1>a, <1>b DEF WriteOwnEffect
  <1>28. CASE Others(t) /\ TryWriteLockEffect(t)  BY <1>28, <1>a, <1>b DEF TryWriteLockEffect
  <1>29. CASE Others(t) /\ TryWriteOpenEffect(t)  BY <1>29, <1>a, <1>b DEF TryWriteOpenEffect
  <1>30. CASE Others(t) /\ TryWriteStoreEffect(t)  BY <1>30, <1>a, <1>b DEF TryWriteStoreEffect
  <1>31. CASE Others(t) /\ UnlockReadEffect(t)  BY <1>31, <1>a, <1>b DEF UnlockReadEffect
  <1>32. CASE Others(t) /\ ReadReleaseEffect(t)  BY <1>32, <1>a, <1>b DEF ReadReleaseEffect
  <1>33. CASE Others(t) /\ ReadHandoverEffect(t)  BY <1>33, <1>a, <1>b DEF ReadHandoverEffect
  <1>34. CASE Others(t) /\ UnlockWriteEffect(t)  BY <1>34, <1>a, <1>b DEF UnlockWriteEffect
  <1>35. CASE Others(t) /\ WriteCloseEffect(t)  BY <1>35, <1>a, <1>b DEF WriteCloseEffect
  <1>36. CASE Others(t) /\ WriteHandoverEffect(t)  BY <1>36, <1>a, <1>b DEF WriteHandoverEffect
  <1>37. CASE Others(t) /\ WriteReleaseEffect(t)  BY <1>37, <1>a, <1>b DEF WriteReleaseEffect
  <1>38. CASE Others(t) /\ WriteReadersInEffect(t)  BY <1>38, <1>a, <1>b DEF WriteReadersInEffect
  <1>39. CASE Others(t) /\ InterruptedEffect(t)  BY <1>39, <1>a, <1>b DEF InterruptedEffect, Resume, Addresses
  <1> HIDE DEF LocalOK, Pending, Others, Readers, Mind, Clear, Idles, Returns, Parks
  <1>40. QED
    BY <1>1, <1>2, <1>3, <1>4, <1>5, <1>6, <1>7, <1>8, <1>9, <1>10, <1>11, <1>12, <1>13, <1>14,
       <1>15, <1>16, <1>17, <1>18, <1>19, <1>20, <1>21, <1>22, <1>23, <1>24, <1>25, <1>26, <1>27,
       <1>28, <1>29, <1>30, <1>31, <1>32, <1>33, <1>34, <1>35, <1>36, <1>37, <1>38, <1>39 DEF Effects

(* Whoever is parked on the phase is due a wake or its mark is set.        *)
LEMMA PhaseMark ==
  ASSUME Types, Types', NEW t \in Threads, Others(t), Effects(t),
         LocalOK(t), pc[t] \in {"wrStore", "twStore"} => parked["phase"] = {},
         \A a \in Addresses : Bears(t, a) => Bears(t, a)'
  PROVE  parked'["phase"] # {} => Bears(t, "phase")' \/ phaseWord'.used
                                 \/ (parked["phase"] # {} /\ ~Bears(t, "phase") /\ ~phaseWord.used)
  <1> USE DEF LocalOK, Awaiting, Pending, Types, FutexWords, Word, Zero, Addresses, Others, Readers,
              Mind, Clear, Idles, Returns, Parks
  <1>1. CASE Others(t) /\ ReadLockEffect(t)  BY <1>1 DEF ReadLockEffect
  <1>2. CASE Others(t) /\ ReadPreferEffect(t)  BY <1>2 DEF ReadPreferEffect
  <1>3. CASE Others(t) /\ ReadWaitEffect(t)  BY <1>3 DEF ReadWaitEffect
  <1>4. CASE Others(t) /\ ReadParkEffect(t)  BY <1>4 DEF ReadParkEffect
  <1>5. CASE Others(t) /\ ReadAddEffect(t)  BY <1>5 DEF ReadAddEffect
  <1>6. CASE Others(t) /\ ReadUndoEffect(t)  BY <1>6 DEF ReadUndoEffect
  <1>7. CASE Others(t) /\ ReadStartEffect(t)  BY <1>7 DEF ReadStartEffect
  <1>8. CASE Others(t) /\ ReadOpenEffect(t)  BY <1>8 DEF ReadOpenEffect
  <1>9. CASE Others(t) /\ AwaitEffect(t)  BY <1>9 DEF AwaitEffect
  <1>10. CASE Others(t) /\ AwaitParkEffect(t)  BY <1>10 DEF AwaitParkEffect
  <1>11. CASE Others(t) /\ CheckEffect(t)  BY <1>11 DEF CheckEffect
  <1>12. CASE Others(t) /\ TryReadLockEffect(t)  BY <1>12 DEF TryReadLockEffect
  <1>13. CASE Others(t) /\ WriteLockEffect(t)  BY <1>13 DEF WriteLockEffect
  <1>14. CASE Others(t) /\ WriteSetEffect(t)  BY <1>14 DEF WriteSetEffect
  <1>15. CASE Others(t) /\ WriteRegisterEffect(t)  BY <1>15 DEF WriteRegisterEffect
  <1>16. CASE Others(t) /\ WriteTakeFreeEffect(t)  BY <1>16 DEF WriteTakeFreeEffect
  <1>17. CASE Others(t) /\ WriteUnregisterEffect(t)  BY <1>17 DEF WriteUnregisterEffect
  <1>18. CASE Others(t) /\ WriteTakeTokenEffect(t)  BY <1>18 DEF WriteTakeTokenEffect
  <1>19. CASE Others(t) /\ WriteGotEffect(t)  BY <1>19 DEF WriteGotEffect
  <1>20. CASE Others(t) /\ WriteFutexEffect(t)  BY <1>20 DEF WriteFutexEffect
  <1>21. CASE Others(t) /\ WriteMarkEffect(t)  BY <1>21 DEF WriteMarkEffect
  <1>22. CASE Others(t) /\ WriteParkEffect(t)  BY <1>22 DEF WriteParkEffect
  <1>23. CASE Others(t) /\ WriteReloadEffect(t)  BY <1>23 DEF WriteReloadEffect
  <1>24. CASE Others(t) /\ WriteOpenEffect(t)  BY <1>24 DEF WriteOpenEffect
  <1>25. CASE Others(t) /\ WritePhaseEffect(t)  BY <1>25 DEF WritePhaseEffect
  <1>26. CASE Others(t) /\ WriteStoreEffect(t)  BY <1>26 DEF WriteStoreEffect
  <1>27. CASE Others(t) /\ WriteOwnEffect(t)  BY <1>27 DEF WriteOwnEffect
  <1>28. CASE Others(t) /\ TryWriteLockEffect(t)  BY <1>28 DEF TryWriteLockEffect
  <1>29. CASE Others(t) /\ TryWriteOpenEffect(t)  BY <1>29 DEF TryWriteOpenEffect
  <1>30. CASE Others(t) /\ TryWriteStoreEffect(t)  BY <1>30 DEF TryWriteStoreEffect
  <1>31. CASE Others(t) /\ UnlockReadEffect(t)  BY <1>31 DEF UnlockReadEffect
  <1>32. CASE Others(t) /\ ReadReleaseEffect(t)  BY <1>32 DEF ReadReleaseEffect
  <1>33. CASE Others(t) /\ ReadHandoverEffect(t)  BY <1>33 DEF ReadHandoverEffect
  <1>34. CASE Others(t) /\ UnlockWriteEffect(t)  BY <1>34 DEF UnlockWriteEffect
  <1>35. CASE Others(t) /\ WriteCloseEffect(t)  BY <1>35 DEF WriteCloseEffect
  <1>36. CASE Others(t) /\ WriteHandoverEffect(t)  BY <1>36 DEF WriteHandoverEffect
  <1>37. CASE Others(t) /\ WriteReleaseEffect(t)  BY <1>37 DEF WriteReleaseEffect
  <1>38. CASE Others(t) /\ WriteReadersInEffect(t)  BY <1>38 DEF WriteReadersInEffect
  <1>39. CASE Others(t) /\ InterruptedEffect(t)  BY <1>39 DEF InterruptedEffect, Resume, Addresses
  <1> HIDE DEF LocalOK, Awaiting, Pending, Types, FutexWords, Word, Zero, Addresses, Others,
               Readers, Mind, Clear, Idles, Returns, Parks
  <1>40. QED
    BY <1>1, <1>2, <1>3, <1>4, <1>5, <1>6, <1>7, <1>8, <1>9, <1>10, <1>11, <1>12, <1>13, <1>14,
       <1>15, <1>16, <1>17, <1>18, <1>19, <1>20, <1>21, <1>22, <1>23, <1>24, <1>25, <1>26, <1>27,
       <1>28, <1>29, <1>30, <1>31, <1>32, <1>33, <1>34, <1>35, <1>36, <1>37, <1>38, <1>39 DEF Effects

(* Whoever is parked on the readers' word is due a wake or its bit is set. *)
LEMMA ReadersBit ==
  ASSUME Types, Types', NEW t \in Threads, Others(t), Effects(t),
         LocalOK(t), \A a \in Addresses : Bears(t, a) => Bears(t, a)'
  PROVE  parked'["readers"] # {} => Bears(t, "readers")' \/ readers'.waiting
                                 \/ (parked["readers"] # {} /\ ~Bears(t, "readers") /\ ~readers.waiting)
  <1> USE DEF LocalOK, Awaiting, Pending, Types, FutexWords, Word, Zero, Addresses, Others, Readers,
              Mind, Clear, Idles, Returns, Parks
  <1>1. CASE Others(t) /\ ReadLockEffect(t)  BY <1>1 DEF ReadLockEffect
  <1>2. CASE Others(t) /\ ReadPreferEffect(t)  BY <1>2 DEF ReadPreferEffect
  <1>3. CASE Others(t) /\ ReadWaitEffect(t)  BY <1>3 DEF ReadWaitEffect
  <1>4. CASE Others(t) /\ ReadParkEffect(t)  BY <1>4 DEF ReadParkEffect
  <1>5. CASE Others(t) /\ ReadAddEffect(t)  BY <1>5 DEF ReadAddEffect
  <1>6. CASE Others(t) /\ ReadUndoEffect(t)  BY <1>6 DEF ReadUndoEffect
  <1>7. CASE Others(t) /\ ReadStartEffect(t)  BY <1>7 DEF ReadStartEffect
  <1>8. CASE Others(t) /\ ReadOpenEffect(t)  BY <1>8 DEF ReadOpenEffect
  <1>9. CASE Others(t) /\ AwaitEffect(t)  BY <1>9 DEF AwaitEffect
  <1>10. CASE Others(t) /\ AwaitParkEffect(t)  BY <1>10 DEF AwaitParkEffect
  <1>11. CASE Others(t) /\ CheckEffect(t)  BY <1>11 DEF CheckEffect
  <1>12. CASE Others(t) /\ TryReadLockEffect(t)  BY <1>12 DEF TryReadLockEffect
  <1>13. CASE Others(t) /\ WriteLockEffect(t)  BY <1>13 DEF WriteLockEffect
  <1>14. CASE Others(t) /\ WriteSetEffect(t)  BY <1>14 DEF WriteSetEffect
  <1>15. CASE Others(t) /\ WriteRegisterEffect(t)  BY <1>15 DEF WriteRegisterEffect
  <1>16. CASE Others(t) /\ WriteTakeFreeEffect(t)  BY <1>16 DEF WriteTakeFreeEffect
  <1>17. CASE Others(t) /\ WriteUnregisterEffect(t)  BY <1>17 DEF WriteUnregisterEffect
  <1>18. CASE Others(t) /\ WriteTakeTokenEffect(t)  BY <1>18 DEF WriteTakeTokenEffect
  <1>19. CASE Others(t) /\ WriteGotEffect(t)  BY <1>19 DEF WriteGotEffect
  <1>20. CASE Others(t) /\ WriteFutexEffect(t)  BY <1>20 DEF WriteFutexEffect
  <1>21. CASE Others(t) /\ WriteMarkEffect(t)  BY <1>21 DEF WriteMarkEffect
  <1>22. CASE Others(t) /\ WriteParkEffect(t)  BY <1>22 DEF WriteParkEffect
  <1>23. CASE Others(t) /\ WriteReloadEffect(t)  BY <1>23 DEF WriteReloadEffect
  <1>24. CASE Others(t) /\ WriteOpenEffect(t)  BY <1>24 DEF WriteOpenEffect
  <1>25. CASE Others(t) /\ WritePhaseEffect(t)  BY <1>25 DEF WritePhaseEffect
  <1>26. CASE Others(t) /\ WriteStoreEffect(t)  BY <1>26 DEF WriteStoreEffect
  <1>27. CASE Others(t) /\ WriteOwnEffect(t)  BY <1>27 DEF WriteOwnEffect
  <1>28. CASE Others(t) /\ TryWriteLockEffect(t)  BY <1>28 DEF TryWriteLockEffect
  <1>29. CASE Others(t) /\ TryWriteOpenEffect(t)  BY <1>29 DEF TryWriteOpenEffect
  <1>30. CASE Others(t) /\ TryWriteStoreEffect(t)  BY <1>30 DEF TryWriteStoreEffect
  <1>31. CASE Others(t) /\ UnlockReadEffect(t)  BY <1>31 DEF UnlockReadEffect
  <1>32. CASE Others(t) /\ ReadReleaseEffect(t)  BY <1>32 DEF ReadReleaseEffect
  <1>33. CASE Others(t) /\ ReadHandoverEffect(t)  BY <1>33 DEF ReadHandoverEffect
  <1>34. CASE Others(t) /\ UnlockWriteEffect(t)  BY <1>34 DEF UnlockWriteEffect
  <1>35. CASE Others(t) /\ WriteCloseEffect(t)  BY <1>35 DEF WriteCloseEffect
  <1>36. CASE Others(t) /\ WriteHandoverEffect(t)  BY <1>36 DEF WriteHandoverEffect
  <1>37. CASE Others(t) /\ WriteReleaseEffect(t)  BY <1>37 DEF WriteReleaseEffect
  <1>38. CASE Others(t) /\ WriteReadersInEffect(t)  BY <1>38 DEF WriteReadersInEffect
  <1>39. CASE Others(t) /\ InterruptedEffect(t)  BY <1>39 DEF InterruptedEffect, Resume, Addresses
  <1> HIDE DEF LocalOK, Awaiting, Pending, Types, FutexWords, Word, Zero, Addresses, Others,
               Readers, Mind, Clear, Idles, Returns, Parks
  <1>40. QED
    BY <1>1, <1>2, <1>3, <1>4, <1>5, <1>6, <1>7, <1>8, <1>9, <1>10, <1>11, <1>12, <1>13, <1>14,
       <1>15, <1>16, <1>17, <1>18, <1>19, <1>20, <1>21, <1>22, <1>23, <1>24, <1>25, <1>26, <1>27,
       <1>28, <1>29, <1>30, <1>31, <1>32, <1>33, <1>34, <1>35, <1>36, <1>37, <1>38, <1>39 DEF Effects

(* A parked writer is due a wake, or the marker is set or kept.            *)
LEMMA WritersMark ==
  ASSUME Types, Types', NEW t \in Threads, Others(t), Effects(t),
         LocalOK(t), WritersWord, Shares(t), \A a \in Addresses : Bears(t, a) => Bears(t, a)'
  PROVE  parked'["writers"] # {} => Bears(t, "writers")' \/ writersWord'.used \/ KeepsMark(t)'
                                 \/ (parked["writers"] # {} /\ ~Bears(t, "writers") /\ ~writersWord.used /\ ~KeepsMark(t))
  <1> USE DEF LocalOK, Awaiting, Pending, Types, FutexWords, Word, Zero, KeepsMark, Shares,
              WritersWord, Addresses, Others, Readers, Mind, Clear, Idles, Returns, Parks
  <1>1. CASE Others(t) /\ ReadLockEffect(t)  BY <1>1 DEF ReadLockEffect
  <1>2. CASE Others(t) /\ ReadPreferEffect(t)  BY <1>2 DEF ReadPreferEffect
  <1>3. CASE Others(t) /\ ReadWaitEffect(t)  BY <1>3 DEF ReadWaitEffect
  <1>4. CASE Others(t) /\ ReadParkEffect(t)  BY <1>4 DEF ReadParkEffect
  <1>5. CASE Others(t) /\ ReadAddEffect(t)  BY <1>5 DEF ReadAddEffect
  <1>6. CASE Others(t) /\ ReadUndoEffect(t)  BY <1>6 DEF ReadUndoEffect
  <1>7. CASE Others(t) /\ ReadStartEffect(t)  BY <1>7 DEF ReadStartEffect
  <1>8. CASE Others(t) /\ ReadOpenEffect(t)  BY <1>8 DEF ReadOpenEffect
  <1>9. CASE Others(t) /\ AwaitEffect(t)  BY <1>9 DEF AwaitEffect
  <1>10. CASE Others(t) /\ AwaitParkEffect(t)  BY <1>10 DEF AwaitParkEffect
  <1>11. CASE Others(t) /\ CheckEffect(t)  BY <1>11 DEF CheckEffect
  <1>12. CASE Others(t) /\ TryReadLockEffect(t)  BY <1>12 DEF TryReadLockEffect
  <1>13. CASE Others(t) /\ WriteLockEffect(t)  BY <1>13 DEF WriteLockEffect
  <1>14. CASE Others(t) /\ WriteSetEffect(t)  BY <1>14 DEF WriteSetEffect
  <1>15. CASE Others(t) /\ WriteRegisterEffect(t)  BY <1>15 DEF WriteRegisterEffect
  <1>16. CASE Others(t) /\ WriteTakeFreeEffect(t)  BY <1>16 DEF WriteTakeFreeEffect
  <1>17. CASE Others(t) /\ WriteUnregisterEffect(t)  BY <1>17 DEF WriteUnregisterEffect
  <1>18. CASE Others(t) /\ WriteTakeTokenEffect(t)  BY <1>18 DEF WriteTakeTokenEffect
  <1>19. CASE Others(t) /\ WriteGotEffect(t)  BY <1>19 DEF WriteGotEffect
  <1>20. CASE Others(t) /\ WriteFutexEffect(t)  BY <1>20 DEF WriteFutexEffect
  <1>21. CASE Others(t) /\ WriteMarkEffect(t)  BY <1>21 DEF WriteMarkEffect
  <1>22. CASE Others(t) /\ WriteParkEffect(t)  BY <1>22 DEF WriteParkEffect
  <1>23. CASE Others(t) /\ WriteReloadEffect(t)  BY <1>23 DEF WriteReloadEffect
  <1>24. CASE Others(t) /\ WriteOpenEffect(t)  BY <1>24 DEF WriteOpenEffect
  <1>25. CASE Others(t) /\ WritePhaseEffect(t)  BY <1>25 DEF WritePhaseEffect
  <1>26. CASE Others(t) /\ WriteStoreEffect(t)  BY <1>26 DEF WriteStoreEffect
  <1>27. CASE Others(t) /\ WriteOwnEffect(t)  BY <1>27 DEF WriteOwnEffect
  <1>28. CASE Others(t) /\ TryWriteLockEffect(t)  BY <1>28 DEF TryWriteLockEffect
  <1>29. CASE Others(t) /\ TryWriteOpenEffect(t)  BY <1>29 DEF TryWriteOpenEffect
  <1>30. CASE Others(t) /\ TryWriteStoreEffect(t)  BY <1>30 DEF TryWriteStoreEffect
  <1>31. CASE Others(t) /\ UnlockReadEffect(t)  BY <1>31 DEF UnlockReadEffect
  <1>32. CASE Others(t) /\ ReadReleaseEffect(t)  BY <1>32 DEF ReadReleaseEffect
  <1>33. CASE Others(t) /\ ReadHandoverEffect(t)  BY <1>33 DEF ReadHandoverEffect
  <1>34. CASE Others(t) /\ UnlockWriteEffect(t)  BY <1>34 DEF UnlockWriteEffect
  <1>35. CASE Others(t) /\ WriteCloseEffect(t)  BY <1>35 DEF WriteCloseEffect
  <1>36. CASE Others(t) /\ WriteHandoverEffect(t)  BY <1>36 DEF WriteHandoverEffect
  <1>37. CASE Others(t) /\ WriteReleaseEffect(t)  BY <1>37 DEF WriteReleaseEffect
  <1>38. CASE Others(t) /\ WriteReadersInEffect(t)  BY <1>38 DEF WriteReadersInEffect
  <1>39. CASE Others(t) /\ InterruptedEffect(t)  BY <1>39 DEF InterruptedEffect, Resume, Addresses
  <1> HIDE DEF LocalOK, Awaiting, Pending, Types, FutexWords, Word, Zero, KeepsMark, Shares,
               WritersWord, Addresses, Others, Readers, Mind, Clear, Idles, Returns, Parks
  <1>40. QED
    BY <1>1, <1>2, <1>3, <1>4, <1>5, <1>6, <1>7, <1>8, <1>9, <1>10, <1>11, <1>12, <1>13, <1>14,
       <1>15, <1>16, <1>17, <1>18, <1>19, <1>20, <1>21, <1>22, <1>23, <1>24, <1>25, <1>26, <1>27,
       <1>28, <1>29, <1>30, <1>31, <1>32, <1>33, <1>34, <1>35, <1>36, <1>37, <1>38, <1>39 DEF Effects

(* A step moves the count of readers by one at most.                       *)
LEMMA CountStep ==
  ASSUME Types, Types', NEW t \in Threads, Moves(t),
         Core(t), pc[t] = "rdUndo" => readers.n > 0
  PROVE  readers'.n = readers.n \/ readers'.n = readers.n + 1 \/ readers.n = readers'.n + 1
  <1> USE DEF Types, ReaderWords, Core, PhaseOK, Others, Readers, Mind, Clear, Idles, Returns, Parks
  <1>1. CASE Others(t) /\ ReadLockEffect(t)  BY <1>1 DEF ReadLockEffect
  <1>2. CASE Others(t) /\ ReadPreferEffect(t)  BY <1>2 DEF ReadPreferEffect
  <1>3. CASE Others(t) /\ ReadWaitEffect(t)  BY <1>3 DEF ReadWaitEffect
  <1>4. CASE Others(t) /\ ReadParkEffect(t)  BY <1>4 DEF ReadParkEffect
  <1>5. CASE Others(t) /\ ReadAddEffect(t)  BY <1>5 DEF ReadAddEffect
  <1>6. CASE Others(t) /\ ReadUndoEffect(t)  BY <1>6 DEF ReadUndoEffect
  <1>7. CASE Others(t) /\ ReadStartEffect(t)  BY <1>7 DEF ReadStartEffect
  <1>8. CASE Others(t) /\ ReadOpenEffect(t)  BY <1>8 DEF ReadOpenEffect
  <1>9. CASE Others(t) /\ AwaitEffect(t)  BY <1>9 DEF AwaitEffect
  <1>10. CASE Others(t) /\ AwaitParkEffect(t)  BY <1>10 DEF AwaitParkEffect
  <1>11. CASE Others(t) /\ CheckEffect(t)  BY <1>11 DEF CheckEffect
  <1>12. CASE Others(t) /\ TryReadLockEffect(t)  BY <1>12 DEF TryReadLockEffect
  <1>13. CASE Others(t) /\ WriteLockEffect(t)  BY <1>13 DEF WriteLockEffect
  <1>14. CASE Others(t) /\ WriteSetEffect(t)  BY <1>14 DEF WriteSetEffect
  <1>15. CASE Others(t) /\ WriteRegisterEffect(t)  BY <1>15 DEF WriteRegisterEffect
  <1>16. CASE Others(t) /\ WriteTakeFreeEffect(t)  BY <1>16 DEF WriteTakeFreeEffect
  <1>17. CASE Others(t) /\ WriteUnregisterEffect(t)  BY <1>17 DEF WriteUnregisterEffect
  <1>18. CASE Others(t) /\ WriteTakeTokenEffect(t)  BY <1>18 DEF WriteTakeTokenEffect
  <1>19. CASE Others(t) /\ WriteGotEffect(t)  BY <1>19 DEF WriteGotEffect
  <1>20. CASE Others(t) /\ WriteFutexEffect(t)  BY <1>20 DEF WriteFutexEffect
  <1>21. CASE Others(t) /\ WriteMarkEffect(t)  BY <1>21 DEF WriteMarkEffect
  <1>22. CASE Others(t) /\ WriteParkEffect(t)  BY <1>22 DEF WriteParkEffect
  <1>23. CASE Others(t) /\ WriteReloadEffect(t)  BY <1>23 DEF WriteReloadEffect
  <1>24. CASE Others(t) /\ WriteOpenEffect(t)  BY <1>24 DEF WriteOpenEffect
  <1>25. CASE Others(t) /\ WritePhaseEffect(t)  BY <1>25 DEF WritePhaseEffect
  <1>26. CASE Others(t) /\ WriteStoreEffect(t)  BY <1>26 DEF WriteStoreEffect
  <1>27. CASE Others(t) /\ WriteOwnEffect(t)  BY <1>27 DEF WriteOwnEffect
  <1>28. CASE Others(t) /\ TryWriteLockEffect(t)  BY <1>28 DEF TryWriteLockEffect
  <1>29. CASE Others(t) /\ TryWriteOpenEffect(t)  BY <1>29 DEF TryWriteOpenEffect
  <1>30. CASE Others(t) /\ TryWriteStoreEffect(t)  BY <1>30 DEF TryWriteStoreEffect
  <1>31. CASE Others(t) /\ UnlockReadEffect(t)  BY <1>31 DEF UnlockReadEffect
  <1>32. CASE Others(t) /\ ReadReleaseEffect(t)  BY <1>32 DEF ReadReleaseEffect
  <1>33. CASE Others(t) /\ ReadHandoverEffect(t)  BY <1>33 DEF ReadHandoverEffect
  <1>34. CASE Others(t) /\ UnlockWriteEffect(t)  BY <1>34 DEF UnlockWriteEffect
  <1>35. CASE Others(t) /\ WriteCloseEffect(t)  BY <1>35 DEF WriteCloseEffect
  <1>36. CASE Others(t) /\ WriteHandoverEffect(t)  BY <1>36 DEF WriteHandoverEffect
  <1>37. CASE Others(t) /\ WriteReleaseEffect(t)  BY <1>37 DEF WriteReleaseEffect
  <1>38. CASE Others(t) /\ WriteReadersInEffect(t)  BY <1>38 DEF WriteReadersInEffect
  <1>39. CASE Others(t) /\ InterruptedEffect(t)  BY <1>39 DEF InterruptedEffect, Resume, Addresses
  <1>40. CASE CallsUp(t, Head(my[t].wakes))  BY <1>40 DEF CallsUp, Resume, Addresses
  <1> HIDE DEF Types, ReaderWords, Core, PhaseOK, Others, Readers, Mind, Clear, Idles, Returns,
               Parks
  <1>41. QED
    BY <1>1, <1>2, <1>3, <1>4, <1>5, <1>6, <1>7, <1>8, <1>9, <1>10, <1>11, <1>12, <1>13, <1>14,
       <1>15, <1>16, <1>17, <1>18, <1>19, <1>20, <1>21, <1>22, <1>23, <1>24, <1>25, <1>26, <1>27,
       <1>28, <1>29, <1>30, <1>31, <1>32, <1>33, <1>34, <1>35, <1>36, <1>37, <1>38, <1>39, <1>40 DEF Moves, Effects

(* A step takes or gives up one lock at most.                                *)
LEMMA HoldStep ==
  ASSUME Types, Types', NEW t \in Threads, Moves(t),
         Core(t)
  PROVE  \/ reading'[t] = reading[t]
         \/ (reading'[t] = reading[t] + 1 \/ reading[t] = reading'[t] + 1) /\ (t \in writing' <=> t \in writing)
  <1> USE DEF Types, Core, PhaseOK, Others, Readers, Mind, Clear, Idles, Returns, Parks
  <1>1. CASE Others(t) /\ ReadLockEffect(t)  BY <1>1 DEF ReadLockEffect
  <1>2. CASE Others(t) /\ ReadPreferEffect(t)  BY <1>2 DEF ReadPreferEffect
  <1>3. CASE Others(t) /\ ReadWaitEffect(t)  BY <1>3 DEF ReadWaitEffect
  <1>4. CASE Others(t) /\ ReadParkEffect(t)  BY <1>4 DEF ReadParkEffect
  <1>5. CASE Others(t) /\ ReadAddEffect(t)  BY <1>5 DEF ReadAddEffect
  <1>6. CASE Others(t) /\ ReadUndoEffect(t)  BY <1>6 DEF ReadUndoEffect
  <1>7. CASE Others(t) /\ ReadStartEffect(t)  BY <1>7 DEF ReadStartEffect
  <1>8. CASE Others(t) /\ ReadOpenEffect(t)  BY <1>8 DEF ReadOpenEffect
  <1>9. CASE Others(t) /\ AwaitEffect(t)  BY <1>9 DEF AwaitEffect
  <1>10. CASE Others(t) /\ AwaitParkEffect(t)  BY <1>10 DEF AwaitParkEffect
  <1>11. CASE Others(t) /\ CheckEffect(t)  BY <1>11 DEF CheckEffect
  <1>12. CASE Others(t) /\ TryReadLockEffect(t)  BY <1>12 DEF TryReadLockEffect
  <1>13. CASE Others(t) /\ WriteLockEffect(t)  BY <1>13 DEF WriteLockEffect
  <1>14. CASE Others(t) /\ WriteSetEffect(t)  BY <1>14 DEF WriteSetEffect
  <1>15. CASE Others(t) /\ WriteRegisterEffect(t)  BY <1>15 DEF WriteRegisterEffect
  <1>16. CASE Others(t) /\ WriteTakeFreeEffect(t)  BY <1>16 DEF WriteTakeFreeEffect
  <1>17. CASE Others(t) /\ WriteUnregisterEffect(t)  BY <1>17 DEF WriteUnregisterEffect
  <1>18. CASE Others(t) /\ WriteTakeTokenEffect(t)  BY <1>18 DEF WriteTakeTokenEffect
  <1>19. CASE Others(t) /\ WriteGotEffect(t)  BY <1>19 DEF WriteGotEffect
  <1>20. CASE Others(t) /\ WriteFutexEffect(t)  BY <1>20 DEF WriteFutexEffect
  <1>21. CASE Others(t) /\ WriteMarkEffect(t)  BY <1>21 DEF WriteMarkEffect
  <1>22. CASE Others(t) /\ WriteParkEffect(t)  BY <1>22 DEF WriteParkEffect
  <1>23. CASE Others(t) /\ WriteReloadEffect(t)  BY <1>23 DEF WriteReloadEffect
  <1>24. CASE Others(t) /\ WriteOpenEffect(t)  BY <1>24 DEF WriteOpenEffect
  <1>25. CASE Others(t) /\ WritePhaseEffect(t)  BY <1>25 DEF WritePhaseEffect
  <1>26. CASE Others(t) /\ WriteStoreEffect(t)  BY <1>26 DEF WriteStoreEffect
  <1>27. CASE Others(t) /\ WriteOwnEffect(t)  BY <1>27 DEF WriteOwnEffect
  <1>28. CASE Others(t) /\ TryWriteLockEffect(t)  BY <1>28 DEF TryWriteLockEffect
  <1>29. CASE Others(t) /\ TryWriteOpenEffect(t)  BY <1>29 DEF TryWriteOpenEffect
  <1>30. CASE Others(t) /\ TryWriteStoreEffect(t)  BY <1>30 DEF TryWriteStoreEffect
  <1>31. CASE Others(t) /\ UnlockReadEffect(t)  BY <1>31 DEF UnlockReadEffect
  <1>32. CASE Others(t) /\ ReadReleaseEffect(t)  BY <1>32 DEF ReadReleaseEffect
  <1>33. CASE Others(t) /\ ReadHandoverEffect(t)  BY <1>33 DEF ReadHandoverEffect
  <1>34. CASE Others(t) /\ UnlockWriteEffect(t)  BY <1>34 DEF UnlockWriteEffect
  <1>35. CASE Others(t) /\ WriteCloseEffect(t)  BY <1>35 DEF WriteCloseEffect
  <1>36. CASE Others(t) /\ WriteHandoverEffect(t)  BY <1>36 DEF WriteHandoverEffect
  <1>37. CASE Others(t) /\ WriteReleaseEffect(t)  BY <1>37 DEF WriteReleaseEffect
  <1>38. CASE Others(t) /\ WriteReadersInEffect(t)  BY <1>38 DEF WriteReadersInEffect
  <1>39. CASE Others(t) /\ InterruptedEffect(t)  BY <1>39 DEF InterruptedEffect, Resume, Addresses
  <1>40. CASE CallsUp(t, Head(my[t].wakes))  BY <1>40 DEF CallsUp, Resume, Addresses
  <1> HIDE DEF Types, Core, PhaseOK, Others, Readers, Mind, Clear, Idles, Returns, Parks
  <1>41. QED
    BY <1>1, <1>2, <1>3, <1>4, <1>5, <1>6, <1>7, <1>8, <1>9, <1>10, <1>11, <1>12, <1>13, <1>14,
       <1>15, <1>16, <1>17, <1>18, <1>19, <1>20, <1>21, <1>22, <1>23, <1>24, <1>25, <1>26, <1>27,
       <1>28, <1>29, <1>30, <1>31, <1>32, <1>33, <1>34, <1>35, <1>36, <1>37, <1>38, <1>39, <1>40 DEF Moves, Effects

-----------------------------------------------------------------------------
(* The thread that moves leaves the others alone, but for those it wakes.  *)
LEMMA OtherStays ==
  ASSUME Types, Types', NEW t \in Threads, Moves(t), NEW u \in Threads \ {t}, LocalOK(u)
  PROVE  /\ Counted(u)' = Counted(u) /\ (Registered(u)' <=> Registered(u)) /\ (pc'[u] = "rdUndo" <=> pc[u] = "rdUndo")
         /\ (Waits(u)' <=> Waits(u)) /\ (Closing(u)' <=> Closing(u)) /\ (Opening(u)' <=> Opening(u))
         /\ (Primary(u)' <=> Primary(u)) /\ (KeepsMark(u) => KeepsMark(u)')
         /\ reading'[u] = reading[u] /\ (u \in writing' <=> u \in writing) /\ my'[u] = my[u]
  <1> USE DEF Counted, Registered, Awaiting, AwaitsRead, AwaitsWrite, Waits, Closing, Opening, Primary, KeepsMark,
              LocalOK, PreferWriter, Addresses
  <1>1. CASE Others(t)
    BY <1>1 DEF Others
  <1>2. CASE CallsUp(t, Head(my[t].wakes))
    BY <1>2 DEF CallsUp, Resume
  <1> HIDE DEF Counted, Registered, Awaiting, AwaitsRead, AwaitsWrite, Waits, Closing, Opening, Primary, KeepsMark,
               LocalOK, PreferWriter, Addresses
  <1>3. QED
    BY <1>1, <1>2 DEF Moves

(* Two threads that do not move keep to their stores.                      *)
LEMMA OthersStore ==
  ASSUME Types, Types', NEW t \in Threads, Moves(t), NEW u \in Threads \ {t}, NEW v \in Threads \ {t},
         LocalOK(u), LocalOK(v), OneStores(u, v)
  PROVE  OneStores(u, v)'
  <1> USE DEF OneStores, Awaiting, AwaitsRead, AwaitsWrite, Closing, Opening, Primary, LocalOK, Addresses
  <1>1. CASE Others(t)
    BY <1>1 DEF Others
  <1>2. CASE CallsUp(t, Head(my[t].wakes))
    BY <1>2 DEF CallsUp, Resume
  <1> HIDE DEF OneStores, Awaiting, AwaitsRead, AwaitsWrite, Closing, Opening, Primary, LocalOK, Addresses
  <1>3. QED
    BY <1>1, <1>2 DEF Moves

(* A wake empties the word, or the writer it calls up keeps the mark.      *)
LEMMA WakeMarks ==
  ASSUME Types, Types', NEW t \in Threads, CallsUp(t, Head(my[t].wakes)), \A u \in Threads : Shares(u),
         NEW b \in Addresses, parked'[b] # {}
  PROVE  /\ parked[b] # {}
         /\ Bears(t, b) => Bears(t, b)' \/ (b = "writers" /\ \E u \in Threads : KeepsMark(u)')
         /\ ~KeepsMark(t)
  <1> DEFINE a == Head(my[t].wakes)
  <1>1. CallsUp(t, a)
    OBVIOUS
  <1> HIDE DEF a
  <1>2. parked[b] # {} /\ ~KeepsMark(t)
    <2>1. PICK v \in Threads : v \in parked'[b]
      BY DEF Types
    <2>2. v \in parked[b]
      BY <1>1, <2>1 DEF CallsUp
    <2>3. QED
      BY <1>1, <2>2 DEF CallsUp, KeepsMark
  <1>3. CASE b # a
    BY <1>1, <1>2, <1>3 DEF CallsUp
  <1>4. CASE b = a
    <2>1. a = "writers" /\ \E u \in Threads \ {t} : u \in parked[a] /\ u \notin parked'[a]
      BY <1>1, <1>4 DEF CallsUp
    <2>2. PICK u \in Threads \ {t} : u \in parked[a] /\ u \notin parked'[a]
      BY <2>1
    <2>3. my[u].share /\ my'[u] = my[u] /\ pc'[u] = "wrReload"
      BY <1>1, <2>1, <2>2 DEF CallsUp, Shares, Resume, Addresses
    <2>4. KeepsMark(u)'
      BY <2>3 DEF KeepsMark
    <2>5. QED
      BY <1>2, <1>4, <2>1, <2>4
  <1>5. QED
    BY <1>3, <1>4

(* What the counts say of the thread that moves.                           *)
LEMMA MoverCounted ==
  ASSUME Types, CoreInv, Counts, NEW t \in Threads
  PROVE  /\ Core(t) /\ HandoverBit /\ Owner /\ Counted(t) <= readers.n
         /\ pc[t] = "rdUndo" => readers.n > 0
         /\ pc[t] = "ruDec" => readers.n > 0 /\ reading[t] > 0
         /\ Registered(t) => writers.waiting > 0
         /\ pc[t] = "wrUnregister" => writers.waiting > 0
         /\ pc[t] = "wrLoop" /\ PreferWriter => writers.waiting > 0
         /\ pc[t] = "idle" => my[t].wakes = <<>>
  <1>1. /\ readers.n \in Nat /\ Counted(t) \in Nat /\ Counted(t) <= readers.n
    BY Tally
  <1>2. Core(t) /\ HandoverBit /\ Owner
    BY DEF CoreInv
  <1>3. pc[t] = "ruDec" => reading[t] > 0
    BY <1>2 DEF Core, PhaseOK
  <1>4. pc[t] = "rdUndo" \/ reading[t] > 0 => Counted(t) > 0
    BY DEF Counted, Types
  <1>5. Registered(t) => writers.waiting > 0
    <2>1. SUFFICES ASSUME Registered(t) PROVE writers.waiting > 0
      OBVIOUS
    <2>2. t \in Registrants
      BY <2>1 DEF Registrants
    <2>3. IsFiniteSet(Registrants)
      BY RwlockAssumption, FS_Subset DEF Registrants
    <2>4. Cardinality(Registrants) \in Nat /\ Cardinality(Registrants) # 0
      BY <2>2, <2>3, FS_EmptySet, FS_CardinalityType
    <2>5. QED
      BY <2>4 DEF Counts
  <1>6. pc[t] = "wrUnregister" \/ (pc[t] = "wrLoop" /\ PreferWriter) => Registered(t)
    BY <1>2 DEF Registered, Core, LocalOK
  <1>7. pc[t] = "idle" => my[t].wakes = <<>>
    BY <1>2 DEF Core, LocalOK, Pending, Awaiting
  <1>8. QED
    BY <1>1, <1>2, <1>3, <1>4, <1>5, <1>6, <1>7

(* Every step of a thread has its effect.                                  *)
LEMMA NextMoves ==
  ASSUME Types, CoreInv, Counts, Next
  PROVE  Types' /\ \E t \in Threads : Moves(t)
  <1> SUFFICES ASSUME NEW t \in Threads,
                      \/ ReadLock(t) \/ TryReadLock(t) \/ WriteLock(t) \/ TryWriteLock(t)
                      \/ UnlockRead(t) \/ UnlockWrite(t) \/ Step(t) \/ Interrupted(t)
               PROVE  Types' /\ Moves(t)
    BY DEF Next
  <1>a. /\ pc[t] = "rdUndo" => readers.n > 0
        /\ pc[t] = "ruDec" => readers.n > 0 /\ reading[t] > 0
        /\ pc[t] = "wrUnregister" => writers.waiting > 0
        /\ pc[t] = "wrLoop" /\ PreferWriter => writers.waiting > 0
        /\ pc[t] = "idle" => my[t].wakes = <<>>
    BY MoverCounted
  <1>1. CASE ReadLock(t)  BY <1>1, ReadLockDoes DEF Moves, Effects
  <1>2. CASE ReadPrefer(t)  BY <1>2, ReadPreferDoes DEF Moves, Effects
  <1>3. CASE ReadWait(t)  BY <1>3, ReadWaitDoes DEF Moves, Effects
  <1>4. CASE ReadPark(t)  BY <1>4, ReadParkDoes DEF Moves, Effects
  <1>5. CASE ReadAdd(t)  BY <1>5, ReadAddDoes DEF Moves, Effects
  <1>6. CASE ReadUndo(t)
    <2>1. Types' /\ Others(t) /\ ReadUndoEffect(t)  BY <1>6, <1>a, ReadUndoDoes DEF ReadUndo, At
    <2>2. QED  BY <2>1 DEF Moves, Effects
  <1>7. CASE ReadStart(t)  BY <1>7, ReadStartDoes DEF Moves, Effects
  <1>8. CASE ReadOpen(t)  BY <1>8, ReadOpenDoes DEF Moves, Effects
  <1>9. CASE Await(t)  BY <1>9, AwaitDoes DEF Moves, Effects
  <1>10. CASE AwaitPark(t)  BY <1>10, AwaitParkDoes DEF Moves, Effects
  <1>11. CASE Check(t)  BY <1>11, CheckDoes DEF Moves, Effects
  <1>12. CASE TryReadLock(t)  BY <1>12, TryReadLockDoes DEF Moves, Effects
  <1>13. CASE WriteLock(t)  BY <1>13, WriteLockDoes DEF Moves, Effects
  <1>14. CASE WriteSet(t)  BY <1>14, WriteSetDoes DEF Moves, Effects
  <1>15. CASE WriteRegister(t)  BY <1>15, WriteRegisterDoes DEF Moves, Effects
  <1>16. CASE WriteTakeFree(t)  BY <1>16, WriteTakeFreeDoes DEF Moves, Effects
  <1>17. CASE WriteUnregister(t)
    <2>1. Types' /\ Others(t) /\ WriteUnregisterEffect(t)  BY <1>17, <1>a, WriteUnregisterDoes DEF WriteUnregister, At
    <2>2. QED  BY <2>1 DEF Moves, Effects
  <1>18. CASE WriteTakeToken(t)
    <2>1. Types' /\ Others(t) /\ WriteTakeTokenEffect(t)  BY <1>18, <1>a, WriteTakeTokenDoes DEF WriteTakeToken, At
    <2>2. QED  BY <2>1 DEF Moves, Effects
  <1>19. CASE WriteGot(t)  BY <1>19, WriteGotDoes DEF Moves, Effects
  <1>20. CASE WriteFutex(t)  BY <1>20, WriteFutexDoes DEF Moves, Effects
  <1>21. CASE WriteMark(t)  BY <1>21, WriteMarkDoes DEF Moves, Effects
  <1>22. CASE WritePark(t)  BY <1>22, WriteParkDoes DEF Moves, Effects
  <1>23. CASE WriteReload(t)  BY <1>23, WriteReloadDoes DEF Moves, Effects
  <1>24. CASE WriteOpen(t)  BY <1>24, WriteOpenDoes DEF Moves, Effects
  <1>25. CASE WritePhase(t)  BY <1>25, WritePhaseDoes DEF Moves, Effects
  <1>26. CASE WriteStore(t)  BY <1>26, WriteStoreDoes DEF Moves, Effects
  <1>27. CASE WriteOwn(t)  BY <1>27, WriteOwnDoes DEF Moves, Effects
  <1>28. CASE TryWriteLock(t)
    <2>1. Types' /\ Others(t) /\ TryWriteLockEffect(t)  BY <1>28, <1>a, TryWriteLockDoes DEF TryWriteLock, Call
    <2>2. QED  BY <2>1 DEF Moves, Effects
  <1>29. CASE TryWriteOpen(t)  BY <1>29, TryWriteOpenDoes DEF Moves, Effects
  <1>30. CASE TryWriteStore(t)  BY <1>30, TryWriteStoreDoes DEF Moves, Effects
  <1>31. CASE UnlockRead(t)  BY <1>31, UnlockReadDoes DEF Moves, Effects
  <1>32. CASE ReadRelease(t)
    <2>1. Types' /\ Others(t) /\ ReadReleaseEffect(t)  BY <1>32, <1>a, ReadReleaseDoes DEF ReadRelease, At
    <2>2. QED  BY <2>1 DEF Moves, Effects
  <1>33. CASE ReadHandover(t)  BY <1>33, ReadHandoverDoes DEF Moves, Effects
  <1>34. CASE UnlockWrite(t)  BY <1>34, UnlockWriteDoes DEF Moves, Effects
  <1>35. CASE WriteClose(t)  BY <1>35, WriteCloseDoes DEF Moves, Effects
  <1>36. CASE WriteHandover(t)  BY <1>36, WriteHandoverDoes DEF Moves, Effects
  <1>37. CASE WriteRelease(t)  BY <1>37, WriteReleaseDoes DEF Moves, Effects
  <1>38. CASE WriteReadersIn(t)  BY <1>38, WriteReadersInDoes DEF Moves, Effects
  <1>39. CASE Interrupted(t)  BY <1>39, InterruptedDoes DEF Moves, Effects
  <1>40. CASE Wake(t)
    <2>1. \A u \in Threads : LocalOK(u)  BY DEF CoreInv, Core
    <2>2. QED  BY <1>40, <2>1, WakeDoes DEF Moves
  <1>41. QED
        BY <1>1, <1>2, <1>3, <1>4, <1>5, <1>6, <1>7, <1>8, <1>9, <1>10, <1>11, <1>12, <1>13, <1>14,
       <1>15, <1>16, <1>17, <1>18, <1>19, <1>20, <1>21, <1>22, <1>23, <1>24, <1>25, <1>26, <1>27,
       <1>28, <1>29, <1>30, <1>31, <1>32, <1>33, <1>34, <1>35, <1>36, <1>37, <1>38, <1>39, <1>40 DEF
       Step

-----------------------------------------------------------------------------
(* The counts follow: tickets are taken and given back one at a time, and  *)
(* the set of registered writers and of those undoing changes by one.      *)
LEMMA TicketsStep ==
  ASSUME Types, Types', CoreInv, Counts, NEW t \in Threads, Moves(t)
  PROVE  IsFiniteSet(Tickets') /\ readers'.n = Cardinality(Tickets')
  <1>1. /\ readers'.n + Counted(t) = readers.n + Counted(t)'
        /\ readers'.n = readers.n \/ readers'.n = readers.n + 1 \/ readers.n = readers'.n + 1
    BY MoverCounted, OwnCount, CountStep
  <1>2. \A u \in Threads \ {t} : Counted(u)' = Counted(u)
    BY OtherStays DEF CoreInv, Core
  <1> DEFINE c == Counts1
             d == Counts1'
  <1>3. c \in [Threads -> Nat] /\ TicketsOf(c) = Tickets /\ \A u \in Threads : c[u] = Counted(u)
    BY CountsTyped
  <1>4. \A u \in Threads : d[u] = Counted(u)' /\ Counted(u)' \in Nat
    BY DEF Counts1, Counted, Types
  <1>5. TicketsOf(d) = Tickets'
    BY <1>4 DEF TicketsOf, Tickets
  <1>6. d \in [Threads -> Nat]
    BY <1>4 DEF Counts1
  <1>7. /\ IsFiniteSet(TicketsOf(c)) /\ readers.n = Cardinality(TicketsOf(c)) /\ readers.n \in Nat /\ readers'.n \in Nat
        /\ \A u \in Threads \ {t} : d[u] = c[u]
        /\ c[t] \in Nat /\ d[t] \in Nat /\ readers'.n + c[t] = readers.n + d[t]
    BY <1>1, <1>2, <1>3, <1>4 DEF Counts, Types, ReaderWords
  <1> HIDE DEF c, d
  <1>8. CASE readers'.n = readers.n
    <2>1. d[t] = c[t]
      BY <1>7, <1>8
    <2>2. d = c
      BY <1>3, <1>6, <1>7, <2>1
    <2>3. QED
      BY <1>5, <1>7, <1>8, <2>2
  <1>9. CASE readers'.n = readers.n + 1
    <2>1. d[t] = c[t] + 1
      BY <1>7, <1>9
    <2>2. QED
      BY <1>3, <1>5, <1>6, <1>7, <1>9, <2>1, OneTicketMore
  <1>10. CASE readers.n = readers'.n + 1
    <2>1. c[t] = d[t] + 1
      BY <1>7, <1>10
    <2>2. IsFiniteSet(TicketsOf(d)) /\ Cardinality(TicketsOf(d)) = readers.n - 1
      BY <1>3, <1>6, <1>7, <2>1, OneTicketLess
    <2>3. QED
      BY <1>5, <1>7, <1>10, <2>2
  <1>11. QED
    BY <1>1, <1>8, <1>9, <1>10

(* The registered writers are as many as the word counts.                  *)
LEMMA RegistrantsStep ==
  ASSUME Types, Types', CoreInv, Counts, NEW t \in Threads, Moves(t)
  PROVE  writers'.waiting = Cardinality(Registrants')
  <1>1. writers'.waiting + (IF Registered(t) THEN 1 ELSE 0) = writers.waiting + (IF Registered(t)' THEN 1 ELSE 0)
    BY MoverCounted, OwnRegister
  <1>2. \A u \in Threads \ {t} : Registered(u)' <=> Registered(u)
    BY OtherStays DEF CoreInv, Core
  <1>3. /\ IsFiniteSet(Registrants) /\ writers.waiting = Cardinality(Registrants)
        /\ writers.waiting \in Nat /\ writers'.waiting \in Nat
    BY RwlockAssumption, FS_Subset DEF Registrants, Counts, Types
  <1>4. CASE Registered(t)' <=> Registered(t)
    <2>1. Registrants' = Registrants
      BY <1>2, <1>4 DEF Registrants
    <2>2. writers'.waiting = writers.waiting
      BY <1>1, <1>3, <1>4
    <2>3. QED
      BY <1>3, <2>1, <2>2
  <1>5. CASE Registered(t)' /\ ~Registered(t)
    <2>1. Registrants' = Registrants \cup {t} /\ t \notin Registrants
      BY <1>2, <1>5 DEF Registrants
    <2>2. writers'.waiting = writers.waiting + 1
      BY <1>1, <1>3, <1>5
    <2>3. QED
      BY <1>3, <2>1, <2>2, FS_AddElement
  <1>6. CASE ~Registered(t)' /\ Registered(t)
    <2>1. Registrants' = Registrants \ {t} /\ t \in Registrants
      BY <1>2, <1>6 DEF Registrants
    <2>2. writers'.waiting = writers.waiting - 1
      BY <1>1, <1>3, <1>6
    <2>3. QED
      BY <1>3, <2>1, <2>2, FS_RemoveElement
  <1>7. QED
    BY <1>4, <1>5, <1>6

(* The count stays within the limit and the undos on their way.            *)
LEMMA LimitStep ==
  ASSUME Types, Types', CoreInv, Counts, NEW t \in Threads, Moves(t)
  PROVE  readers'.n <= MaxReaders + Cardinality(Undoing')
  <1>1. \/ readers'.n <= MaxReaders
        \/ readers'.n <= readers.n /\ (pc[t] = "rdUndo" => readers'.n < readers.n)
        \/ readers'.n = readers.n + 1 /\ pc[t] # "rdUndo" /\ pc'[t] = "rdUndo"
    BY MoverCounted, OwnLimit
  <1>2. \A u \in Threads \ {t} : pc'[u] = "rdUndo" <=> pc[u] = "rdUndo"
    BY OtherStays DEF CoreInv, Core
  <1>3. IsFiniteSet(Undoing) /\ IsFiniteSet(Undoing') /\ IsFiniteSet(Undoing \ {t})
    <2>1. Undoing \subseteq Threads /\ Undoing' \subseteq Threads /\ Undoing \ {t} \subseteq Threads
      BY DEF Undoing
    <2>2. QED
      BY <2>1, RwlockAssumption, FS_Subset
  <1>4. /\ Cardinality(Undoing) \in Nat /\ Cardinality(Undoing') \in Nat /\ MaxReaders \in Nat
        /\ readers.n \in Nat /\ readers'.n \in Nat /\ readers.n <= MaxReaders + Cardinality(Undoing)
    BY <1>3, FS_CardinalityType, RwlockAssumption DEF Counts, Types, ReaderWords
  <1>5. CASE readers'.n <= MaxReaders
    BY <1>4, <1>5
  <1>6. CASE readers'.n <= readers.n /\ pc[t] # "rdUndo"
    <2>1. Undoing \subseteq Undoing'
      BY <1>2, <1>6 DEF Undoing
    <2>2. Cardinality(Undoing) <= Cardinality(Undoing')
      BY <1>3, <2>1, FS_Subset
    <2>3. QED
      BY <1>4, <1>6, <2>2
  <1>7. CASE readers'.n < readers.n /\ pc[t] = "rdUndo"
    <2>1. t \in Undoing /\ Undoing \ {t} \subseteq Undoing'
      BY <1>2, <1>7 DEF Undoing
    <2>2. Cardinality(Undoing \ {t}) = Cardinality(Undoing) - 1
      BY <1>3, <2>1, FS_RemoveElement
    <2>3. Cardinality(Undoing \ {t}) <= Cardinality(Undoing')
      BY <1>3, <2>1, FS_Subset
    <2>4. QED
      BY <1>4, <1>7, <2>2, <2>3
  <1>8. CASE readers'.n = readers.n + 1 /\ pc[t] # "rdUndo" /\ pc'[t] = "rdUndo"
    <2>1. t \notin Undoing /\ Undoing' = Undoing \cup {t}
      BY <1>2, <1>8 DEF Undoing
    <2>2. Cardinality(Undoing') = Cardinality(Undoing) + 1
      BY <1>3, <2>1, FS_AddElement
    <2>3. QED
      BY <1>4, <1>8, <2>2
  <1>9. QED
    BY <1>1, <1>4, <1>5, <1>6, <1>7, <1>8

(* Every step keeps the counts.                                            *)
LEMMA CountsStep ==
  ASSUME Types, Types', CoreInv, Counts, NEW t \in Threads, Moves(t) PROVE Counts'
  BY TicketsStep, RegistrantsStep, LimitStep DEF Counts

-----------------------------------------------------------------------------
(* The parts of the invariant, a step further.                             *)
LEMMA CoreStep ==
  ASSUME Types, Types', CoreInv, Counts, NEW t \in Threads, Moves(t)
  PROVE  CoreInv'
  <1>1. /\ Core(t) /\ HandoverBit /\ Owner /\ Counted(t) <= readers.n
        /\ pc[t] = "rdUndo" => readers.n > 0
    BY MoverCounted
  <1>2. Core(t)' /\ HandoverBit' /\ Owner'
    BY <1>1, OwnCore
  <1>3. ASSUME NEW u \in Threads \ {t}
        PROVE  Core(u)' /\ ~(Primary(t)' /\ Primary(u)')
    <2>1. /\ Core(u) /\ ~(Primary(t) /\ Primary(u))
      BY DEF CoreInv
    <2>2. Counted(u) <= readers.n /\ Counted(t) + Counted(u) <= readers.n
      BY Tally
    <2>3. LocalOK(u)'
      BY <1>1, <2>1, OtherPlace
    <2>4. PrimaryOK(u)' /\ OwnerOK(u)' /\ ~(Primary(t)' /\ Primary(u)')
      BY <1>1, <2>1, <2>2, OtherCore
    <2>5. PhaseOK(u)'
      BY <1>1, <2>1, <2>2, OtherPhase
    <2>6. QED
      BY <2>3, <2>4, <2>5 DEF Core
  <1>4. ASSUME NEW u \in Threads \ {t}, NEW v \in Threads \ {t}, u # v
        PROVE  ~(Primary(u)' /\ Primary(v)')
    <2>1. ~(Primary(u) /\ Primary(v)) /\ LocalOK(u) /\ LocalOK(v)
      BY <1>4 DEF CoreInv, Core
    <2>2. (Primary(u)' <=> Primary(u)) /\ (Primary(v)' <=> Primary(v))
      BY <2>1, OtherStays
    <2>3. QED
      BY <2>1, <2>2
  <1>5. \A v \in Threads : Core(v)'
    BY <1>2, <1>3
  <1>6. \A v \in Threads : \A u \in Threads \ {v} : ~(Primary(v)' /\ Primary(u)')
    BY <1>3, <1>4
  <1>7. QED
    BY <1>2, <1>5, <1>6 DEF CoreInv

(* Every step keeps every thread's turn.                                   *)
LEMMA TurnStep ==
  ASSUME Types, Types', CoreInv, Counts, TurnInv, NEW t \in Threads, Moves(t)
  PROVE  TurnInv'
  <1> SUFFICES ASSUME "undone" \notin lapses' PROVE StandBack' /\ \A u \in Threads : Owed(u)' /\ StoodBack(u)'
    BY DEF TurnInv
  <1>1. Core(t) /\ HandoverBit /\ Owner /\ Counted(t) <= readers.n
    BY MoverCounted
  <1>2. "undone" \notin lapses
    BY <1>1, LapsesStay
  <1>3. StandBack /\ \A u \in Threads : Owed(u) /\ StoodBack(u)
    BY <1>2 DEF TurnInv
  <1>4. Owed(t)' /\ StandBack' /\ StoodBack(t)'
    BY <1>1, <1>3, OwnOwed, OwnTurn
  <1>5. ASSUME NEW u \in Threads \ {t} PROVE Owed(u)' /\ StoodBack(u)'
    <2>1. /\ Core(u) /\ ~(Primary(t) /\ Primary(u))
          /\ Counted(u) <= readers.n /\ Counted(t) + Counted(u) <= readers.n
      BY Tally DEF CoreInv
    <2>2. QED
      BY <1>1, <1>3, <2>1, OtherTurn
  <1>6. QED
    BY <1>4, <1>5

(* Every step keeps the word of the writers.                               *)
LEMMA WritersWordStep ==
  ASSUME Types, Types', CoreInv, Counts, WritersWordInv, NEW t \in Threads, Moves(t)
  PROVE  WritersWordInv'
  <1>1. Core(t) /\ HandoverBit /\ Owner /\ Counted(t) <= readers.n
    BY MoverCounted
  <1>2. WritersWord /\ \A u \in Threads : Shares(u)
    BY DEF WritersWordInv
  <1>3. WritersWord' /\ Shares(t)'
    BY <1>1, <1>2, OwnShare
  <1>4. ASSUME NEW u \in Threads \ {t} PROVE Shares(u)'
    <2>1. Core(u) /\ ~(Primary(t) /\ Primary(u))
      BY DEF CoreInv
    <2>2. QED
      BY <1>1, <1>2, <2>1, OtherShare
  <1>5. QED
    BY <1>3, <1>4 DEF WritersWordInv

(* No reader left: no phase word is on its way to be opened.               *)
LEMMA NoneOpens ==
  ASSUME Types, CoreInv, Counts, PhaseWordInv, NEW t \in Threads,
         ~readers.phase, readers.n = 0 \/ (readers.n = 1 /\ pc[t] = "ruDec")
  PROVE  ~phaseWord.phase /\ \A v \in Threads : ~Opening(v)
  <1>1. ASSUME NEW v \in Threads, Counted(v) > 0, v # t PROVE FALSE
    <2>1. Counted(v) <= readers.n /\ Counted(t) + Counted(v) <= readers.n /\ Counted(t) \in Nat /\ Counted(v) \in Nat
      BY <1>1, Tally
    <2>2. pc[t] = "ruDec" => Counted(t) > 0
      <3>1. pc[t] = "ruDec" => reading[t] > 0
        BY DEF CoreInv, Core, PhaseOK
      <3>2. QED
        BY <3>1 DEF Counted, Types
    <2>3. QED
      BY <1>1, <2>1, <2>2 DEF Types, ReaderWords
  <1>2. ASSUME NEW v \in Threads, Waits(v) PROVE Counted(v) > 0 /\ pc[v] # "ruDec"
    BY <1>2 DEF Waits, AwaitsRead, Counted, Awaiting, Types, CoreInv, Core, LocalOK, Addresses
  <1>3. ASSUME NEW v \in Threads, pc[v] = "rdOpen" PROVE Counted(v) > 0
    BY <1>3 DEF CoreInv, Core, PhaseOK, Counted, Types
  <1>4. readers.n = 0 => \A v \in Threads : ~(Counted(v) > 0)
    BY Tally
  <1>5. \A v \in Threads : ~(Waits(v) \/ pc[v] = "rdOpen")
    BY <1>1, <1>2, <1>3, <1>4
  <1>6. \A v \in Threads : ~Opening(v)
    BY <1>5 DEF Opening, PhaseWordInv, ReadersIn
  <1>7. QED
    BY <1>6 DEF PhaseWordInv, Open

(* A writer that gives the lock up in its phase finds the phase word set.  *)
LEMMA ReleaseFindsWord ==
  ASSUME Types, CoreInv, PhaseWordInv, NEW t \in Threads, pc[t] = "wuRelease"
  PROVE  phaseWord.phase
  <1>1. Primary(t) /\ readers.phase /\ ~Closing(t) /\ ~AwaitsWrite(t)
    BY DEF Primary, CoreInv, Core, PhaseOK, InWritePhase, Closing, AwaitsWrite, Awaiting, LocalOK, Addresses
  <1>2. ASSUME NEW v \in Threads, Closing(v) PROVE FALSE
    <2>1. v # t /\ OneStores(v, t) /\ ~(Primary(v) /\ Primary(t))
      BY <1>1, <1>2 DEF PhaseWordInv, CoreInv
    <2>2. pc[v] = "ruHand" \/ Primary(v)
      BY <1>2 DEF Closing, Primary
    <2>3. QED
      BY <1>1, <2>1, <2>2 DEF OneStores
  <1>3. QED
    BY <1>1, <1>2 DEF PhaseWordInv, Shut

(* Every step keeps that no phase was found begun.                         *)
LEMMA BegunStep ==
  ASSUME Types, Types', CoreInv, Counts, \A u \in Threads : Unbegun(u), "begun" \notin lapses',
         NEW t \in Threads, Moves(t)
  PROVE  \A u \in Threads : Unbegun(u)'
  <1>1. Core(t) /\ HandoverBit /\ Owner /\ Counted(t) <= readers.n
    BY MoverCounted
  <1>2. Unbegun(t)'
    BY <1>1, OwnBegun
  <1>3. ASSUME NEW u \in Threads \ {t} PROVE Unbegun(u)'
    <2>1. Core(u) /\ ~(Primary(t) /\ Primary(u))
      BY DEF CoreInv
    <2>2. QED
      BY <1>1, <2>1, OtherBegun
  <1>4. QED
    BY <1>2, <1>3

(* Every step keeps the phase word with the phase.                         *)
LEMMA PhaseWordStep ==
  ASSUME Types, Types', CoreInv, Counts, \A u \in Threads : Unbegun(u), "begun" \notin lapses', MaxReaders > 1,
         PhaseWordInv, NEW t \in Threads, Moves(t)
  PROVE  PhaseWordInv'
  <1> DEFINE Empty == ~readers.phase /\ (readers.n = 0 \/ (readers.n = 1 /\ pc[t] = "ruDec")) =>
                        ~phaseWord.phase /\ \A v \in Threads : ~Opening(v)
             Apart(u) == /\ Core(u) /\ ~(Primary(t) /\ Primary(u))
                         /\ Counted(u) <= readers.n /\ Counted(t) + Counted(u) <= readers.n
                         /\ Unbegun(u) /\ ShutOrOpen(u) /\ OneStores(t, u) /\ OneStores(u, t)
                         /\ pc[u] = "wuOpen" => phaseWord.phase
  <1>1. /\ Core(t) /\ HandoverBit /\ Owner /\ Counted(t) <= readers.n
        /\ Unbegun(t) /\ ShutOrOpen(t) /\ Empty
        /\ pc[t] = "wuRelease" => phaseWord.phase
    BY MoverCounted, NoneOpens, ReleaseFindsWord DEF PhaseWordInv
  <1>2. \A u \in Threads \ {t} : Apart(u)
    BY Tally DEF CoreInv, PhaseWordInv, ReadersIn
  <1>3. \A u \in Threads \ {t} : /\ Waits(u)' <=> Waits(u)
                                 /\ Closing(u)' <=> Closing(u)
                                 /\ Opening(u)' <=> Opening(u)
    BY OtherStays DEF CoreInv, Core
  <1>4. ShutOrOpen(t)'
    BY <1>1, OwnShut
  <1>5. ASSUME NEW u \in Threads \ {t} PROVE ShutOrOpen(u)'
    BY <1>1, <1>2, OtherShut
  <1>6. ASSUME NEW u \in Threads \ {t} PROVE OneStores(t, u)' /\ OneStores(u, t)'
    <2>1. ~(Closing(t)' /\ Closing(u)')
      BY <1>1, <1>2, OneCloses
    <2>2. ~(pc'[t] = "wuOpen" /\ Opening(u)') /\ ~(pc'[u] = "wuOpen" /\ Opening(t)')
      BY <1>1, <1>2, OneOpens
    <2>3. /\ (pc[t] = "ruHand" /\ Primary(u) =>
               AwaitsWrite(u) \/ (pc[u] \in {"wrOpen", "wrUnregister", "wrPhase"} /\ ~my[u].seen.phase))'
          /\ (pc[u] = "ruHand" /\ Primary(t) =>
               AwaitsWrite(t) \/ (pc[t] \in {"wrOpen", "wrUnregister", "wrPhase"} /\ ~my[t].seen.phase))'
      BY <1>1, <1>2, OneHands
    <2>4. /\ (Closing(t) /\ pc[t] # "ruHand" => ~(AwaitsRead(u) /\ u \in parked["phase"]))'
          /\ (Closing(u) /\ pc[u] # "ruHand" => ~(AwaitsRead(t) /\ t \in parked["phase"]))'
      BY <1>1, <1>2, OneShuts
    <2>5. QED
      BY <2>1, <2>2, <2>3, <2>4 DEF OneStores
  <1>7. ASSUME NEW u \in Threads \ {t}, NEW v \in Threads \ {t}, u # v PROVE OneStores(u, v)'
    BY <1>7, OthersStore DEF PhaseWordInv, CoreInv, Core
  <1>8. ReadersIn(t)'
    <2>1. SUFFICES ASSUME pc'[t] = "wuOpen" PROVE phaseWord'.phase /\ \E u \in Threads : Waits(u)'
      BY DEF ReadersIn
    <2>2. phaseWord'.phase /\ readers.phase /\ readers.n > 0 /\ ~Waits(t)
      BY <1>1, <2>1, OwnIn
    <2>3. PICK u \in Threads : Waits(u)
      BY <2>2 DEF PhaseWordInv, Kept
    <2>4. QED
      BY <1>3, <2>2, <2>3
  <1>9. ASSUME NEW u \in Threads \ {t} PROVE ReadersIn(u)'
    <2>1. SUFFICES ASSUME pc'[u] = "wuOpen" PROVE phaseWord'.phase /\ \E v \in Threads : Waits(v)'
      BY DEF ReadersIn
    <2>2. pc[u] = "wuOpen" /\ (phaseWord.phase => phaseWord'.phase) /\ (Waits(t) => Waits(t)')
      BY <1>1, <1>2, <2>1, OtherIn
    <2>3. phaseWord.phase /\ \E v \in Threads : Waits(v)
      BY <2>2 DEF PhaseWordInv, ReadersIn
    <2>4. PICK v \in Threads : Waits(v)
      BY <2>3
    <2>5. QED
      BY <1>3, <2>2, <2>3, <2>4
  <1>10. Shut'
    <2>1. readers'.phase /\ ~phaseWord'.phase => Closing(t)' \/ (readers.phase /\ ~phaseWord.phase /\ ~Closing(t))
      BY <1>1, ShutStays
    <2>2. readers.phase /\ ~phaseWord.phase => \E v \in Threads : Closing(v)
      BY DEF PhaseWordInv, Shut
    <2>3. QED
      BY <1>3, <2>1, <2>2 DEF Shut
  <1>11. Open'
    <2>1. ~readers'.phase /\ phaseWord'.phase => Opening(t)' \/ (~readers.phase /\ phaseWord.phase /\ ~Opening(t))
      BY <1>1, OpenStays
    <2>2. ~readers.phase /\ phaseWord.phase => \E v \in Threads : Opening(v)
      BY DEF PhaseWordInv, Open
    <2>3. QED
      BY <1>3, <2>1, <2>2 DEF Open
  <1>12. Kept'
    <2>1. readers'.phase /\ readers'.n > 0 => Waits(t)' \/ (readers.phase /\ readers.n > 0 /\ ~Waits(t))
      BY <1>1, KeptStays
    <2>2. readers.phase /\ readers.n > 0 => \E v \in Threads : Waits(v)
      BY DEF PhaseWordInv, Kept
    <2>3. QED
      BY <1>3, <2>1, <2>2 DEF Kept
  <1> HIDE DEF Empty, Apart
  <1>13. \A u \in Threads : ShutOrOpen(u)' /\ ReadersIn(u)'
    BY <1>4, <1>5, <1>8, <1>9
  <1>14. \A u \in Threads : \A v \in Threads \ {u} : OneStores(u, v)'
    BY <1>6, <1>7
  <1>15. QED
    BY <1>10, <1>11, <1>12, <1>13, <1>14 DEF PhaseWordInv

(* Every step keeps what is said of the phase.                             *)
LEMMA PhaseStep ==
  ASSUME Types, Types', CoreInv, Counts, PhaseInv, NEW t \in Threads, Moves(t)
  PROVE  PhaseInv'
  <1> SUFFICES ASSUME "begun" \notin lapses'
               PROVE  (\A u \in Threads : Unbegun(u)') /\ (MaxReaders = 1 \/ PhaseWordInv')
    BY DEF PhaseInv
  <1>1. Core(t)
    BY MoverCounted
  <1>2. "begun" \notin lapses
    BY <1>1, LapsesStay
  <1>3. (\A u \in Threads : Unbegun(u)) /\ (MaxReaders = 1 \/ PhaseWordInv)
    BY <1>2 DEF PhaseInv
  <1>4. \A u \in Threads : Unbegun(u)'
    BY <1>3, BegunStep
  <1>5. CASE MaxReaders = 1
    BY <1>4, <1>5
  <1>6. CASE MaxReaders > 1 /\ PhaseWordInv
    BY <1>3, <1>4, <1>6, PhaseWordStep
  <1>7. QED
    BY <1>3, <1>5, <1>6, RwlockAssumption

(* Who was remembered, is; who parks, is.                                  *)
LEMMA MarksStep ==
  ASSUME Types, Types', CoreInv, WritersWordInv, PhaseInv, ParkedAreRemembered, NEW t \in Threads, Moves(t)
  PROVE  ParkedAreRemembered'
  <1>1. \A u \in Threads : LocalOK(u) /\ Shares(u) /\ Core(u)
    BY DEF CoreInv, Core, WritersWordInv
  <1>2. WritersWord
    BY DEF WritersWordInv
  <1>3. \A a \in Addresses : Waking(a) <=> \E u \in Threads : Bears(u, a)
    BY DEF Waking, Bears
  <1>4. \A a \in Addresses : Waking(a)' <=> \E u \in Threads : Bears(u, a)'
    BY DEF Waking, Bears
  <1>5. \A u \in Threads \ {t} : (KeepsMark(u) => KeepsMark(u)') /\ my'[u] = my[u]
    BY <1>1, OtherStays
  <1>6. \A u \in Threads \ {t} : \A a \in Addresses : Bears(u, a)' <=> Bears(u, a)
    BY <1>5 DEF Bears
  <1>7. Addresses = {"phase", "writers", "readers"}
    BY DEF Addresses
  <1>8. "begun" \in lapses => "begun" \in lapses'
    BY <1>1, LapsesStay
  <1>9. /\ "begun" \in lapses \/ parked["phase"] = {} \/ phaseWord.used \/ \E u \in Threads : Bears(u, "phase")
        /\ \/ parked["writers"] = {} \/ writersWord.used
           \/ (\E u \in Threads : Bears(u, "writers")) \/ \E u \in Threads : KeepsMark(u)
        /\ parked["readers"] = {} \/ readers.waiting \/ \E u \in Threads : Bears(u, "readers")
    BY <1>3, <1>7 DEF ParkedAreRemembered, PhaseMarked
  <1>10. SUFFICES
           /\ "begun" \in lapses' \/ parked'["phase"] = {} \/ phaseWord'.used \/ \E u \in Threads : Bears(u, "phase")'
           /\ \/ parked'["writers"] = {} \/ writersWord'.used
              \/ (\E u \in Threads : Bears(u, "writers")') \/ \E u \in Threads : KeepsMark(u)'
           /\ parked'["readers"] = {} \/ readers'.waiting \/ \E u \in Threads : Bears(u, "readers")'
    BY <1>4, <1>7 DEF ParkedAreRemembered, PhaseMarked
  <1>11. CASE Others(t) /\ Effects(t)
    <2>1. \A a \in Addresses : Bears(t, a) => Bears(t, a)'
      BY <1>1, <1>11, BurdenStays
    <2>2. "begun" \notin lapses' /\ pc[t] \in {"wrStore", "twStore"} => parked["phase"] = {}
      <3>1. SUFFICES ASSUME "begun" \notin lapses', pc[t] \in {"wrStore", "twStore"}, NEW u \in Threads, u \in parked["phase"]
                     PROVE  FALSE
        BY DEF Types, Addresses
      <3>2. Primary(t) /\ Closing(t) /\ ~(t \in parked["phase"])
        BY <1>1, <3>1 DEF Primary, Closing, LocalOK, Addresses
      <3>3. u # t /\ ~(Primary(t) /\ Primary(u))
        BY <3>1, <3>2 DEF CoreInv
      <3>4. ~AwaitsWrite(u)
        BY <3>2, <3>3 DEF Primary
      <3>5. AwaitsRead(u)
        BY <3>1, <3>4 DEF AwaitsRead, AwaitsWrite, Awaiting
      <3>6. Unbegun(u) /\ (MaxReaders = 1 \/ OneStores(t, u))
        BY <1>8, <3>1, <3>3 DEF PhaseInv, PhaseWordInv
      <3>7. MaxReaders # 1
        BY <3>5, <3>6 DEF Unbegun, Waits
      <3>8. QED
        BY <3>1, <3>2, <3>5, <3>6, <3>7 DEF OneStores
    <2>3. "begun" \notin lapses' /\ parked'["phase"] # {} =>
            Bears(t, "phase")' \/ phaseWord'.used \/ (parked["phase"] # {} /\ ~Bears(t, "phase") /\ ~phaseWord.used)
      BY <1>1, <1>11, <2>1, <2>2, PhaseMark
    <2>4. parked'["writers"] # {} =>
            \/ Bears(t, "writers")' \/ writersWord'.used \/ KeepsMark(t)'
            \/ parked["writers"] # {} /\ ~Bears(t, "writers") /\ ~writersWord.used /\ ~KeepsMark(t)
      BY <1>1, <1>2, <1>11, <2>1, WritersMark
    <2>5. parked'["readers"] # {} =>
            Bears(t, "readers")' \/ readers'.waiting \/ (parked["readers"] # {} /\ ~Bears(t, "readers") /\ ~readers.waiting)
      BY <1>1, <1>11, <2>1, ReadersBit
    <2>6. QED
      BY <1>5, <1>6, <1>7, <1>8, <1>9, <2>3, <2>4, <2>5
  <1>12. CASE CallsUp(t, Head(my[t].wakes))
    <2>1. ASSUME NEW b \in Addresses, parked'[b] # {}
          PROVE  /\ parked[b] # {}
                 /\ Bears(t, b) => Bears(t, b)' \/ (b = "writers" /\ \E u \in Threads : KeepsMark(u)')
                 /\ ~KeepsMark(t)
      BY <1>1, <1>12, <2>1, WakeMarks
    <2>2. lapses' = lapses /\ phaseWord' = phaseWord /\ writersWord' = writersWord /\ readers' = readers
      BY <1>12 DEF CallsUp
    <2>3. QED
      BY <1>5, <1>6, <1>7, <1>9, <2>1, <2>2
  <1>13. QED
    BY <1>11, <1>12 DEF Moves

(* The initial states.                                                     *)
LEMMA InitInv == Init => IInv
  <1> SUFFICES ASSUME Init PROVE IInv
    OBVIOUS
  <1>1. Types
    <2>1. my \in [Threads -> Locals]
      BY BlankTyped DEF Init
    <2>2. readers \in ReaderWords /\ phaseWord \in FutexWords /\ writersWord \in FutexWords
      BY BlankTyped DEF Init
    <2>3. QED
      BY <2>1, <2>2 DEF Init, Types, Addresses, Locations
  <1>2. /\ \A t \in Threads : /\ pc[t] = "idle" /\ my[t] = Blank /\ reading[t] = 0 /\ t \notin writing
                              /\ \A a \in Addresses : t \notin parked[a]
        /\ \A a \in Addresses : parked[a] = {}
        /\ readers = NoReaders /\ ~writers.handover /\ writers.waiting = 0 /\ phaseWord = Zero /\ writersWord = Zero
        /\ current = NoThread /\ behind = {} /\ lapses = {}
    BY DEF Init
  <1> USE DEF Addresses, Awaiting, AwaitsRead, AwaitsWrite, Waits, Primary, Blank, NoReaders, Zero, Word
  <1>3. CoreInv
    <2>1. \A t \in Threads : Core(t) /\ ~Primary(t)
      BY <1>2 DEF Core, LocalOK, PrimaryOK, OwnerOK, PhaseOK, Pending, InWritePhase
    <2>2. HandoverBit /\ Owner
      BY <1>2, RwlockAssumption DEF HandoverBit, Owner
    <2>3. QED
      BY <2>1, <2>2 DEF CoreInv
  <1>4. Counts
    <2>1. Tickets = {} /\ Undoing = {} /\ Registrants = {}
      <3>1. \A t \in Threads : Counted(t) = 0 /\ pc[t] # "rdUndo" /\ ~Registered(t)
        BY <1>2 DEF Counted, Registered
      <3>2. QED
        BY <3>1 DEF Tickets, Undoing, Registrants
    <2>2. QED
      BY <1>2, <2>1, FS_EmptySet, RwlockAssumption DEF Counts
  <1>5. TurnInv
    BY <1>2 DEF TurnInv, StandBack, Owed, StoodBack, Coming
  <1>6. WritersWordInv
    BY <1>2 DEF WritersWordInv, WritersWord, Shares
  <1>7. PhaseInv
    BY <1>2 DEF PhaseInv, PhaseWordInv, Unbegun, ShutOrOpen, ReadersIn, OneStores, Shut, Open, Kept, Closing, Opening
  <1>8. ParkedAreRemembered
    BY <1>2 DEF ParkedAreRemembered, PhaseMarked
  <1>9. QED
    BY <1>1, <1>3, <1>4, <1>5, <1>6, <1>7, <1>8 DEF IInv

(* Every step keeps the inductive invariant.                               *)
LEMMA NextInv == ASSUME IInv, Next PROVE IInv'
  <1>1. Types /\ CoreInv /\ Counts /\ TurnInv /\ WritersWordInv /\ PhaseInv /\ ParkedAreRemembered
    BY DEF IInv
  <1>2. Types' /\ \E t \in Threads : Moves(t)
    BY <1>1, NextMoves
  <1>3. PICK t \in Threads : Moves(t)
    BY <1>2
  <1>4. CoreInv' /\ Counts'
    BY <1>1, <1>2, <1>3, CoreStep, CountsStep
  <1>5. TurnInv' /\ WritersWordInv'
    BY <1>1, <1>2, <1>3, TurnStep, WritersWordStep
  <1>6. PhaseInv' /\ ParkedAreRemembered'
    BY <1>1, <1>2, <1>3, PhaseStep, MarksStep
  <1>7. QED
    BY <1>2, <1>4, <1>5, <1>6 DEF IInv

-----------------------------------------------------------------------------
(* The inductive invariant holds in every reachable state.                 *)
LEMMA InvHolds == Spec => []IInv
  <1>1. IInv /\ UNCHANGED vars => IInv'
    <2>1. SUFFICES ASSUME IInv, UNCHANGED vars PROVE IInv'
      OBVIOUS
    <2>2. UNCHANGED <<flags, readers, writers, phaseWord, writersWord, current, parked, pc, my, calls, reading, writing, behind, lapses>>
      BY <2>1 DEF vars, words, held, log
    <2>3. \A t \in Threads : Counted(t)' = Counted(t) /\ Registered(t)' = Registered(t)
      BY <2>2 DEF Counted, Registered, Awaiting, PreferWriter
    <2>4. Types' /\ Tickets' = Tickets /\ Undoing' = Undoing /\ Registrants' = Registrants
      BY <2>1, <2>2, <2>3 DEF IInv, Types, Tickets, Undoing, Registrants
    <2>5. CoreInv'
      BY <2>1, <2>2 DEF IInv, CoreInv, Core, LocalOK, PrimaryOK, OwnerOK, PhaseOK, Pending, InWritePhase, HandoverBit, Owner,
                        Primary, AwaitsWrite, Awaiting, PreferWriter
    <2>6. Counts'
      BY <2>1, <2>2, <2>4 DEF IInv, Counts
    <2>7. TurnInv' /\ WritersWordInv'
      BY <2>1, <2>2 DEF IInv, TurnInv, StandBack, Owed, StoodBack, Coming, Waits, AwaitsWrite, AwaitsRead, Awaiting,
                        Nonrecursive, WritersWordInv, WritersWord, Shares
    <2>8. PhaseInv'
      <3>1. \A t \in Threads : /\ Waits(t)' <=> Waits(t)
                               /\ Closing(t)' <=> Closing(t)
                               /\ Opening(t)' <=> Opening(t)
                               /\ Primary(t)' <=> Primary(t)
        BY <2>2 DEF Waits, Closing, Opening, Primary, AwaitsRead, AwaitsWrite, Awaiting
      <3>2. \A t \in Threads : /\ Unbegun(t)' <=> Unbegun(t)
                               /\ ShutOrOpen(t)' <=> ShutOrOpen(t)
                               /\ ReadersIn(t)' <=> ReadersIn(t)
        BY <2>2, <3>1 DEF Unbegun, ShutOrOpen, ReadersIn
      <3>3. \A t, u \in Threads : OneStores(t, u)' <=> OneStores(t, u)
        BY <2>2, <3>1 DEF OneStores, AwaitsRead, AwaitsWrite, Awaiting
      <3>4. (Shut' <=> Shut) /\ (Open' <=> Open) /\ (Kept' <=> Kept)
        BY <2>2, <3>1 DEF Shut, Open, Kept
      <3>5. PhaseInv
        BY <2>1 DEF IInv
      <3>6. QED
        BY <2>2, <3>2, <3>3, <3>4, <3>5 DEF PhaseInv, PhaseWordInv
    <2>9. ParkedAreRemembered'
      BY <2>1, <2>2 DEF IInv, ParkedAreRemembered, PhaseMarked, Waking, KeepsMark
    <2>10. QED
      BY <2>4, <2>5, <2>6, <2>7, <2>8, <2>9 DEF IInv
  <1>2. IInv /\ [Next]_vars => IInv'
    BY <1>1, NextInv
  <1>3. QED
    BY <1>2, InitInv, PTL DEF Spec

(* Through overflow undo, hand-over and give-up the words hold what they   *)
(* count, a sleeper is remembered, and the last one out of a phase hands   *)
(* the lock over.                                                          *)
THEOREM Remembered == Spec => []NobodyForgotten
  <1>1. IInv => NobodyForgotten
    <2> SUFFICES ASSUME IInv PROVE NobodyForgotten
      OBVIOUS
    <2>1. Types /\ CoreInv /\ Counts /\ TurnInv /\ ParkedAreRemembered
      BY DEF IInv
    <2>2. /\ IsFiniteSet(Undoing) /\ Cardinality(Undoing) <= Cardinality(Threads)
          /\ IsFiniteSet(Registrants) /\ Cardinality(Registrants) <= Cardinality(Threads)
      <3>1. Undoing \subseteq Threads /\ Registrants \subseteq Threads
        BY DEF Undoing, Registrants
      <3>2. QED
        BY <3>1, RwlockAssumption, FS_Subset
    <2>3. /\ Cardinality(Undoing) \in Nat /\ Cardinality(Registrants) \in Nat /\ Cardinality(Threads) \in Nat
          /\ MaxReaders \in Nat
      BY <2>2, RwlockAssumption, FS_CardinalityType
    <2>4. readers.n \in 0..(MaxReaders + Cardinality(Threads)) /\ writers.waiting \in 0..Cardinality(Threads)
      BY <2>1, <2>2, <2>3 DEF Counts, Types, ReaderWords
    <2>5. readers \in [phase : BOOLEAN, locked : BOOLEAN, waiting : BOOLEAN, n : 0..(MaxReaders + Cardinality(Threads))]
      BY <2>1, <2>4 DEF Types, ReaderWords
    <2>6. writers \in [waiting : 0..Cardinality(Threads), handover : BOOLEAN]
      BY <2>1, <2>4 DEF Types
    <2>7. TypeOK
      BY <2>1, <2>5, <2>6 DEF TypeOK, Types, Counts, FutexWords, CoreInv, Core, LocalOK
    <2>8. HandoverIsOwed
      BY <2>1 DEF HandoverIsOwed, TurnInv, Owed, AwaitsWrite, AwaitsRead
    <2>9. QED
      BY <2>1, <2>7, <2>8 DEF NobodyForgotten
  <1>2. QED
    BY <1>1, InvHolds, PTL

(* A reader that called while a writer waited for the readers gets the     *)
(* lock after that writer.                                                 *)
THEOREM NoneOvertakes == Spec => NoReaderOvertakes
  <1>1. ASSUME IInv, Next, NEW u \in Threads, reading'[u] > reading[u], "undone" \notin lapses
        PROVE  u \notin behind
    <2>1. Types /\ CoreInv /\ Counts /\ TurnInv
      BY <1>1 DEF IInv
    <2>2. Types' /\ \E t \in Threads : Moves(t)
      BY <1>1, <2>1, NextMoves
    <2>3. PICK t \in Threads : Moves(t)
      BY <2>2
    <2>4. Core(t) /\ HandoverBit /\ Owner /\ Counted(t) <= readers.n
      BY <2>1, MoverCounted
    <2>5. u = t
      <3>1. u # t => reading'[u] = reading[u]
        BY <2>1, <2>2, <2>3, OtherStays DEF CoreInv, Core
      <3>2. reading[u] \in Nat
        BY <2>1 DEF Types
      <3>3. QED
        BY <1>1, <3>1, <3>2
    <2>6. StandBack /\ Owed(t) /\ StoodBack(t)
      BY <1>1, <2>1 DEF TurnInv
    <2>7. QED
      BY <1>1, <2>1, <2>2, <2>3, <2>4, <2>5, <2>6, NotOvertaking
  <1>2. IInv /\ [Next]_vars =>
          [\A t \in Threads : reading'[t] > reading[t] => t \notin behind \/ "undone" \in lapses]_vars
    BY <1>1
  <1>3. QED
    BY <1>2, InvHolds, PTL DEF NoReaderOvertakes, Spec

(* Whatever the interleaving, the lock is a read-write lock: no reader     *)
(* beside a writer, no two writers.                                        *)
THEOREM SharesLock == Spec => ImplementsSharedLock
  <1>1. Init => shared!Init
    BY DEF Init, shared!Init
  <1>2. ASSUME IInv, IInv', Next PROVE [shared!Next]_(shared!lockVars)
    <2>1. Types /\ CoreInv /\ Counts /\ Types' /\ CoreInv'
      BY <1>2 DEF IInv
    <2>2. PICK t \in Threads : Moves(t)
      BY <1>2, <2>1, NextMoves
    <2>3. \A u \in Threads \ {t} : reading'[u] = reading[u] /\ (u \in writing' <=> u \in writing)
      BY <2>1, <2>2, OtherStays DEF CoreInv, Core
    <2>4. /\ \A u \in Threads : OwnerOK(u) /\ OwnerOK(u)' /\ PhaseOK(u)'
          /\ \A u \in Threads : \A v \in Threads \ {u} : ~(Primary(u)' /\ Primary(v)')
      BY <2>1 DEF CoreInv, Core
    <2>5. /\ reading \in [Threads -> Nat] /\ reading' \in [Threads -> Nat]
          /\ writing \subseteq Threads /\ writing' \subseteq Threads
      BY <2>1 DEF Types
    <2>6. \/ reading'[t] = reading[t]
          \/ (reading'[t] = reading[t] + 1 \/ reading[t] = reading'[t] + 1) /\ (t \in writing' <=> t \in writing)
      BY <2>1, <2>2, MoverCounted, HoldStep
    <2>7. CASE reading'[t] = reading[t] /\ (t \in writing' <=> t \in writing)
      BY <2>3, <2>5, <2>7 DEF shared!lockVars
    <2>8. CASE reading'[t] = reading[t] + 1 /\ (t \in writing' <=> t \in writing)
      <3>1. writing' = writing /\ reading' = [reading EXCEPT ![t] = reading[t] + 1]
        BY <2>3, <2>5, <2>8
      <3>2. ~readers'.phase
        BY <2>4, <2>5, <2>8 DEF PhaseOK
      <3>3. writing' = {}
        BY <2>4, <2>5, <3>2 DEF OwnerOK
      <3>4. QED
        BY <3>1, <3>3 DEF shared!Next, shared!AcquireRead
    <2>9. CASE reading[t] = reading'[t] + 1 /\ (t \in writing' <=> t \in writing)
      <3>1. writing' = writing /\ reading' = [reading EXCEPT ![t] = reading[t] - 1] /\ reading[t] > 0
        <4>1. reading[t] \in Nat /\ reading'[t] \in Nat
          BY <2>5
        <4>2. reading'[t] = reading[t] - 1 /\ reading[t] > 0
          BY <2>9, <4>1
        <4>3. QED
          BY <2>3, <2>5, <2>9, <4>2
      <3>2. QED
        BY <3>1 DEF shared!Next, shared!ReleaseRead
    <2>10. CASE reading'[t] = reading[t] /\ t \in writing' /\ t \notin writing
      <3>1. reading' = reading
        BY <2>3, <2>5, <2>10
      <3>2. \A u \in Threads : reading'[u] = 0
        BY <2>4, <2>10 DEF OwnerOK, PhaseOK
      <3>3. \A u \in Threads \ {t} : u \notin writing'
        BY <2>4, <2>10 DEF Primary
      <3>4. writing = {} /\ writing' = {t}
        BY <2>3, <2>5, <2>10, <3>3
      <3>5. QED
        BY <3>1, <3>2, <3>4 DEF shared!Next, shared!AcquireWrite
    <2>11. CASE reading'[t] = reading[t] /\ t \notin writing' /\ t \in writing
      <3>1. reading' = reading /\ writing' = writing \ {t}
        BY <2>3, <2>5, <2>11
      <3>2. QED
        BY <2>11, <3>1 DEF shared!Next, shared!ReleaseWrite
    <2>12. QED
      BY <2>6, <2>7, <2>8, <2>9, <2>10, <2>11
  <1>3. UNCHANGED vars => UNCHANGED shared!lockVars
    BY DEF vars, held, shared!lockVars
  <1>4. IInv /\ IInv' /\ [Next]_vars => [shared!Next]_(shared!lockVars)
    BY <1>2, <1>3
  <1>5. QED
    BY <1>1, <1>4, InvHolds, PTL DEF Spec, ImplementsSharedLock, shared!Spec
=============================================================================
