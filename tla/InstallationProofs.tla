-------------------------- MODULE InstallationProofs --------------------------
(***************************************************************************)
(* The installation of the bridge.                                         *)
(*                                                                         *)
(* The lock: mutual exclusion for any number of acquisitions on any hosts, *)
(* with deaths at every step and process numbers used again, provided that *)
(* recoveries do not overlap and that no live owner outlasts the lease.    *)
(* Without either condition TLC refutes it.                                *)
(*                                                                         *)
(* The activation: for any number of modules, releases, contracts, faults  *)
(* and attempts, what the game runs besides the installed modules keeps    *)
(* its reload marker, and a ready bridge is the installed one, provided    *)
(* that nobody but the client installs and that a compilation that was     *)
(* completed has built what is installed.                                  *)
(***************************************************************************)
EXTENDS Installation, Naturals, TLAPS

-----------------------------------------------------------------------------
(* The lock directory.                                                      *)

Alone == Serial = TRUE /\ LongPause = FALSE

\* One process at most is between its mkdir and its rmdir, the directory is
\* there and younger than a lease, ...
OneOwner ==
    \A p, q \in Acquisitions : pc[p] \in Owning /\ pc[q] \in Owning => p = q
OwnerDir == \A p \in Acquisitions : pc[p] \in Owning => dir /\ ~aged

\* ... and the record is its own at each of its steps.
OwnerFile ==
    \A p \in Acquisitions :
        /\ pc[p] \in {"made", "released", "undone"} => file = "absent"
        /\ pc[p] \in {"opened", "undo"} => file = "empty"
        /\ pc[p] = "opened" => p \in handle
        /\ pc[p] \in {"in", "release"} => file = p

\* Whoever removes, or will without another look, has no owner to remove.
OneEvicting ==
    \A p, q \in Acquisitions : pc[p] \in Evicting /\ pc[q] \in Evicting => p = q
NoRobbery ==
    \A p, q \in Acquisitions :
        (pc[p] \in {"evict", "evicted"} \/ (pc[p] = "compare" /\ observed[p] = None))
            => pc[q] \notin Owning

\* What was judged stale belongs to an acquisition that is over.
OldEnded == \A q \in old : pc[q] \in Ended
ObservedEnded ==
    \A p \in Acquisitions :
        pc[p] = "compare" /\ observed[p] # None => pc[observed[p]] \in Ended

\* An open file that is still in the directory is there.
Opened == handle # {} => file # "absent"

TypeInv == TypeOK /\ Opened

IInv ==
    /\ TypeInv
    /\ OneOwner /\ OwnerDir /\ OwnerFile
    /\ OneEvicting /\ NoRobbery
    /\ OldEnded /\ ObservedEnded

-----------------------------------------------------------------------------
LEMMA InitHolds == Init => IInv
BY NoneAssumption DEF Init, IInv, TypeInv, Opened, TypeOK, OneOwner, OwnerDir, OwnerFile, OneEvicting,
   NoRobbery, OldEnded, ObservedEnded, Owning, Evicting, Waiting, Ended

\* The type is kept whatever the switches are.
LEMMA TypeKept == TypeInv /\ [Next]_vars => TypeInv'
<1>. SUFFICES ASSUME TypeInv, [Next]_vars PROVE TypeInv'
  OBVIOUS
<1>. USE NoneAssumption DEF TypeInv, Opened, TypeOK, Owning, Evicting, Waiting, Ended, Go
<1>1. ASSUME NEW p \in Acquisitions, Make(p) PROVE TypeInv'
  BY <1>1 DEF Make
<1>2. ASSUME NEW p \in Acquisitions, Exists(p) PROVE TypeInv'
  BY <1>2 DEF Exists
<1>3. ASSUME NEW p \in Acquisitions, Open(p) PROVE TypeInv'
  BY <1>3 DEF Open
<1>4. ASSUME NEW p \in Acquisitions, Fill(p) PROVE TypeInv'
  BY <1>4 DEF Fill
<1>5. ASSUME NEW p \in Acquisitions, WriteFails(p) PROVE TypeInv'
  BY <1>5 DEF WriteFails
<1>6. ASSUME NEW p \in Acquisitions, Read(p) PROVE TypeInv'
  BY <1>6 DEF Read
<1>7. ASSUME NEW p \in Acquisitions, Judge(p) PROVE TypeInv'
  BY <1>7 DEF Judge
<1>8. ASSUME NEW p \in Acquisitions, Compare(p) PROVE TypeInv'
  BY <1>8 DEF Compare
<1>9. ASSUME NEW p \in Acquisitions, Evict(p) PROVE TypeInv'
  BY <1>9 DEF Evict, Unlinks
<1>10. ASSUME NEW p \in Acquisitions, Recover(p) PROVE TypeInv'
  BY <1>10 DEF Recover, Removes, Removable
<1>11. ASSUME NEW p \in Acquisitions, Retry(p) PROVE TypeInv'
  BY <1>11 DEF Retry
<1>12. ASSUME NEW p \in Acquisitions, GiveUp(p) PROVE TypeInv'
  BY <1>12 DEF GiveUp
<1>13. ASSUME NEW p \in Acquisitions, Leave(p) PROVE TypeInv'
  BY <1>13 DEF Leave
<1>14. ASSUME NEW p \in Acquisitions, Unlink(p) PROVE TypeInv'
  BY <1>14 DEF Unlink, Unlinks
<1>15. ASSUME NEW p \in Acquisitions, Remove(p) PROVE TypeInv'
  BY <1>15 DEF Remove, Removes, Removable
<1>16. ASSUME NEW p \in Acquisitions, Crash(p) PROVE TypeInv'
  BY <1>16 DEF Crash
<1>17. ASSUME NEW p \in Acquisitions, Reuse(p) PROVE TypeInv'
  BY <1>17 DEF Reuse
<1>18. CASE Lapse
  BY <1>18 DEF Lapse
<1>19. CASE UNCHANGED vars
  BY <1>19 DEF vars
<1>. QED
  BY <1>1, <1>2, <1>3, <1>4, <1>5, <1>6, <1>7, <1>8, <1>9, <1>10, <1>11, <1>12, <1>13, <1>14, <1>15, <1>16, <1>17, <1>18, <1>19 DEF Next, Step, Takes, Recovers, Leaves

\* A step of a recovery or of an owner that runs alone keeps the invariant.
LEMMA StepKeeps == Alone /\ IInv /\ [Next]_vars => IInv'
<1>. SUFFICES ASSUME Alone, IInv, [Next]_vars PROVE IInv'
  OBVIOUS
<1>0. TypeInv'
  BY TypeKept DEF IInv
<1>. USE <1>0, NoneAssumption DEF TypeInv, TypeOK, Owning, Evicting, Waiting, Ended, Go, Alone, Undisturbed, IInv
<1>1. ASSUME NEW p \in Acquisitions, Make(p) PROVE IInv'
  <2>1. OneOwner'
    BY <1>1 DEF Make, OneOwner, OwnerDir, NoRobbery
  <2>2. OwnerDir'
    BY <1>1 DEF Make, OwnerDir, OneOwner, NoRobbery
  <2>3. OwnerFile'
    BY <1>1 DEF Make, OwnerFile, OneOwner, OwnerDir, NoRobbery
  <2>4. OneEvicting'
    BY <1>1 DEF Make, OneEvicting
  <2>5. NoRobbery'
    BY <1>1 DEF Make, NoRobbery, OwnerDir, OwnerFile, OneOwner, OneEvicting, ObservedEnded
  <2>6. OldEnded'
    BY <1>1 DEF Make, OldEnded
  <2>7. ObservedEnded'
    BY <1>1 DEF Make, ObservedEnded, OldEnded
  <2>. QED
    BY <2>1, <2>2, <2>3, <2>4, <2>5, <2>6, <2>7
<1>2. ASSUME NEW p \in Acquisitions, Exists(p) PROVE IInv'
  <2>1. OneOwner'
    BY <1>2 DEF Exists, OneOwner, OwnerDir, NoRobbery
  <2>2. OwnerDir'
    BY <1>2 DEF Exists, OwnerDir, OneOwner, NoRobbery
  <2>3. OwnerFile'
    BY <1>2 DEF Exists, OwnerFile, OneOwner, OwnerDir, NoRobbery
  <2>4. OneEvicting'
    BY <1>2 DEF Exists, OneEvicting
  <2>5. NoRobbery'
    BY <1>2 DEF Exists, NoRobbery, OwnerDir, OwnerFile, OneOwner, OneEvicting, ObservedEnded
  <2>6. OldEnded'
    BY <1>2 DEF Exists, OldEnded
  <2>7. ObservedEnded'
    BY <1>2 DEF Exists, ObservedEnded, OldEnded
  <2>. QED
    BY <2>1, <2>2, <2>3, <2>4, <2>5, <2>6, <2>7
<1>3. ASSUME NEW p \in Acquisitions, Open(p) PROVE IInv'
  <2>1. OneOwner'
    BY <1>3 DEF Open, OneOwner, OwnerDir, NoRobbery
  <2>2. OwnerDir'
    BY <1>3 DEF Open, OwnerDir, OneOwner, NoRobbery
  <2>3. OwnerFile'
    BY <1>3 DEF Open, OwnerFile, OneOwner, OwnerDir, NoRobbery
  <2>4. OneEvicting'
    BY <1>3 DEF Open, OneEvicting
  <2>5. NoRobbery'
    BY <1>3 DEF Open, NoRobbery, OwnerDir, OwnerFile, OneOwner, OneEvicting, ObservedEnded
  <2>6. OldEnded'
    BY <1>3 DEF Open, OldEnded
  <2>7. ObservedEnded'
    BY <1>3 DEF Open, ObservedEnded, OldEnded
  <2>. QED
    BY <2>1, <2>2, <2>3, <2>4, <2>5, <2>6, <2>7
<1>4. ASSUME NEW p \in Acquisitions, Fill(p) PROVE IInv'
  <2>1. OneOwner'
    BY <1>4 DEF Fill, OneOwner, OwnerDir, NoRobbery
  <2>2. OwnerDir'
    BY <1>4 DEF Fill, OwnerDir, OneOwner, NoRobbery
  <2>3. OwnerFile'
    BY <1>4 DEF Fill, OwnerFile, OneOwner, OwnerDir, NoRobbery
  <2>4. OneEvicting'
    BY <1>4 DEF Fill, OneEvicting
  <2>5. NoRobbery'
    BY <1>4 DEF Fill, NoRobbery, OwnerDir, OwnerFile, OneOwner, OneEvicting, ObservedEnded
  <2>6. OldEnded'
    BY <1>4 DEF Fill, OldEnded
  <2>7. ObservedEnded'
    BY <1>4 DEF Fill, ObservedEnded, OldEnded
  <2>. QED
    BY <2>1, <2>2, <2>3, <2>4, <2>5, <2>6, <2>7
<1>5. ASSUME NEW p \in Acquisitions, WriteFails(p) PROVE IInv'
  <2>1. OneOwner'
    BY <1>5 DEF WriteFails, OneOwner, OwnerDir, NoRobbery
  <2>2. OwnerDir'
    BY <1>5 DEF WriteFails, OwnerDir, OneOwner, NoRobbery
  <2>3. OwnerFile'
    BY <1>5 DEF WriteFails, OwnerFile, OneOwner, OwnerDir, NoRobbery
  <2>4. OneEvicting'
    BY <1>5 DEF WriteFails, OneEvicting
  <2>5. NoRobbery'
    BY <1>5 DEF WriteFails, NoRobbery, OwnerDir, OwnerFile, OneOwner, OneEvicting, ObservedEnded
  <2>6. OldEnded'
    BY <1>5 DEF WriteFails, OldEnded
  <2>7. ObservedEnded'
    BY <1>5 DEF WriteFails, ObservedEnded, OldEnded
  <2>. QED
    BY <2>1, <2>2, <2>3, <2>4, <2>5, <2>6, <2>7
<1>6. ASSUME NEW p \in Acquisitions, Read(p) PROVE IInv'
  <2>1. OneOwner'
    BY <1>6 DEF Read, OneOwner, OwnerDir, NoRobbery
  <2>2. OwnerDir'
    BY <1>6 DEF Read, OwnerDir, OneOwner, NoRobbery
  <2>3. OwnerFile'
    BY <1>6 DEF Read, OwnerFile, OneOwner, OwnerDir, NoRobbery
  <2>4. OneEvicting'
    BY <1>6 DEF Read, OneEvicting
  <2>5. NoRobbery'
    BY <1>6 DEF Read, NoRobbery, OwnerDir, OwnerFile, OneOwner, OneEvicting, ObservedEnded
  <2>6. OldEnded'
    BY <1>6 DEF Read, OldEnded
  <2>7. ObservedEnded'
    BY <1>6 DEF Read, ObservedEnded, OldEnded
  <2>. QED
    BY <2>1, <2>2, <2>3, <2>4, <2>5, <2>6, <2>7
<1>7. ASSUME NEW p \in Acquisitions, Judge(p) PROVE IInv'
  <2>1. OneOwner'
    BY <1>7 DEF Judge, Stale, Dead, OneOwner, OwnerDir, NoRobbery
  <2>2. OwnerDir'
    BY <1>7 DEF Judge, Stale, Dead, OwnerDir, OneOwner, NoRobbery
  <2>3. OwnerFile'
    BY <1>7 DEF Judge, Stale, Dead, OwnerFile, OneOwner, OwnerDir, NoRobbery
  <2>4. OneEvicting'
    BY <1>7 DEF Judge, Stale, Dead, OneEvicting
  <2>5. NoRobbery'
    BY <1>7 DEF Judge, Stale, Dead, NoRobbery, OwnerDir, OwnerFile, OneOwner, OneEvicting, ObservedEnded
  <2>6. OldEnded'
    BY <1>7 DEF Judge, Stale, Dead, OldEnded
  <2>7. ObservedEnded'
    BY <1>7 DEF Judge, Stale, Dead, ObservedEnded, OldEnded
  <2>. QED
    BY <2>1, <2>2, <2>3, <2>4, <2>5, <2>6, <2>7
<1>8. ASSUME NEW p \in Acquisitions, Compare(p) PROVE IInv'
  <2>1. OneOwner'
    BY <1>8 DEF Compare, OneOwner, OwnerDir, NoRobbery
  <2>2. OwnerDir'
    BY <1>8 DEF Compare, OwnerDir, OneOwner, NoRobbery
  <2>3. OwnerFile'
    BY <1>8 DEF Compare, OwnerFile, OneOwner, OwnerDir, NoRobbery
  <2>4. OneEvicting'
    BY <1>8 DEF Compare, OneEvicting
  <2>5. NoRobbery'
    BY <1>8 DEF Compare, NoRobbery, OwnerDir, OwnerFile, OneOwner, OneEvicting, ObservedEnded
  <2>6. OldEnded'
    BY <1>8 DEF Compare, OldEnded
  <2>7. ObservedEnded'
    BY <1>8 DEF Compare, ObservedEnded, OldEnded
  <2>. QED
    BY <2>1, <2>2, <2>3, <2>4, <2>5, <2>6, <2>7
<1>9. ASSUME NEW p \in Acquisitions, Evict(p) PROVE IInv'
  <2>1. OneOwner'
    BY <1>9 DEF Evict, Unlinks, OneOwner, OwnerDir, NoRobbery
  <2>2. OwnerDir'
    BY <1>9 DEF Evict, Unlinks, OwnerDir, OneOwner, NoRobbery
  <2>3. OwnerFile'
    BY <1>9 DEF Evict, Unlinks, OwnerFile, OneOwner, OwnerDir, NoRobbery
  <2>4. OneEvicting'
    BY <1>9 DEF Evict, Unlinks, OneEvicting
  <2>5. NoRobbery'
    BY <1>9 DEF Evict, Unlinks, NoRobbery, OwnerDir, OwnerFile, OneOwner, OneEvicting, ObservedEnded
  <2>6. OldEnded'
    BY <1>9 DEF Evict, Unlinks, OldEnded
  <2>7. ObservedEnded'
    BY <1>9 DEF Evict, Unlinks, ObservedEnded, OldEnded
  <2>. QED
    BY <2>1, <2>2, <2>3, <2>4, <2>5, <2>6, <2>7
<1>10. ASSUME NEW p \in Acquisitions, Recover(p) PROVE IInv'
  <2>1. OneOwner'
    BY <1>10 DEF Recover, Removes, Removable, OneOwner, OwnerDir, NoRobbery
  <2>2. OwnerDir'
    BY <1>10 DEF Recover, Removes, Removable, OwnerDir, OneOwner, NoRobbery
  <2>3. OwnerFile'
    BY <1>10 DEF Recover, Removes, Removable, OwnerFile, OneOwner, OwnerDir, NoRobbery
  <2>4. OneEvicting'
    BY <1>10 DEF Recover, Removes, Removable, OneEvicting
  <2>5. NoRobbery'
    BY <1>10 DEF Recover, Removes, Removable, NoRobbery, OwnerDir, OwnerFile, OneOwner, OneEvicting, ObservedEnded
  <2>6. OldEnded'
    BY <1>10 DEF Recover, Removes, Removable, OldEnded
  <2>7. ObservedEnded'
    BY <1>10 DEF Recover, Removes, Removable, ObservedEnded, OldEnded
  <2>. QED
    BY <2>1, <2>2, <2>3, <2>4, <2>5, <2>6, <2>7
<1>11. ASSUME NEW p \in Acquisitions, Retry(p) PROVE IInv'
  <2>1. OneOwner'
    BY <1>11 DEF Retry, OneOwner, OwnerDir, NoRobbery
  <2>2. OwnerDir'
    BY <1>11 DEF Retry, OwnerDir, OneOwner, NoRobbery
  <2>3. OwnerFile'
    BY <1>11 DEF Retry, OwnerFile, OneOwner, OwnerDir, NoRobbery
  <2>4. OneEvicting'
    BY <1>11 DEF Retry, OneEvicting
  <2>5. NoRobbery'
    BY <1>11 DEF Retry, NoRobbery, OwnerDir, OwnerFile, OneOwner, OneEvicting, ObservedEnded
  <2>6. OldEnded'
    BY <1>11 DEF Retry, OldEnded
  <2>7. ObservedEnded'
    BY <1>11 DEF Retry, ObservedEnded, OldEnded
  <2>. QED
    BY <2>1, <2>2, <2>3, <2>4, <2>5, <2>6, <2>7
<1>12. ASSUME NEW p \in Acquisitions, GiveUp(p) PROVE IInv'
  <2>1. OneOwner'
    BY <1>12 DEF GiveUp, OneOwner, OwnerDir, NoRobbery
  <2>2. OwnerDir'
    BY <1>12 DEF GiveUp, OwnerDir, OneOwner, NoRobbery
  <2>3. OwnerFile'
    BY <1>12 DEF GiveUp, OwnerFile, OneOwner, OwnerDir, NoRobbery
  <2>4. OneEvicting'
    BY <1>12 DEF GiveUp, OneEvicting
  <2>5. NoRobbery'
    BY <1>12 DEF GiveUp, NoRobbery, OwnerDir, OwnerFile, OneOwner, OneEvicting, ObservedEnded
  <2>6. OldEnded'
    BY <1>12 DEF GiveUp, OldEnded
  <2>7. ObservedEnded'
    BY <1>12 DEF GiveUp, ObservedEnded, OldEnded
  <2>. QED
    BY <2>1, <2>2, <2>3, <2>4, <2>5, <2>6, <2>7
<1>13. ASSUME NEW p \in Acquisitions, Leave(p) PROVE IInv'
  <2>1. OneOwner'
    BY <1>13 DEF Leave, OneOwner, OwnerDir, NoRobbery
  <2>2. OwnerDir'
    BY <1>13 DEF Leave, OwnerDir, OneOwner, NoRobbery
  <2>3. OwnerFile'
    BY <1>13 DEF Leave, OwnerFile, OneOwner, OwnerDir, NoRobbery
  <2>4. OneEvicting'
    BY <1>13 DEF Leave, OneEvicting
  <2>5. NoRobbery'
    BY <1>13 DEF Leave, NoRobbery, OwnerDir, OwnerFile, OneOwner, OneEvicting, ObservedEnded
  <2>6. OldEnded'
    BY <1>13 DEF Leave, OldEnded
  <2>7. ObservedEnded'
    BY <1>13 DEF Leave, ObservedEnded, OldEnded
  <2>. QED
    BY <2>1, <2>2, <2>3, <2>4, <2>5, <2>6, <2>7
<1>14. ASSUME NEW p \in Acquisitions, Unlink(p) PROVE IInv'
  <2>1. OneOwner'
    BY <1>14 DEF Unlink, Unlinks, OneOwner, OwnerDir, NoRobbery
  <2>2. OwnerDir'
    BY <1>14 DEF Unlink, Unlinks, OwnerDir, OneOwner, NoRobbery
  <2>3. OwnerFile'
    BY <1>14 DEF Unlink, Unlinks, OwnerFile, OneOwner, OwnerDir, NoRobbery
  <2>4. OneEvicting'
    BY <1>14 DEF Unlink, Unlinks, OneEvicting
  <2>5. NoRobbery'
    BY <1>14 DEF Unlink, Unlinks, NoRobbery, OwnerDir, OwnerFile, OneOwner, OneEvicting, ObservedEnded
  <2>6. OldEnded'
    BY <1>14 DEF Unlink, Unlinks, OldEnded
  <2>7. ObservedEnded'
    BY <1>14 DEF Unlink, Unlinks, ObservedEnded, OldEnded
  <2>. QED
    BY <2>1, <2>2, <2>3, <2>4, <2>5, <2>6, <2>7
<1>15. ASSUME NEW p \in Acquisitions, Remove(p) PROVE IInv'
  <2>1. OneOwner'
    BY <1>15 DEF Remove, Removes, Removable, OneOwner, OwnerDir, NoRobbery
  <2>2. OwnerDir'
    BY <1>15 DEF Remove, Removes, Removable, OwnerDir, OneOwner, NoRobbery
  <2>3. OwnerFile'
    BY <1>15 DEF Remove, Removes, Removable, OwnerFile, OneOwner, OwnerDir, NoRobbery
  <2>4. OneEvicting'
    BY <1>15 DEF Remove, Removes, Removable, OneEvicting
  <2>5. NoRobbery'
    BY <1>15 DEF Remove, Removes, Removable, NoRobbery, OwnerDir, OwnerFile, OneOwner, OneEvicting, ObservedEnded
  <2>6. OldEnded'
    BY <1>15 DEF Remove, Removes, Removable, OldEnded
  <2>7. ObservedEnded'
    BY <1>15 DEF Remove, Removes, Removable, ObservedEnded, OldEnded
  <2>. QED
    BY <2>1, <2>2, <2>3, <2>4, <2>5, <2>6, <2>7
<1>16. ASSUME NEW p \in Acquisitions, Crash(p) PROVE IInv'
  <2>1. OneOwner'
    BY <1>16 DEF Crash, OneOwner, OwnerDir, NoRobbery
  <2>2. OwnerDir'
    BY <1>16 DEF Crash, OwnerDir, OneOwner, NoRobbery
  <2>3. OwnerFile'
    BY <1>16 DEF Crash, OwnerFile, OneOwner, OwnerDir, NoRobbery
  <2>4. OneEvicting'
    BY <1>16 DEF Crash, OneEvicting
  <2>5. NoRobbery'
    BY <1>16 DEF Crash, NoRobbery, OwnerDir, OwnerFile, OneOwner, OneEvicting, ObservedEnded
  <2>6. OldEnded'
    BY <1>16 DEF Crash, OldEnded
  <2>7. ObservedEnded'
    BY <1>16 DEF Crash, ObservedEnded, OldEnded
  <2>. QED
    BY <2>1, <2>2, <2>3, <2>4, <2>5, <2>6, <2>7
<1>17. ASSUME NEW p \in Acquisitions, Reuse(p) PROVE IInv'
  <2>1. OneOwner'
    BY <1>17 DEF Reuse, OneOwner, OwnerDir, NoRobbery
  <2>2. OwnerDir'
    BY <1>17 DEF Reuse, OwnerDir, OneOwner, NoRobbery
  <2>3. OwnerFile'
    BY <1>17 DEF Reuse, OwnerFile, OneOwner, OwnerDir, NoRobbery
  <2>4. OneEvicting'
    BY <1>17 DEF Reuse, OneEvicting
  <2>5. NoRobbery'
    BY <1>17 DEF Reuse, NoRobbery, OwnerDir, OwnerFile, OneOwner, OneEvicting, ObservedEnded
  <2>6. OldEnded'
    BY <1>17 DEF Reuse, OldEnded
  <2>7. ObservedEnded'
    BY <1>17 DEF Reuse, ObservedEnded, OldEnded
  <2>. QED
    BY <2>1, <2>2, <2>3, <2>4, <2>5, <2>6, <2>7
<1>18. CASE Lapse
  BY <1>18 DEF Lapse, OneOwner, OwnerDir, OwnerFile, OneEvicting, NoRobbery, OldEnded, ObservedEnded
<1>19. CASE UNCHANGED vars
  BY <1>19 DEF vars, OneOwner, OwnerDir, OwnerFile, OneEvicting, NoRobbery, OldEnded, ObservedEnded
<1>. QED
  BY <1>1, <1>2, <1>3, <1>4, <1>5, <1>6, <1>7, <1>8, <1>9, <1>10, <1>11, <1>12, <1>13, <1>14, <1>15, <1>16, <1>17, <1>18, <1>19 DEF Next, Step, Takes, Recovers, Leaves
-----------------------------------------------------------------------------
\* Every record, place and flag keeps its type, whatever the switches are: in
\* particular owner.json is never there without its directory.
THEOREM TypeCorrect == Spec => []TypeOK
<1>1. Init => TypeInv
  BY InitHolds DEF IInv
<1>2. TypeInv => TypeOK
  BY DEF TypeInv
<1>. QED
  BY <1>1, <1>2, TypeKept, PTL DEF Spec

\* No two live processes are in the transaction at once when recoveries run
\* alone and live owners keep within the lease.
THEOREM MutuallyExclusive ==
    ASSUME Alone
    PROVE  Spec => []MutualExclusion
<1>1. IInv => MutualExclusion
  BY DEF IInv, OneOwner, MutualExclusion, Owning
<1>2. IInv /\ [Next]_vars => IInv'
  BY StepKeeps
<1>. QED
  BY <1>1, <1>2, InitHolds, PTL DEF Spec

-----------------------------------------------------------------------------
(* The activation of what is installed.                                      *)

\* Nobody but the client installs, and a completed compilation has built what is
\* installed.
OwnInstaller == Installers = {"client"} /\ BuildFails = FALSE
BridgeAssumption == B!ReleaseAssumption /\ B!InstallerAssumption /\ B!BoundAssumption

\* The client has left its own installation and gone on.
Late == B!Connecting \cup {"retry"}

AttemptsLeft == step["client"] \in Late \ {"launch"} => attempts < MaxAttempts

\* The sources are replaced, or put back, under the marker only; what is not the
\* client's own is due; and past the lock all of it is its own.
ReplacedUnderMarker == step["client"] \in {"write", "rollback"} => marker

DueCovers ==
    step["client"] \in {"mark", "write"} =>
        \A m \in B!Modules : files[m] # release["client"] => m \in due["client"]

InstalledOwn ==
    step["client"] \in Late => \A m \in B!Modules : files[m] = release["client"]

\* compile_completed is not reset by another installation: there is none, since
\* what was compiled was the client's own release already.
CompiledOwn ==
    compiled =>
        /\ step["client"] \notin {"mark", "write", "rollback"}
        /\ \A m \in B!Modules : files[m] = release["client"] /\ built[m] = files[m]

CompiledFirst ==
    step["client"] \in B!Connecting \ {"launch", "attach", "build"} => compiled

\* Without the marker what is built or live is installed, or is not there; and
\* this holds of the game before the marker is removed.
Known(source) == \A m \in B!Modules : source[m] \in {files[m], None}

UnmarkedKnown == ~marker => Known(built) /\ Known(live)
ClearedKnown == step["client"] = "clear" => Known(live)

\* A marker forces the reload, and the client greets the game unforced only.
MarkerForces ==
    /\ step["client"] \in Late /\ marker => force
    /\ step["client"] \in {"diagnose", "hello"} => ~force

\* An activation flag is set by a module that is in memory.
ActiveLive == \A m \in active : live[m] # None

\* Nothing is proved without generations to compare with.
Compared == step["client"] = "prove" => pre # None

\* A generation other than the one read before was made by a load of the
\* installed source; loading the control module takes the flags of the siblings
\* away, so that each flag that is set again is of a sibling loaded since.
Evidence ==
    step["client"] \in {"load", "prove"} /\ attached /\ pre # None =>
        /\ gen # pre.bridge =>
              /\ live[B!Control] = files[B!Control]
              /\ \A m \in active : live[m] = files[m]
        /\ dgen # pre.diagnostic => live[B!Diagnostics] = files[B!Diagnostics]

DiskInv ==
    /\ ReplacedUnderMarker /\ DueCovers /\ InstalledOwn
    /\ CompiledOwn /\ CompiledFirst
SourceInv == UnmarkedKnown /\ ClearedKnown /\ ActiveLive
ReloadInv == MarkerForces /\ Compared /\ Evidence

-----------------------------------------------------------------------------
(* The types of the activation, whoever installs.                           *)

DiskType ==
    /\ files \in B!Sources /\ built \in B!Sources /\ marker \in BOOLEAN
    /\ lock \in Installers \cup {None}
PlaceType ==
    /\ step \in [Installers -> B!Installing \cup B!Connecting
                             \cup {"idle", "wait", "retry", "ready", "incompatible"}]
    /\ \A i \in Installers : step[i] \in B!Installing => lock = i
    /\ ready \in BOOLEAN /\ (ready <=> step["client"] = "ready")
WorkType ==
    /\ release \in [Installers -> Releases]
    /\ due \in [Installers -> SUBSET B!Modules]
    /\ original \in [Installers -> B!Sources]
GameType ==
    /\ running \in BOOLEAN /\ live \in B!Sources /\ active \in SUBSET B!Modules
    /\ gen \in Nat /\ dgen \in Nat
LinkType == attached \in BOOLEAN /\ (attached => running)
ClientType ==
    /\ force \in BOOLEAN /\ compiled \in BOOLEAN
    /\ pre \in [bridge: Nat, diagnostic: Nat] \cup {None}
    /\ next \in 1 .. Siblings + 3 /\ again \in BOOLEAN
    /\ attempts \in 0 .. MaxAttempts /\ AttemptsLeft
CountType == faults \in Nat /\ installs \in Nat

BridgeTypeInv ==
    /\ DiskType /\ PlaceType /\ WorkType /\ GameType
    /\ LinkType /\ ClientType /\ CountType

LEMMA TypeParts == BridgeTypeInv <=> B!TypeOK /\ AttemptsLeft
  BY DEF BridgeTypeInv, B!TypeOK, DiskType, PlaceType, WorkType, GameType, LinkType,
         ClientType, CountType

\* A client that goes elsewhere, not into its installation.
LEMMA Moves ==
    ASSUME PlaceType, B!InstallerAssumption, NEW to, B!Goes("client", to),
           to \in B!Connecting \cup {"idle", "wait", "retry", "incompatible"},
           lock' = lock, ready' = FALSE
    PROVE  PlaceType' /\ step'["client"] = to
  BY DEF PlaceType, B!InstallerAssumption, B!Goes, B!Installing, B!Connecting

\* A started game has what was built.
LEMMA Boots ==
    ASSUME DiskType, B!BoundAssumption, NEW lost, B!BootsWithout(lost)
    PROVE  /\ GameType' /\ running' = TRUE
           /\ \A m \in B!Modules : live'[m] \in {built[m], None}
           /\ \A m \in active' : live'[m] # None
  BY DEF DiskType, GameType, B!BootsWithout, B!Sources, B!Modules, B!Control,
         B!Diagnostics, B!BoundAssumption

\* A loaded module is the installed one.
LEMMA Loading ==
    ASSUME DiskType, GameType, B!BoundAssumption,
           NEW m \in B!Modules, B!Loads(m), B!Loadable(m)
    PROVE  /\ GameType' /\ running' = running
           /\ live'[m] = files[m] /\ files[m] # None
           /\ \A k \in B!Modules \ {m} : live'[k] = live[k]
           /\ m = B!Control => active' = {}
           /\ active' \subseteq active \cup {m}
           /\ m # B!Control => gen' = gen
           /\ m # B!Diagnostics => dgen' = dgen
  BY DEF DiskType, GameType, B!Loads, B!Loadable, B!Sources, B!Modules, B!Control,
         B!Diagnostics, B!BoundAssumption

\* The lock is free: nobody else is inside.
LEMMA AcquireType ==
    ASSUME BridgeAssumption, BridgeTypeInv, NEW i \in Installers, B!Acquire(i)
    PROVE  BridgeTypeInv'
  <1> USE DEF BridgeAssumption, B!InstallerAssumption, BridgeTypeInv
  <1>1. /\ step[i] = "idle" /\ lock = None /\ lock' = i
        /\ step' = [step EXCEPT ![i] = "plan"]
        /\ UNCHANGED <<files, marker, due, original, faults, built, B!gameVars,
                       B!memoryVars, release>>
    BY DEF B!Acquire, B!Rest, B!Goes
  <1>2. installs' = installs \/ installs' = installs + 1
    BY DEF B!Acquire
  <1>3. DiskType' /\ WorkType' /\ GameType' /\ LinkType' /\ CountType'
    BY <1>1, <1>2
    DEF DiskType, WorkType, GameType, LinkType, CountType, B!gameVars, B!memoryVars
  <1>4. PlaceType'
    <2>1. \A j \in Installers : step[j] \notin B!Installing
      BY <1>1 DEF PlaceType
    <2>2. QED
      BY <1>1, <2>1 DEF PlaceType, B!Installing, B!memoryVars
  <1>5. ClientType'
    BY <1>1
    DEF ClientType, AttemptsLeft, PlaceType, Late, B!Connecting, B!memoryVars
  <1>6. QED
    BY <1>3, <1>4, <1>5

\* The lock is left with the files as they are.
LEMMA InstalledType ==
    ASSUME BridgeAssumption, BridgeTypeInv, NEW i \in Installers,
           step[i] \in B!Installing, B!Installed(i), WorkType',
           UNCHANGED <<files, built, marker, B!gameVars, attached, compiled, pre,
                       next, again, attempts, ready, faults, installs>>
    PROVE  BridgeTypeInv'
  <1> USE DEF BridgeAssumption, B!InstallerAssumption, BridgeTypeInv
  <1>1. lock = i /\ \A j \in Installers \ {i} : step[j] \notin B!Installing
    BY DEF PlaceType
  <1>2. DiskType' /\ GameType' /\ LinkType' /\ CountType'
    BY DEF B!Installed, DiskType, GameType, LinkType, CountType, B!gameVars
  <1>3. PlaceType'
    BY <1>1 DEF B!Installed, B!Goes, PlaceType, B!Installing, B!Connecting
  <1>4. force' \in BOOLEAN
    BY DEF B!Installed, DiskType, ClientType
  <1>5. AttemptsLeft'
    BY DEF B!Installed, B!Goes, PlaceType, ClientType, AttemptsLeft, Late,
           B!Connecting, B!Installing
  <1>6. ClientType'
    BY <1>4, <1>5 DEF ClientType
  <1>7. QED
    BY <1>2, <1>3, <1>6

LEMMA PlanType ==
    ASSUME BridgeAssumption, BridgeTypeInv, NEW i \in Installers, B!Plan(i)
    PROVE  BridgeTypeInv'
  <1> USE DEF BridgeAssumption, B!InstallerAssumption, BridgeTypeInv
  <1>1. /\ step[i] = "plan"
        /\ UNCHANGED <<files, built, marker, B!gameVars, release, attached, compiled,
                       pre, next, again, attempts, ready, faults, installs>>
    BY DEF B!Plan
  <1>2. WorkType'
    BY <1>1 DEF B!Plan, WorkType, DiskType
  <1>3. CASE B!Installed(i)
    BY <1>1, <1>2, <1>3, InstalledType DEF B!Installing
  <1>4. CASE B!Goes(i, "mark") /\ UNCHANGED <<lock, force>>
    <2>1. DiskType' /\ GameType' /\ LinkType' /\ CountType'
      BY <1>1, <1>4 DEF DiskType, GameType, LinkType, CountType, B!gameVars
    <2>2. PlaceType'
      BY <1>1, <1>4 DEF B!Goes, PlaceType, B!Installing
    <2>3. ClientType'
      BY <1>1, <1>4
      DEF B!Goes, ClientType, AttemptsLeft, PlaceType, Late, B!Connecting
    <2>4. QED
      BY <1>2, <2>1, <2>2, <2>3
  <1>5. QED
    BY <1>3, <1>4 DEF B!Plan

\* Steps inside the lock.
LEMMA ReplaceType ==
    ASSUME BridgeAssumption, BridgeTypeInv, NEW i \in Installers,
           B!Mark(i) \/ B!Write(i) \/ B!WriteFails(i) \/ B!Restore(i)
    PROVE  BridgeTypeInv'
  <1> USE DEF BridgeAssumption, B!InstallerAssumption, BridgeTypeInv
  <1>1. /\ step[i] \in B!Installing
        /\ step' = step \/ B!Goes(i, "write") \/ B!Goes(i, "rollback")
        /\ UNCHANGED <<lock, original, installs, built, B!gameVars, B!memoryVars,
                       release>>
    BY DEF B!Mark, B!Write, B!WriteFails, B!Restore, B!Rest, B!Installing
  <1>2. files' \in B!Sources /\ marker' \in BOOLEAN
    <2>1. files \in B!Sources /\ marker \in BOOLEAN /\ original[i] \in B!Sources
          /\ release[i] \in Releases
      BY DEF DiskType, WorkType
    <2>2. \A m, r : r \in Releases \cup {None} => [files EXCEPT ![m] = r] \in B!Sources
      BY <2>1 DEF B!Sources
    <2>3. \A m \in B!Modules : original[i][m] \in Releases \cup {None}
      BY <2>1 DEF B!Sources
    <2>4. CASE B!Mark(i) \/ B!WriteFails(i)
      BY <2>1, <2>4 DEF B!Mark, B!WriteFails
    <2>5. CASE B!Write(i)
      BY <2>1, <2>2, <2>5 DEF B!Write
    <2>6. CASE B!Restore(i)
      <3>1. \/ files' = files
            \/ files' = [files EXCEPT ![B!First(due[i])] = original[i][B!First(due[i])]]
        BY <2>6 DEF B!Restore
      <3>2. marker' = marker
        BY <2>6 DEF B!Restore
      <3>3. CASE B!First(due[i]) \in B!Modules
        <4>1. original[i][B!First(due[i])] \in Releases \cup {None}
          BY <2>3, <3>3
        <4>2. [files EXCEPT ![B!First(due[i])] = original[i][B!First(due[i])]] \in B!Sources
          BY <2>2, <4>1
        <4>3. QED
          BY <2>1, <3>1, <3>2, <4>2
      <3>4. CASE B!First(due[i]) \notin B!Modules
        BY <2>1, <3>1, <3>2, <3>4 DEF B!Sources
      <3>5. QED
        BY <3>3, <3>4
    <2>7. QED
      BY <2>4, <2>5, <2>6
  <1>3. due' \in [Installers -> SUBSET B!Modules]
    BY DEF B!Mark, B!Write, B!WriteFails, B!Restore, WorkType
  <1>4. faults' \in Nat
    BY DEF B!Mark, B!Write, B!WriteFails, B!Restore, B!Fault, CountType
  <1>5. DiskType' /\ WorkType' /\ GameType' /\ LinkType' /\ CountType'
    BY <1>1, <1>2, <1>3, <1>4
    DEF DiskType, WorkType, GameType, LinkType, CountType, B!gameVars, B!memoryVars
  <1>6. PlaceType'
    BY <1>1 DEF B!Goes, PlaceType, B!Installing, B!memoryVars
  <1>7. ClientType'
    BY <1>1
    DEF B!Goes, ClientType, AttemptsLeft, PlaceType, Late, B!Connecting,
        B!memoryVars
  <1>8. QED
    BY <1>5, <1>6, <1>7

LEMMA FinishType ==
    ASSUME BridgeAssumption, BridgeTypeInv, NEW i \in Installers, B!Finish(i)
    PROVE  BridgeTypeInv'
  <1> USE DEF BridgeTypeInv
  <1>1. /\ step[i] \in B!Installing /\ B!Installed(i)
        /\ UNCHANGED <<files, built, marker, B!gameVars, release, due, original,
                       attached, compiled, pre, next, again, attempts, ready,
                       faults, installs>>
    BY DEF B!Finish, B!Installing
  <1>2. WorkType'
    BY <1>1 DEF WorkType
  <1>3. QED
    BY <1>1, <1>2, InstalledType

LEMMA GiveUpType ==
    ASSUME BridgeAssumption, BridgeTypeInv, NEW i \in Installers, B!GiveUp(i)
    PROVE  BridgeTypeInv'
  <1> USE DEF BridgeAssumption, B!InstallerAssumption, BridgeTypeInv
  <1>1. /\ step[i] \in B!Installing /\ lock' = None
        /\ B!Goes(i, "wait") \/ B!Goes(i, "idle")
        /\ UNCHANGED <<files, marker, due, original, faults, installs, built,
                       B!gameVars, B!memoryVars, release>>
    BY DEF B!GiveUp, B!Rest, B!Installing
  <1>2. DiskType' /\ WorkType' /\ GameType' /\ LinkType' /\ CountType'
    BY <1>1
    DEF DiskType, WorkType, GameType, LinkType, CountType, B!gameVars, B!memoryVars
  <1>3. PlaceType'
    <2>1. \A j \in Installers \ {i} : step[j] \notin B!Installing
      BY <1>1 DEF PlaceType
    <2>2. QED
      BY <1>1, <2>1 DEF B!Goes, PlaceType, B!Installing, B!memoryVars
  <1>4. ClientType'
    BY <1>1
    DEF B!Goes, ClientType, AttemptsLeft, PlaceType, Late, B!Connecting,
        B!memoryVars
  <1>5. QED
    BY <1>2, <1>3, <1>4

LEMMA CrashType ==
    ASSUME BridgeAssumption, BridgeTypeInv, NEW i \in Installers, B!Crash(i)
    PROVE  BridgeTypeInv'
  <1> USE DEF BridgeAssumption, B!InstallerAssumption, BridgeTypeInv
  <1>1. /\ step' = [step EXCEPT ![i] = "idle"]
        /\ lock' = IF lock = i THEN None ELSE lock
        /\ due' = [due EXCEPT ![i] = {}]
        /\ \E r \in Releases : release' = [release EXCEPT ![i] = r]
        /\ faults' = faults + 1
        /\ UNCHANGED <<files, marker, built, original, B!gameVars, installs>>
    BY DEF B!Crash, B!Fault, B!Goes
  <1>2. DiskType' /\ WorkType' /\ GameType' /\ CountType'
    BY <1>1 DEF DiskType, WorkType, GameType, CountType, B!gameVars
  <1>3. CASE i = "client"
    <2>1. /\ attached' = FALSE /\ force' = FALSE /\ compiled' = FALSE
          /\ pre' = None /\ next' = B!Control /\ again' = FALSE /\ attempts' = 0
          /\ ready' = FALSE
      BY <1>3 DEF B!Crash
    <2>2. LinkType'
      BY <2>1 DEF LinkType
    <2>3. PlaceType'
      <3>1. \A j \in Installers : step'[j] = IF j = i THEN "idle" ELSE step[j]
        BY <1>1 DEF PlaceType
      <3>2. \A j \in Installers : step'[j] \in B!Installing => lock' = j
        BY <1>1, <3>1 DEF PlaceType, B!Installing
      <3>3. ready' \in BOOLEAN /\ (ready' <=> step'["client"] = "ready")
        <4>1. step'["client"] # "ready"
          BY <1>3, <3>1
        <4>2. QED
          BY <2>1, <4>1
      <3>4. QED
        BY <1>1, <3>2, <3>3 DEF PlaceType
    <2>4. ClientType'
      <3>1. step'["client"] = "idle"
        BY <1>1, <1>3 DEF PlaceType
      <3>2. AttemptsLeft'
        BY <3>1 DEF AttemptsLeft, Late, B!Connecting
      <3>3. next' \in 1 .. Siblings + 3 /\ attempts' \in 0 .. MaxAttempts
        BY <2>1 DEF B!Control, B!BoundAssumption
      <3>4. QED
        BY <2>1, <3>2, <3>3 DEF ClientType
    <2>5. QED
      BY <1>2, <2>2, <2>3, <2>4
  <1>4. CASE i # "client"
    <2>1. UNCHANGED B!memoryVars
      BY <1>4 DEF B!Crash
    <2>2. LinkType'
      BY <1>1, <2>1 DEF LinkType, B!gameVars, B!memoryVars
    <2>3. PlaceType'
      BY <1>1, <1>4, <2>1 DEF PlaceType, B!Installing, B!memoryVars
    <2>4. ClientType'
      BY <1>1, <1>4, <2>1 DEF ClientType, AttemptsLeft, PlaceType, B!memoryVars
    <2>5. QED
      BY <1>2, <2>2, <2>3, <2>4
  <1>5. QED
    BY <1>3, <1>4

\* Steps of the client that keep the disk and the work, and do not end ready.
LEMMA MovesType ==
    ASSUME BridgeAssumption, BridgeTypeInv, NEW to, B!Goes("client", to),
           to \in B!Connecting \cup {"idle", "wait", "retry", "incompatible"},
           ready' = FALSE,
           UNCHANGED <<files, marker, lock, release, due, original, installs>>,
           built' \in B!Sources, faults' \in Nat,
           GameType', LinkType', ClientType'
    PROVE  BridgeTypeInv'
  <1>1. PlaceType'
    BY Moves DEF BridgeAssumption, BridgeTypeInv
  <1>2. DiskType' /\ WorkType' /\ CountType'
    BY DEF BridgeTypeInv, DiskType, WorkType, CountType
  <1>3. QED
    BY <1>1, <1>2 DEF BridgeTypeInv

\* Outside "ready" the client is not ready.
LEMMA NotReady ==
    ASSUME BridgeTypeInv, step["client"] # "ready"
    PROVE  ready = FALSE
  BY DEF BridgeTypeInv, PlaceType

LEMMA EvaluatesFacts ==
    ASSUME BridgeAssumption, BridgeTypeInv, NEW m \in B!Modules, B!Evaluates(m)
    PROVE  /\ GameType' /\ running' = running /\ faults' \in Nat
           /\ UNCHANGED B!gameVars \/ (B!Loads(m) /\ B!Loadable(m))
  <1>1. faults' \in Nat
    BY DEF B!Evaluates, B!Fault, BridgeTypeInv, CountType
  <1>2. UNCHANGED B!gameVars \/ (B!Loads(m) /\ B!Loadable(m))
    BY DEF B!Evaluates
  <1>3. CASE UNCHANGED B!gameVars
    BY <1>1, <1>3 DEF BridgeTypeInv, GameType, B!gameVars
  <1>4. CASE B!Loads(m) /\ B!Loadable(m)
    BY <1>1, <1>4, Loading DEF BridgeTypeInv, BridgeAssumption
  <1>5. QED
    BY <1>1, <1>2, <1>3, <1>4

LEMMA LaunchType ==
    ASSUME BridgeAssumption, BridgeTypeInv, B!Launch
    PROVE  BridgeTypeInv'
  <1>1. /\ step["client"] = "launch" /\ B!Goes("client", "attach")
        /\ attempts' = 0
        /\ UNCHANGED <<attached, force, compiled, pre, next, again, ready>>
        /\ UNCHANGED <<files, marker, lock, built, release, due, original, installs>>
    BY DEF B!Launch, B!At, B!Goto, B!Memory, B!diskVars
  <1>2. (UNCHANGED B!gameVars) \/ (\E lost : B!BootsWithout(lost))
    BY DEF B!Launch
  <1>3. faults' \in Nat
    BY DEF B!Launch, B!Fault, BridgeTypeInv, CountType
  <1>4. GameType' /\ (running' = running \/ running' = TRUE)
    <2>1. CASE UNCHANGED B!gameVars
      BY <2>1 DEF BridgeTypeInv, GameType, B!gameVars
    <2>2. CASE \E lost : B!BootsWithout(lost)
      BY <2>2, Boots DEF BridgeTypeInv, BridgeAssumption
    <2>3. QED
      BY <1>2, <2>1, <2>2
  <1>5. LinkType'
    BY <1>1, <1>4 DEF BridgeTypeInv, LinkType
  <1>6. ClientType'
    BY <1>1
    DEF BridgeTypeInv, ClientType, AttemptsLeft, BridgeAssumption, B!BoundAssumption
  <1>7. ready' = FALSE /\ built' \in B!Sources
    BY <1>1, NotReady DEF BridgeTypeInv, DiskType
  <1>8. QED
    BY <1>1, <1>3, <1>4, <1>5, <1>6, <1>7, MovesType DEF B!Connecting

LEMMA BuildType ==
    ASSUME BridgeAssumption, BridgeTypeInv, B!Build
    PROVE  BridgeTypeInv'
  <1>1. /\ step["client"] = "build" /\ B!Goes("client", "probe")
        /\ compiled' = TRUE
        /\ UNCHANGED <<files, marker, lock, release, due, original, B!gameVars,
                       attached, force, pre, next, again, attempts, ready, installs>>
    BY DEF B!Build, B!At, B!Goto
  <1>2. built' \in B!Sources /\ faults' \in Nat
    BY DEF B!Build, B!Fault, BridgeTypeInv, DiskType, CountType
  <1>3. GameType' /\ LinkType'
    BY <1>1 DEF BridgeTypeInv, GameType, LinkType, B!gameVars
  <1>4. ClientType'
    BY <1>1 DEF BridgeTypeInv, ClientType, AttemptsLeft, Late, B!Connecting
  <1>5. ready' = FALSE
    BY <1>1, NotReady
  <1>6. QED
    BY <1>1, <1>2, <1>3, <1>4, <1>5, MovesType DEF B!Connecting

\* Steps that leave the game as it is.
LEMMA TalkType ==
    ASSUME BridgeAssumption, BridgeTypeInv,
           B!Attach \/ B!Probe \/ B!Loaded \/ B!Baseline \/ B!Prove \/ B!Retry
              \/ B!Restart \/ B!AskAgain \/ B!Lost
    PROVE  BridgeTypeInv'
  <1>1. /\ UNCHANGED <<files, marker, lock, built, release, due, original, installs>>
        /\ UNCHANGED B!gameVars
    BY DEF B!Attach, B!Probe, B!Loaded, B!Baseline, B!Prove, B!Retry, B!Restart,
           B!AskAgain, B!Lost, B!Memory, B!diskVars
  <1>2. built' \in B!Sources /\ GameType' /\ running' = running
    BY <1>1 DEF BridgeTypeInv, DiskType, GameType, B!gameVars
  <1>3. faults' \in Nat
    BY DEF B!Attach, B!Probe, B!Loaded, B!Baseline, B!Prove, B!Retry, B!Restart,
           B!AskAgain, B!Lost, B!Fault, BridgeTypeInv, CountType
  <1>4. attached' = attached \/ attached' = FALSE \/ (attached' = TRUE /\ running)
    BY DEF B!Attach, B!Probe, B!Loaded, B!Baseline, B!Prove, B!Retry, B!Restart,
           B!AskAgain, B!Lost, B!memoryVars
  <1>5. LinkType'
    <2>1. CASE attached' = attached
      BY <1>2, <2>1 DEF BridgeTypeInv, LinkType
    <2>2. CASE attached' = FALSE
      BY <2>2 DEF LinkType
    <2>3. CASE attached' = TRUE /\ running
      BY <1>2, <2>3 DEF LinkType
    <2>4. QED
      BY <1>4, <2>1, <2>2, <2>3
  <1>6. ready' = FALSE
    <2>1. CASE B!Lost
      BY <2>1 DEF B!Lost
    <2>2. CASE ~B!Lost
      <3>1. step["client"] # "ready" /\ ready' = ready
        BY <2>2
        DEF B!Attach, B!Probe, B!Loaded, B!Baseline, B!Prove, B!Retry, B!Restart,
            B!AskAgain, B!At, B!memoryVars
      <3>2. QED
        BY <3>1, NotReady
    <2>3. QED
      BY <2>1, <2>2
  <1>7. \E to \in B!Connecting \cup {"idle", "wait", "retry", "incompatible"} :
            /\ B!Goes("client", to)
            /\ to \in Late =>
                  \/ attempts' < MaxAttempts
                  \/ step["client"] \in Late \ {"launch"} /\ attempts' = attempts
    BY DEF B!Attach, B!Probe, B!Loaded, B!Baseline, B!Prove, B!Retry, B!Restart,
           B!AskAgain, B!Lost, Late, B!Connecting, B!Goto, B!At, B!memoryVars
  <1>8. attempts' \in 0 .. MaxAttempts
    BY DEF B!Attach, B!Probe, B!Loaded, B!Baseline, B!Prove, B!Retry, B!Restart,
           B!AskAgain, B!Lost, B!memoryVars, BridgeTypeInv, ClientType,
           AttemptsLeft, Late, B!Connecting, B!At, BridgeAssumption,
           B!BoundAssumption
  <1>9. ClientType'
    <2>1. PICK to \in B!Connecting \cup {"idle", "wait", "retry", "incompatible"} :
            /\ B!Goes("client", to)
            /\ to \in Late =>
                  \/ attempts' < MaxAttempts
                  \/ step["client"] \in Late \ {"launch"} /\ attempts' = attempts
      BY <1>7
    <2>2. step'["client"] = to
      BY <2>1
      DEF B!Goes, BridgeTypeInv, PlaceType, BridgeAssumption, B!InstallerAssumption
    <2>3. AttemptsLeft'
      BY <2>1, <2>2 DEF AttemptsLeft, BridgeTypeInv, ClientType, Late, B!Connecting
    <2>4. pre' \in [bridge: Nat, diagnostic: Nat] \cup {None}
      BY DEF B!Attach, B!Probe, B!Loaded, B!Baseline, B!Prove, B!Retry, B!Restart,
             B!AskAgain, B!Lost, B!memoryVars, BridgeTypeInv, ClientType, GameType,
             B!Generations
    <2>5. next' \in 1 .. Siblings + 3
      <3>1. next' = next \/ next' = B!Control
        BY DEF B!Attach, B!Probe, B!Loaded, B!Baseline, B!Prove, B!Retry, B!Restart,
               B!AskAgain, B!Lost, B!memoryVars
      <3>2. QED
        BY <3>1
        DEF BridgeTypeInv, ClientType, B!Control, BridgeAssumption,
            B!BoundAssumption
    <2>8. again' \in BOOLEAN
      BY DEF B!Attach, B!Probe, B!Loaded, B!Baseline, B!Prove, B!Retry, B!Restart,
             B!AskAgain, B!Lost, B!memoryVars, BridgeTypeInv, ClientType
    <2>6. force' \in BOOLEAN /\ compiled' \in BOOLEAN
      BY DEF B!Attach, B!Probe, B!Loaded, B!Baseline, B!Prove, B!Retry, B!Restart,
             B!AskAgain, B!Lost, B!memoryVars, BridgeTypeInv, ClientType
    <2>7. QED
      BY <1>8, <2>3, <2>4, <2>5, <2>6, <2>8 DEF ClientType
  <1>10. QED
    BY <1>1, <1>2, <1>3, <1>5, <1>6, <1>7, <1>9, MovesType

\* Forms evaluated in the game.
LEMMA EvaluationType ==
    ASSUME BridgeAssumption, BridgeTypeInv, B!Diagnose \/ B!Load
    PROVE  BridgeTypeInv'
  <1>1. \E to \in {"hello", "load"}, m \in B!Modules :
           B!Goes("client", to) /\ B!Evaluates(m)
    BY DEF B!Diagnose, B!Load, B!Goto, B!Modules, B!Diagnostics, BridgeAssumption,
           B!BoundAssumption
  <1>2. /\ UNCHANGED <<files, marker, lock, built, release, due, original, installs>>
        /\ UNCHANGED <<attached, force, compiled, pre, again, attempts, ready>>
        /\ step["client"] \in {"diagnose", "load"}
    BY DEF B!Diagnose, B!Load, B!Memory, B!diskVars, B!memoryVars, B!At
  <1>3. GameType' /\ running' = running /\ faults' \in Nat
    BY <1>1, EvaluatesFacts
  <1>4. LinkType'
    BY <1>2, <1>3 DEF BridgeTypeInv, LinkType
  <1>5. next' \in 1 .. Siblings + 3
    BY DEF B!Diagnose, B!Load, B!memoryVars, B!Modules, BridgeTypeInv, ClientType,
           BridgeAssumption, B!BoundAssumption
  <1>6. attempts < MaxAttempts
    BY <1>2 DEF BridgeTypeInv, ClientType, AttemptsLeft, Late, B!Connecting
  <1>7. ClientType'
    BY <1>2, <1>5, <1>6 DEF BridgeTypeInv, ClientType, AttemptsLeft
  <1>8. ready' = FALSE /\ built' \in B!Sources
    BY <1>2, NotReady DEF BridgeTypeInv, DiskType
  <1>9. QED
    BY <1>1, <1>2, <1>3, <1>4, <1>7, <1>8, MovesType DEF B!Connecting

LEMMA DisconnectType ==
    ASSUME BridgeAssumption, BridgeTypeInv, B!Disconnect
    PROVE  BridgeTypeInv'
  <1>1. /\ step["client"] \in B!Connecting \ {"launch", "clear"}
        /\ B!Goes("client", "retry") /\ attached' = FALSE
        /\ UNCHANGED <<files, marker, lock, built, release, due, original, installs>>
        /\ UNCHANGED <<force, compiled, pre, next, again, attempts, ready>>
    BY DEF B!Disconnect, B!Memory, B!diskVars, B!Goto
  <1>2. faults' \in Nat
    BY DEF B!Disconnect, B!Fault, BridgeTypeInv, CountType
  <1>3. GameType'
    <2>1. CASE UNCHANGED B!gameVars
      BY <2>1 DEF BridgeTypeInv, GameType, B!gameVars
    <2>2. CASE next \in B!Modules /\ B!Loadable(next) /\ B!Loads(next)
      BY <2>2, Loading DEF BridgeTypeInv, BridgeAssumption
    <2>3. QED
      BY <2>1, <2>2 DEF B!Disconnect
  <1>4. LinkType'
    BY <1>1 DEF LinkType
  <1>5. attempts < MaxAttempts
    BY <1>1 DEF BridgeTypeInv, ClientType, AttemptsLeft, Late, B!Connecting
  <1>6. ClientType'
    BY <1>1, <1>5 DEF BridgeTypeInv, ClientType, AttemptsLeft
  <1>7. ready' = FALSE /\ built' \in B!Sources
    BY <1>1, NotReady DEF BridgeTypeInv, DiskType, B!Connecting
  <1>8. QED
    BY <1>1, <1>2, <1>3, <1>4, <1>6, <1>7, MovesType

LEMMA ClearType ==
    ASSUME BridgeAssumption, BridgeTypeInv, B!ClearMarker
    PROVE  BridgeTypeInv'
  <1>1. /\ step["client"] = "clear" /\ step' = [step EXCEPT !["client"] = "hello"]
        /\ marker' = FALSE /\ force' = FALSE
        /\ UNCHANGED <<files, lock, built, release, due, original, B!gameVars, attached,
                   compiled, pre, next, again, attempts, ready, faults, installs>>
    BY DEF B!ClearMarker, B!At, B!Goto, B!Goes
  <1>2. DiskType' /\ WorkType' /\ GameType' /\ LinkType' /\ CountType'
    BY <1>1
    DEF BridgeTypeInv, DiskType, WorkType, GameType, LinkType, CountType, B!gameVars
  <1>3. attempts < MaxAttempts
    BY <1>1 DEF BridgeTypeInv, ClientType, AttemptsLeft, Late, B!Connecting
  <1>4. ClientType'
    BY <1>1, <1>3 DEF BridgeTypeInv, ClientType, AttemptsLeft
  <1>5. PlaceType'
    BY <1>1, NotReady, Moves
    DEF BridgeTypeInv, BridgeAssumption, B!Goes, B!Connecting
  <1>6. QED
    BY <1>2, <1>4, <1>5 DEF BridgeTypeInv

LEMMA HelloType ==
    ASSUME BridgeAssumption, BridgeTypeInv, B!Hello
    PROVE  BridgeTypeInv'
  <1> DEFINE to == IF ~B!Published THEN "retry"
                   ELSE IF B!Compatible THEN "ready" ELSE "incompatible"
  <1>1. /\ step["client"] = "hello" /\ step' = [step EXCEPT !["client"] = to]
        /\ ready' = B!Compatible
        /\ attached' = (attached /\ (~B!Published \/ B!Compatible))
        /\ UNCHANGED <<B!gameVars, force, compiled, pre, next, again, attempts, faults>>
        /\ UNCHANGED <<files, marker, lock, built, release, due, original, installs>>
    BY DEF B!Hello, B!At, B!Goto, B!Goes, B!Memory, B!diskVars
  <1>2. DiskType' /\ WorkType' /\ GameType' /\ CountType'
    BY <1>1 DEF BridgeTypeInv, DiskType, WorkType, GameType, CountType, B!gameVars
  <1>3. attempts < MaxAttempts
    BY <1>1 DEF BridgeTypeInv, ClientType, AttemptsLeft, Late, B!Connecting
  <1>4. ClientType'
    BY <1>1, <1>3 DEF BridgeTypeInv, ClientType, AttemptsLeft
  <1>5. B!Compatible \in BOOLEAN /\ (B!Compatible => B!Published)
    BY DEF B!Compatible
  <1> HIDE DEF to
  <1>6. LinkType'
    <2>1. running' = running
      BY <1>1 DEF B!gameVars
    <2>2. attached' => attached
      BY <1>1
    <2>3. attached' \in BOOLEAN
      BY <1>1
    <2>4. QED
      BY <2>1, <2>2, <2>3 DEF BridgeTypeInv, LinkType
  <1>7. to \in {"retry", "ready", "incompatible"} /\ (to = "ready" <=> B!Compatible)
    BY <1>5 DEF to
  <1>8. PlaceType'
    <2>1. step'["client"] = to /\ lock' = lock
      BY <1>1 DEF BridgeTypeInv, PlaceType, BridgeAssumption, B!InstallerAssumption
    <2>2. /\ step' \in [Installers -> B!Installing \cup B!Connecting
                          \cup {"idle", "wait", "retry", "ready", "incompatible"}]
          /\ \A i \in Installers : step'[i] \in B!Installing => lock' = i
      BY <1>1, <1>7 DEF BridgeTypeInv, PlaceType, B!Installing
    <2>3. ready' \in BOOLEAN /\ (ready' <=> step'["client"] = "ready")
      BY <1>1, <1>5, <1>7, <2>1
    <2>4. QED
      BY <2>2, <2>3 DEF PlaceType
  <1>9. QED
    BY <1>2, <1>4, <1>6, <1>8 DEF BridgeTypeInv

LEMMA ExitType ==
    ASSUME BridgeAssumption, BridgeTypeInv, B!GameExits
    PROVE  BridgeTypeInv'
  <1>1. /\ running' = FALSE
        /\ live' = [m \in B!Modules |-> None] /\ active' = {} /\ gen' = 0 /\ dgen' = 0
        /\ attached' = FALSE /\ faults' = faults + 1
        /\ UNCHANGED <<B!diskVars, B!installVars, force, compiled, pre, next, again,
                       attempts, ready, installs>>
    BY DEF B!GameExits, B!Fault
  <1>2. GameType' /\ LinkType'
    BY <1>1 DEF GameType, LinkType, B!Sources
  <1>3. DiskType' /\ WorkType' /\ CountType' /\ PlaceType' /\ ClientType'
    BY <1>1
    DEF BridgeTypeInv, DiskType, WorkType, CountType, PlaceType, ClientType,
        AttemptsLeft, B!diskVars, B!installVars
  <1>4. QED
    BY <1>2, <1>3 DEF BridgeTypeInv

LEMMA BridgeTypeKept ==
    ASSUME BridgeAssumption, BridgeTypeInv, [B!Next]_(B!vars)
    PROVE  BridgeTypeInv'
  <1>1. ASSUME NEW i \in Installers, B!Install(i) \/ B!WriteFails(i) \/ B!Crash(i)
        PROVE  BridgeTypeInv'
    BY <1>1, AcquireType, PlanType, ReplaceType, FinishType, GiveUpType, CrashType
    DEF B!Install
  <1>2. CASE B!Activate
    BY <1>2, LaunchType, BuildType, TalkType, EvaluationType, ClearType, HelloType
    DEF B!Activate
  <1>3. CASE B!Disconnect \/ B!AskAgain \/ B!GameExits
    BY <1>3, DisconnectType, TalkType, ExitType
  <1>4. CASE UNCHANGED B!vars
    BY <1>4
    DEF B!vars, B!diskVars, B!installVars, B!gameVars, B!memoryVars, BridgeTypeInv,
        DiskType, PlaceType, WorkType, GameType, LinkType, ClientType, CountType,
        AttemptsLeft
  <1>5. QED
    BY <1>1, <1>2, <1>3, <1>4 DEF B!Next

-----------------------------------------------------------------------------
(* The invariant of the activation, one lemma per step or group of steps.   *)

LEMMA Placed ==
    ASSUME BridgeAssumption, BridgeTypeInv, NEW to, B!Goes("client", to)
    PROVE  step'["client"] = to
  BY DEF B!Goes, BridgeTypeInv, PlaceType, BridgeAssumption, B!InstallerAssumption

\* The client's own installation, and its death at any step.
LEMMA InstallKeeps ==
    ASSUME OwnInstaller, BridgeAssumption, BridgeTypeInv, DiskInv, SourceInv, ReloadInv,
           NEW i \in Installers, B!Install(i) \/ B!WriteFails(i) \/ B!Crash(i)
    PROVE  DiskInv' /\ SourceInv' /\ ReloadInv'
  <1>1. i = "client"
    BY DEF OwnInstaller
  <1>2. UNCHANGED B!gameVars /\ built' = built
    BY DEF B!Install, B!Acquire, B!Plan, B!Mark, B!Write, B!Finish, B!Restore,
           B!GiveUp, B!WriteFails, B!Crash, B!Rest
  <1>3. CASE B!Acquire(i)
    <2>1. /\ step'["client"] = "plan"
          /\ UNCHANGED <<files, marker, release, B!memoryVars>>
      BY <1>1, <1>3, Placed DEF B!Acquire, B!Rest
    <2>2. DiskInv'
      BY <1>2, <2>1
      DEF DiskInv, ReplacedUnderMarker, DueCovers, InstalledOwn, CompiledOwn,
          CompiledFirst, Late, B!Connecting, B!memoryVars
    <2>3. SourceInv' /\ ReloadInv'
      BY <1>2, <2>1
      DEF SourceInv, UnmarkedKnown, ClearedKnown, ActiveLive, Known, ReloadInv,
          MarkerForces, Compared, Evidence, Late, B!Connecting, B!gameVars
    <2>4. QED
      BY <2>2, <2>3
  <1>4. CASE B!Plan(i)
    <2>1. /\ step["client"] = "plan"
          /\ due'["client"] = {m \in B!Modules : files[m] # release["client"]}
          /\ UNCHANGED <<files, marker, release, compiled, attached, pre>>
          /\ \/ due'["client"] = {} /\ B!Goes("client", "launch") /\ force' = marker'
             \/ due'["client"] # {} /\ B!Goes("client", "mark") /\ force' = force
      BY <1>1, <1>4 DEF B!Plan, B!Installed, BridgeTypeInv, WorkType
    <2>2. \/ due'["client"] = {} /\ step'["client"] = "launch" /\ force' = marker'
          \/ due'["client"] # {} /\ step'["client"] = "mark"
      BY <2>1, Placed
    <2>3. DiskInv'
      BY <1>2, <2>1, <2>2
      DEF DiskInv, ReplacedUnderMarker, DueCovers, InstalledOwn, CompiledOwn,
          CompiledFirst, Late, B!Connecting
    <2>4. SourceInv' /\ ReloadInv'
      BY <1>2, <2>1, <2>2
      DEF SourceInv, UnmarkedKnown, ClearedKnown, ActiveLive, Known, ReloadInv,
          MarkerForces, Compared, Evidence, Late, B!Connecting, B!gameVars
    <2>5. QED
      BY <2>3, <2>4
  <1>5. CASE B!Mark(i)
    <2>1. /\ step["client"] = "mark" /\ step'["client"] = "write" /\ marker' = TRUE
          /\ UNCHANGED <<files, due, release, B!memoryVars>>
      BY <1>1, <1>5, Placed DEF B!Mark, B!Rest
    <2>2. DiskInv'
      BY <1>2, <2>1
      DEF DiskInv, ReplacedUnderMarker, DueCovers, InstalledOwn, CompiledOwn,
          CompiledFirst, Late, B!Connecting, B!memoryVars
    <2>3. SourceInv' /\ ReloadInv'
      BY <1>2, <2>1
      DEF SourceInv, UnmarkedKnown, ClearedKnown, ActiveLive, Known, ReloadInv,
          MarkerForces, Compared, Evidence, Late, B!Connecting, B!gameVars
    <2>4. QED
      BY <2>2, <2>3
  <1>6. CASE B!Write(i) \/ B!WriteFails(i) \/ B!Restore(i)
    <2>1. /\ step["client"] \in {"write", "rollback"}
          /\ step'["client"] \in {"write", "rollback"}
          /\ UNCHANGED <<marker, release, B!memoryVars>>
      BY <1>1, <1>6, Placed DEF B!Write, B!WriteFails, B!Restore, B!Rest
    <2>2. marker /\ ~compiled
      BY <2>1 DEF DiskInv, ReplacedUnderMarker, CompiledOwn
    <2>3. DueCovers'
      <3>1. CASE B!Write(i)
        <4>1. /\ files' = [files EXCEPT ![B!First(due["client"])] = release["client"]]
              /\ due'["client"] = due["client"] \ {B!First(due["client"])}
              /\ step["client"] = "write"
          BY <1>1, <3>1 DEF B!Write, BridgeTypeInv, WorkType
        <4>2. \A m \in B!Modules : files'[m] = IF m = B!First(due["client"])
                                             THEN release["client"] ELSE files[m]
          BY <4>1 DEF BridgeTypeInv, DiskType, B!Sources
        <4>3. QED
          BY <2>1, <4>1, <4>2 DEF DiskInv, DueCovers
      <3>2. CASE B!WriteFails(i) \/ B!Restore(i)
        <4>1. step'["client"] = "rollback"
          BY <1>1, <3>2, Placed DEF B!WriteFails, B!Restore
        <4>2. QED
          BY <4>1 DEF DueCovers
      <3>3. QED
        BY <1>6, <3>1, <3>2
    <2>4. DiskInv'
      BY <1>2, <2>1, <2>2, <2>3
      DEF DiskInv, ReplacedUnderMarker, InstalledOwn, CompiledOwn, CompiledFirst,
          Late, B!Connecting, B!memoryVars
    <2>5. SourceInv' /\ ReloadInv'
      BY <1>2, <2>1, <2>2
      DEF SourceInv, UnmarkedKnown, ClearedKnown, ActiveLive, ReloadInv,
          MarkerForces, Compared, Evidence, Late, B!Connecting, B!gameVars
    <2>6. QED
      BY <2>4, <2>5
  <1>7. CASE B!Finish(i)
    <2>1. /\ step["client"] = "write" /\ due["client"] = {}
          /\ step'["client"] = "launch" /\ force' = marker'
          /\ UNCHANGED <<files, marker, release, compiled, attached, pre>>
      BY <1>1, <1>7, Placed DEF B!Finish, B!Installed
    <2>2. DiskInv'
      BY <1>2, <2>1
      DEF DiskInv, ReplacedUnderMarker, DueCovers, InstalledOwn, CompiledOwn,
          CompiledFirst, Late, B!Connecting
    <2>3. SourceInv' /\ ReloadInv'
      BY <1>2, <2>1
      DEF SourceInv, UnmarkedKnown, ClearedKnown, ActiveLive, Known, ReloadInv,
          MarkerForces, Compared, Evidence, Late, B!Connecting, B!gameVars
    <2>4. QED
      BY <2>2, <2>3
  <1>8. CASE B!GiveUp(i)
    <2>1. /\ step'["client"] = "wait"
          /\ UNCHANGED <<files, marker, release, B!memoryVars>>
      BY <1>1, <1>8, Placed DEF B!GiveUp, B!Rest
    <2>2. DiskInv'
      BY <1>2, <2>1
      DEF DiskInv, ReplacedUnderMarker, DueCovers, InstalledOwn, CompiledOwn,
          CompiledFirst, Late, B!Connecting, B!memoryVars
    <2>3. SourceInv' /\ ReloadInv'
      BY <1>2, <2>1
      DEF SourceInv, UnmarkedKnown, ClearedKnown, ActiveLive, Known, ReloadInv,
          MarkerForces, Compared, Evidence, Late, B!Connecting, B!gameVars
    <2>4. QED
      BY <2>2, <2>3
  <1>9. CASE B!Crash(i)
    <2>1. /\ step'["client"] = "idle" /\ compiled' = FALSE
          /\ UNCHANGED <<files, marker>>
      BY <1>1, <1>9, Placed DEF B!Crash
    <2>2. DiskInv'
      BY <2>1
      DEF DiskInv, ReplacedUnderMarker, DueCovers, InstalledOwn, CompiledOwn,
          CompiledFirst, Late, B!Connecting
    <2>3. SourceInv' /\ ReloadInv'
      BY <1>2, <2>1
      DEF SourceInv, UnmarkedKnown, ClearedKnown, ActiveLive, Known, ReloadInv,
          MarkerForces, Compared, Evidence, Late, B!Connecting, B!gameVars
    <2>4. QED
      BY <2>2, <2>3
  <1>10. QED
    BY <1>3, <1>4, <1>5, <1>6, <1>7, <1>8, <1>9 DEF B!Install

\* The client goes on with the disk as it is.
LEMMA DiskStays ==
    ASSUME DiskInv, UNCHANGED <<files, built, marker, release, compiled>>,
           step["client"] \in Late \/ step'["client"] \notin Late,
           step'["client"] \notin {"mark", "write", "rollback"},
           step'["client"] \in B!Connecting \ {"launch", "attach", "build"} => compiled
    PROVE  DiskInv'
  BY DEF DiskInv, ReplacedUnderMarker, DueCovers, InstalledOwn, CompiledOwn,
         CompiledFirst, Late

LEMMA SourceStays ==
    ASSUME SourceInv, UNCHANGED <<files, built, marker, B!gameVars>>,
           step'["client"] # "clear"
    PROVE  SourceInv'
  BY DEF SourceInv, UnmarkedKnown, ClearedKnown, ActiveLive, Known, B!gameVars

\* Launch: what is started is what was built.
LEMMA LaunchKeeps ==
    ASSUME BridgeAssumption, BridgeTypeInv, DiskInv, SourceInv, ReloadInv, B!Launch
    PROVE  DiskInv' /\ SourceInv' /\ ReloadInv'
  <1>1. /\ step["client"] = "launch" /\ step'["client"] = "attach"
        /\ UNCHANGED <<files, marker, built, release, force, compiled>>
    BY Placed DEF B!Launch, B!At, B!Goto, B!Memory, B!diskVars
  <1>2. DiskInv'
    BY <1>1, DiskStays DEF Late, B!Connecting
  <1>3. SourceInv'
    <2>1. CASE UNCHANGED B!gameVars
      BY <1>1, <2>1, SourceStays
    <2>2. ASSUME NEW lost, B!BootsWithout(lost)
          PROVE  SourceInv'
      <3>1. /\ \A m \in B!Modules : live'[m] \in {built[m], None}
            /\ \A m \in active' : live'[m] # None
        BY <2>2, Boots DEF BridgeTypeInv, BridgeAssumption
      <3>2. QED
        BY <1>1, <3>1 DEF SourceInv, UnmarkedKnown, ClearedKnown, ActiveLive, Known
    <2>3. QED
      BY <2>1, <2>2 DEF B!Launch
  <1>4. ReloadInv'
    BY <1>1 DEF ReloadInv, MarkerForces, Compared, Evidence, Late, B!Connecting
  <1>5. QED
    BY <1>2, <1>3, <1>4

\* Build: with the compilation done, what is built is what is installed.
LEMMA BuildKeeps ==
    ASSUME OwnInstaller, BridgeAssumption, BridgeTypeInv, DiskInv, SourceInv, ReloadInv,
           B!Build
    PROVE  DiskInv' /\ SourceInv' /\ ReloadInv'
  <1>1. /\ step["client"] = "build" /\ step'["client"] = "probe"
        /\ compiled' = TRUE /\ built' = files
        /\ UNCHANGED <<files, marker, release, B!gameVars, force>>
    BY Placed DEF B!Build, B!At, B!Goto, OwnInstaller
  <1>2. DiskInv'
    BY <1>1
    DEF DiskInv, ReplacedUnderMarker, DueCovers, InstalledOwn, CompiledOwn,
        CompiledFirst, Late, B!Connecting
  <1>3. SourceInv'
    BY <1>1
    DEF SourceInv, UnmarkedKnown, ClearedKnown, ActiveLive, Known, B!gameVars
  <1>4. ReloadInv'
    BY <1>1 DEF ReloadInv, MarkerForces, Compared, Evidence, Late, B!Connecting
  <1>5. QED
    BY <1>2, <1>3, <1>4

\* Steps that tell the game nothing and clear nothing.
LEMMA TalkKeeps ==
    ASSUME BridgeAssumption, BridgeTypeInv, DiskInv, SourceInv, ReloadInv,
           B!Attach \/ B!Probe \/ B!Loaded \/ B!Baseline \/ B!Hello
              \/ B!Lost \/ B!Retry \/ B!Restart \/ B!AskAgain
    PROVE  DiskInv' /\ SourceInv' /\ ReloadInv'
  <1>1. UNCHANGED <<files, built, marker, release, B!gameVars, compiled, force>>
    BY DEF B!Attach, B!Probe, B!Loaded, B!Baseline, B!Hello, B!Lost, B!Retry,
           B!Restart, B!AskAgain, B!Memory, B!diskVars, B!memoryVars
  <1>2. PICK to \in {"attach", "build", "probe", "load", "hello", "diagnose",
                     "baseline", "prove", "retry", "wait", "idle", "ready",
                     "incompatible"} :
           /\ B!Goes("client", to)
           /\ step["client"] \in Late \/ to \notin Late
           /\ to \in B!Connecting \ {"attach", "build"} =>
                 \/ compiled
                 \/ step["client"] \in B!Connecting \ {"launch", "attach", "build"}
           /\ to \in {"diagnose", "hello"} => ~force
           /\ to = "prove" => pre' # None
           /\ to \in {"load", "prove"} =>
                 \/ pre' = pre /\ attached' = attached /\ step["client"] = "load"
                 \/ pre' \in {B!Generations, None}
    BY DEF B!Attach, B!Probe, B!Loaded, B!Baseline, B!Hello, B!Lost, B!Retry,
           B!Restart, B!AskAgain, B!Goto, B!At, Late, B!Connecting, B!memoryVars,
           ReloadInv, MarkerForces
  <1>3. step'["client"] = to
    BY <1>2, Placed
  <1>4. DiskInv'
    BY <1>1, <1>2, <1>3, DiskStays DEF DiskInv, CompiledFirst, B!Connecting
  <1>5. SourceInv'
    BY <1>1, <1>3, SourceStays
  <1>6. MarkerForces' /\ Compared'
    BY <1>1, <1>2, <1>3 DEF ReloadInv, MarkerForces, Compared, Late, B!Connecting
  <1>7. Evidence'
    <2>1. CASE to \in {"load", "prove"} /\ pre' = pre /\ attached' = attached
                 /\ step["client"] = "load"
      BY <1>1, <1>3, <2>1 DEF ReloadInv, Evidence, B!gameVars
    <2>2. CASE pre' \in {B!Generations, None}
      BY <1>1, <2>2 DEF Evidence, B!Generations, B!gameVars
    <2>3. CASE to \notin {"load", "prove"}
      BY <1>3, <2>3 DEF Evidence
    <2>4. QED
      BY <1>2, <2>1, <2>2, <2>3
  <1>8. QED
    BY <1>4, <1>5, <1>6, <1>7 DEF ReloadInv

\* What is evaluated is the installed source.
LEMMA LoadedSource ==
    ASSUME BridgeAssumption, BridgeTypeInv, SourceInv, NEW m \in B!Modules,
           UNCHANGED B!gameVars \/ (B!Loads(m) /\ B!Loadable(m)),
           UNCHANGED <<files, built, marker>>, step'["client"] # "clear"
    PROVE  SourceInv'
  <1>1. CASE UNCHANGED B!gameVars
    BY <1>1, SourceStays
  <1>2. CASE B!Loads(m) /\ B!Loadable(m)
    <2>1. /\ live'[m] = files[m] /\ files[m] # None
          /\ \A k \in B!Modules \ {m} : live'[k] = live[k]
          /\ active' \subseteq active \cup {m}
      BY <1>2, Loading DEF BridgeTypeInv, BridgeAssumption
    <2>2. active \subseteq B!Modules
      BY DEF BridgeTypeInv, GameType
    <2>3. QED
      BY <2>1, <2>2 DEF SourceInv, UnmarkedKnown, ClearedKnown, ActiveLive, Known
  <1>3. QED
    BY <1>1, <1>2

\* A load with a new generation leaves nothing older of it.
LEMMA LoadEvidence ==
    ASSUME BridgeAssumption, BridgeTypeInv, Evidence, NEW m \in B!Modules,
           UNCHANGED B!gameVars \/ (B!Loads(m) /\ B!Loadable(m)),
           UNCHANGED <<files, attached, pre>>, step["client"] = "load"
    PROVE  Evidence'
  <1>1. CASE UNCHANGED B!gameVars
    BY <1>1 DEF Evidence, B!gameVars
  <1>2. CASE B!Loads(m) /\ B!Loadable(m)
    <2>1. /\ live'[m] = files[m]
          /\ \A k \in B!Modules \ {m} : live'[k] = live[k]
          /\ m = B!Control => active' = {}
          /\ active' \subseteq active \cup {m}
          /\ m # B!Control => gen' = gen
          /\ m # B!Diagnostics => dgen' = dgen
      BY <1>2, Loading DEF BridgeTypeInv, BridgeAssumption
    <2>2. /\ active \subseteq B!Modules
          /\ B!Control \in B!Modules /\ B!Diagnostics \in B!Modules
      BY DEF BridgeTypeInv, GameType, B!Modules, B!Control, B!Diagnostics,
             BridgeAssumption, B!BoundAssumption
    <2>3. ASSUME attached, pre # None, gen' # pre.bridge
          PROVE  /\ live'[B!Control] = files[B!Control]
                 /\ \A k \in active' : live'[k] = files[k]
      BY <2>1, <2>2, <2>3 DEF Evidence
    <2>4. ASSUME attached, pre # None, dgen' # pre.diagnostic
          PROVE  live'[B!Diagnostics] = files[B!Diagnostics]
      BY <2>1, <2>2, <2>4 DEF Evidence
    <2>5. QED
      BY <2>3, <2>4 DEF Evidence
  <1>3. QED
    BY <1>1, <1>2

LEMMA EvaluationKeeps ==
    ASSUME BridgeAssumption, BridgeTypeInv, DiskInv, SourceInv, ReloadInv,
           B!Diagnose \/ B!Load \/ B!Disconnect
    PROVE  DiskInv' /\ SourceInv' /\ ReloadInv'
  <1>1. /\ step["client"] \in B!Connecting
        /\ UNCHANGED <<files, built, marker, release, compiled, force, pre>>
        /\ \/ step["client"] = "diagnose" /\ step'["client"] = "hello"
           \/ /\ step["client"] = "load" /\ step'["client"] = "load"
              /\ attached' = attached
           \/ step'["client"] = "retry"
    BY Placed
    DEF B!Diagnose, B!Load, B!Disconnect, B!Memory, B!diskVars, B!memoryVars, B!At,
        B!Goto, B!Connecting
  <1>2. PICK m \in B!Modules : UNCHANGED B!gameVars \/ (B!Loads(m) /\ B!Loadable(m))
    <2>1. CASE B!Disconnect
      <3>1. B!Control \in B!Modules
        BY DEF B!Modules, B!Control, BridgeAssumption, B!BoundAssumption
      <3>2. QED
        BY <2>1, <3>1 DEF B!Disconnect
    <2>2. CASE B!Diagnose \/ B!Load
      <3>1. \E m \in B!Modules : B!Evaluates(m)
        BY <2>2
        DEF B!Diagnose, B!Load, B!Modules, B!Diagnostics, BridgeAssumption,
            B!BoundAssumption
      <3>2. QED
        BY <3>1 DEF B!Evaluates
    <2>3. QED
      BY <2>1, <2>2
  <1>3. DiskInv'
    BY <1>1, DiskStays DEF DiskInv, CompiledFirst, Late, B!Connecting
  <1>4. SourceInv'
    BY <1>1, <1>2, LoadedSource
  <1>5. MarkerForces' /\ Compared'
    BY <1>1 DEF ReloadInv, MarkerForces, Compared, Late, B!Connecting
  <1>6. Evidence'
    <2>1. CASE step["client"] = "load" /\ step'["client"] = "load" /\ attached' = attached
      BY <1>1, <1>2, <2>1, LoadEvidence DEF ReloadInv
    <2>2. CASE step'["client"] \in {"hello", "retry"}
      BY <2>2 DEF Evidence
    <2>3. QED
      BY <1>1, <2>1, <2>2
  <1>7. QED
    BY <1>3, <1>4, <1>5, <1>6 DEF ReloadInv

\* Prove: both generations are new, so each module that is there was loaded
\* since, from the installed source.
LEMMA ProveKeeps ==
    ASSUME BridgeAssumption, BridgeTypeInv, DiskInv, SourceInv, ReloadInv, B!Prove
    PROVE  DiskInv' /\ SourceInv' /\ ReloadInv'
  <1>1. /\ step["client"] = "prove"
        /\ step'["client"] = IF B!Proven THEN "clear" ELSE "retry"
        /\ UNCHANGED <<files, built, marker, release, B!memoryVars, B!gameVars>>
    BY Placed DEF B!Prove, B!At, B!Goto, B!Memory, B!diskVars
  <1>2. DiskInv'
    BY <1>1, DiskStays DEF DiskInv, CompiledFirst, Late, B!Connecting, B!memoryVars
  <1>3. B!Proven => Known(live)
    <2>1. SUFFICES ASSUME B!Proven, NEW m \in B!Modules
                   PROVE  live[m] = files[m]
      BY DEF Known
    <2>2. /\ attached /\ gen # pre.bridge /\ dgen # pre.diagnostic
          /\ \A k \in B!Modules : k > 2 => k \in active
      BY <2>1 DEF B!Proven, B!Compatible, B!Published
    <2>3. /\ live[B!Control] = files[B!Control]
          /\ live[B!Diagnostics] = files[B!Diagnostics]
          /\ \A k \in active : live[k] = files[k]
      BY <1>1, <2>2 DEF ReloadInv, Compared, Evidence
    <2>4. m = B!Control \/ m = B!Diagnostics \/ m > 2
      BY DEF B!Modules, B!Control, B!Diagnostics, BridgeAssumption,
             B!BoundAssumption
    <2>5. QED
      BY <2>2, <2>3, <2>4
  <1>4. SourceInv'
    BY <1>1, <1>3
    DEF SourceInv, UnmarkedKnown, ClearedKnown, ActiveLive, Known, B!gameVars
  <1>5. ReloadInv'
    BY <1>1
    DEF ReloadInv, MarkerForces, Compared, Evidence, Late, B!Connecting,
        B!memoryVars
  <1>6. QED
    BY <1>2, <1>4, <1>5

\* The marker is removed when all that is live or built is installed.
LEMMA ClearKeeps ==
    ASSUME BridgeAssumption, BridgeTypeInv, DiskInv, SourceInv, ReloadInv, B!ClearMarker
    PROVE  DiskInv' /\ SourceInv' /\ ReloadInv'
  <1>1. /\ step["client"] = "clear" /\ step'["client"] = "hello"
        /\ marker' = FALSE /\ force' = FALSE
        /\ UNCHANGED <<files, built, release, B!gameVars, compiled>>
    BY Placed DEF B!ClearMarker, B!At, B!Goto
  <1>2. compiled
    BY <1>1 DEF DiskInv, CompiledFirst, B!Connecting
  <1>3. Known(live) /\ Known(built)
    BY <1>1, <1>2 DEF SourceInv, ClearedKnown, DiskInv, CompiledOwn, Known
  <1>4. DiskInv'
    BY <1>1, <1>2
    DEF DiskInv, ReplacedUnderMarker, DueCovers, InstalledOwn, CompiledOwn,
        CompiledFirst, Late, B!Connecting
  <1>5. SourceInv'
    BY <1>1, <1>3
    DEF SourceInv, UnmarkedKnown, ClearedKnown, ActiveLive, Known, B!gameVars
  <1>6. ReloadInv'
    BY <1>1 DEF ReloadInv, MarkerForces, Compared, Evidence
  <1>7. QED
    BY <1>4, <1>5, <1>6

LEMMA ExitKeeps ==
    ASSUME BridgeAssumption, BridgeTypeInv, DiskInv, SourceInv, ReloadInv, B!GameExits
    PROVE  DiskInv' /\ SourceInv' /\ ReloadInv'
  <1>1. /\ live' = [m \in B!Modules |-> None] /\ active' = {}
        /\ attached' = FALSE
        /\ UNCHANGED <<files, built, marker, step, release, due, compiled, force, pre>>
    BY DEF B!GameExits, B!diskVars, B!installVars
  <1>2. DiskInv'
    BY <1>1
    DEF DiskInv, ReplacedUnderMarker, DueCovers, InstalledOwn, CompiledOwn,
        CompiledFirst
  <1>3. SourceInv'
    BY <1>1 DEF SourceInv, UnmarkedKnown, ClearedKnown, ActiveLive, Known
  <1>4. ReloadInv'
    BY <1>1 DEF ReloadInv, MarkerForces, Compared, Evidence
  <1>5. QED
    BY <1>2, <1>3, <1>4

\* The inductive invariant of the activation.
BridgeInv == BridgeTypeInv /\ DiskInv /\ SourceInv /\ ReloadInv

LEMMA BridgeStep ==
    ASSUME OwnInstaller, BridgeAssumption, BridgeInv, [B!Next]_(B!vars)
    PROVE  BridgeInv'
  <1> USE DEF BridgeInv
  <1>1. BridgeTypeInv'
    BY BridgeTypeKept
  <1>2. ASSUME NEW i \in Installers, B!Install(i) \/ B!WriteFails(i) \/ B!Crash(i)
        PROVE  BridgeInv'
    BY <1>1, <1>2, InstallKeeps
  <1>3. CASE B!Activate
    BY <1>1, <1>3, LaunchKeeps, BuildKeeps, TalkKeeps, EvaluationKeeps, ProveKeeps,
       ClearKeeps
    DEF B!Activate
  <1>4. CASE B!Disconnect \/ B!AskAgain \/ B!GameExits
    BY <1>1, <1>4, EvaluationKeeps, TalkKeeps, ExitKeeps
  <1>5. CASE UNCHANGED B!vars
    BY <1>1, <1>5
    DEF B!vars, B!diskVars, B!installVars, B!gameVars, B!memoryVars, DiskInv,
        ReplacedUnderMarker, DueCovers, InstalledOwn, CompiledOwn, CompiledFirst,
        SourceInv, UnmarkedKnown, ClearedKnown, ActiveLive, Known, ReloadInv,
        MarkerForces, Compared, Evidence
  <1>6. QED
    BY <1>2, <1>3, <1>4, <1>5 DEF B!Next

LEMMA BridgeInit ==
    ASSUME BridgeAssumption, B!Init
    PROVE  BridgeInv
  <1>1. BridgeTypeInv
    <2>1. files \in B!Sources
      BY DEF B!Init, B!Sources
    <2>2. DiskType
      BY <2>1 DEF B!Init, DiskType
    <2>3. PlaceType
      BY DEF B!Init, PlaceType, B!Installing, B!Connecting, BridgeAssumption,
             B!InstallerAssumption
    <2>4. WorkType
      BY <2>1 DEF B!Init, WorkType
    <2>5. GameType /\ LinkType /\ CountType
      BY DEF B!Init, GameType, LinkType, CountType, B!Sources
    <2>6. AttemptsLeft
      BY DEF B!Init, AttemptsLeft, Late, B!Connecting, BridgeAssumption,
             B!InstallerAssumption
    <2>7. ClientType
      <3>1. next \in 1 .. Siblings + 3 /\ attempts \in 0 .. MaxAttempts
        BY DEF B!Init, B!Control, BridgeAssumption, B!BoundAssumption
      <3>2. force \in BOOLEAN /\ compiled \in BOOLEAN /\ again \in BOOLEAN /\ pre = None
        BY DEF B!Init
      <3>3. QED
        BY <2>6, <3>1, <3>2 DEF ClientType
    <2>8. QED
      BY <2>2, <2>3, <2>4, <2>5, <2>7 DEF BridgeTypeInv
  <1>2. DiskInv /\ SourceInv /\ ReloadInv
    BY DEF B!Init, DiskInv, ReplacedUnderMarker, DueCovers, InstalledOwn,
           CompiledOwn, CompiledFirst, SourceInv, UnmarkedKnown, ClearedKnown,
           ActiveLive, Known, ReloadInv, MarkerForces, Compared, Evidence, Late,
           B!Connecting, BridgeAssumption, B!InstallerAssumption
  <1>3. QED
    BY <1>1, <1>2 DEF BridgeInv

\* The inductive invariant holds in every reachable state: how disk, marker,
\* compiled objects, the game's memory and the client's knowledge of them hang
\* together between any two steps of the installation (launcher.py) and of the
\* connection loop (client.py).
THEOREM BridgeInvariant ==
    ASSUME OwnInstaller, BridgeAssumption
    PROVE  B!Spec => []BridgeInv
  <1>1. BridgeInv /\ [B!Next]_(B!vars) => BridgeInv'
    BY BridgeStep
  <1>2. QED
    BY <1>1, BridgeInit, PTL DEF B!Spec

\* Type correctness, also with the standalone installer at work and with
\* compilations that leave the old objects behind.
THEOREM BridgeTypeCorrect ==
    ASSUME BridgeAssumption
    PROVE  B!Spec => []B!TypeOK
  <1>1. BridgeTypeInv /\ [B!Next]_(B!vars) => BridgeTypeInv'
    BY BridgeTypeKept
  <1>2. B!Init => BridgeTypeInv
    BY BridgeInit DEF BridgeInv
  <1>3. BridgeTypeInv => B!TypeOK
    BY TypeParts
  <1>4. QED
    BY <1>1, <1>2, <1>3, PTL DEF B!Spec

\* While what is built or loaded is not what is installed, the reload marker is
\* there: it is written before the first source is replaced, survives crashes,
\* rollbacks and lost connections, and is removed only after a load was proved.
THEOREM ObligationKept ==
    ASSUME OwnInstaller, BridgeAssumption
    PROVE  B!Spec => []Obligation
  <1>1. BridgeInv => Obligation
    BY DEF BridgeInv, SourceInv, UnmarkedKnown, Known, Obligation, B!Obligation
  <1>2. QED
    BY <1>1, BridgeInvariant, PTL

LEMMA HelloCurrent ==
    ASSUME BridgeAssumption, BridgeInv, [B!Next]_(B!vars), ~ready, ready'
    PROVE  \A m \in B!Modules :
               \/ live'[m] = release'["client"]
               \/ m = B!Diagnostics /\ live'[m] = None
  <1> USE DEF BridgeInv
  <1>1. B!Hello
    <2>1. ready' = ready \/ ready' = FALSE \/ B!Hello
      BY DEF B!Next, B!Install, B!Activate, B!Acquire, B!Plan, B!Mark, B!Write,
             B!Finish, B!Restore, B!GiveUp, B!WriteFails, B!Crash, B!Rest,
             B!memoryVars, B!Launch, B!Attach, B!Build, B!Probe, B!Diagnose, B!Load,
             B!Loaded, B!Baseline, B!Prove, B!ClearMarker, B!Lost, B!Retry,
             B!Restart, B!Disconnect, B!AskAgain, B!GameExits, B!vars
    <2>2. QED
      BY <2>1
  <1>2. /\ step["client"] = "hello" /\ B!Compatible
        /\ UNCHANGED <<live, release>>
    BY <1>1 DEF B!Hello, B!At, B!Memory, B!gameVars
  <1>3. ~marker
    BY <1>2 DEF ReloadInv, MarkerForces, Late, B!Connecting
  <1>4. \A m \in B!Modules : live[m] \in {release["client"], None}
    BY <1>2, <1>3
    DEF SourceInv, UnmarkedKnown, Known, DiskInv, InstalledOwn, Late, B!Connecting
  <1>5. live[B!Control] # None /\ \A m \in B!Modules : m > 2 => live[m] # None
    BY <1>2 DEF B!Compatible, B!Published, SourceInv, ActiveLive
  <1>6. \A m \in B!Modules : m = B!Control \/ m = B!Diagnostics \/ m > 2
    BY DEF B!Modules, B!Control, B!Diagnostics, BridgeAssumption, B!BoundAssumption
  <1>7. QED
    BY <1>2, <1>4, <1>5, <1>6

\* When the client calls the bridge ready, the game runs its release, although
\* its snapshot shows a contract only, which two releases may share.
THEOREM ReadyCurrent ==
    ASSUME OwnInstaller, BridgeAssumption
    PROVE  B!Spec => ReadyIsCurrent
  <1>1. BridgeInv /\ [B!Next]_(B!vars) =>
          [~ready /\ ready' =>
             \A m \in B!Modules :
                 \/ live'[m] = release'["client"]
                 \/ m = B!Diagnostics /\ live'[m] = None]_(B!vars)
    <2>1. SUFFICES ASSUME BridgeInv, [B!Next]_(B!vars), ~ready, ready'
                   PROVE  \A m \in B!Modules :
                              \/ live'[m] = release'["client"]
                              \/ m = B!Diagnostics /\ live'[m] = None
      OBVIOUS
    <2>2. QED
      BY <2>1, HelloCurrent
  <1>2. QED
    BY <1>1, BridgeInvariant, PTL DEF B!Spec, ReadyIsCurrent, B!ReadyIsCurrent
=============================================================================
