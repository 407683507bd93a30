------------------------- MODULE BootControlProofs -------------------------
(***************************************************************************)
(* Proofs of the safety properties of BootControl, for any number of       *)
(* slots, updates, changes of slot and faults.                             *)
(***************************************************************************)
EXTENDS BootControl, TLAPS

\* A slot that is about to be marked has been verified.
MarkedIsVerified ==
    Trusted /\ what = "android" /\ step = "mark" => image[current_slot] = "good"

\* Only a table that was overwritten fails its CRC.
InvalidIsLost == valid \/ corrupted

\* No other slot has the priority of the one last set active.
ActiveIsAlone ==
    active # -1 /\ ~corrupted =>
        /\ slot_info[active].priority = kActivePriority
        /\ \A s \in Slot \ {active} : slot_info[s].priority < kActivePriority

\* The inductive invariant.
IInv == /\ TypeOK
        /\ SuccessfulIsGood /\ SuccessfulIsBootable /\ GoodSlotBootable
        /\ MarkedIsVerified /\ InvalidIsLost /\ ActiveIsAlone

\* An entry of the table.
SlotInfo == [priority : 0 .. kActivePriority, tries_remaining : 0 .. 7, successful_boot : 0 .. 1]

-----------------------------------------------------------------------------
(* The operations on the table.                                            *)

\* A table made anew is well-formed, and its one successful slot can be booted.
LEMMA InitDefaultTable ==
    ASSUME NEW c \in Slot \cup {-1}
    PROVE  /\ InitDefault(c) \in [Slot -> SlotInfo]
           /\ \A s \in Slot : InitDefault(c)[s].tries_remaining > 0
           /\ \A s \in Slot : InitDefault(c)[s].successful_boot = 1 => s = c
           /\ c \in Slot => InitDefault(c)[c].successful_boot = 1
  BY ConstantsOK DEF InitDefault, SlotInfo

\* setActiveBootSlot gives s the highest priority and new tries, takes that priority
\* from the others, and leaves the rest of the table alone.
LEMMA SetActiveTable ==
    ASSUME NEW old \in [Slot -> SlotInfo], NEW s \in Slot
    PROVE  /\ SetActive(old, s) \in [Slot -> SlotInfo]
           /\ SetActive(old, s)[s].priority = kActivePriority
           /\ SetActive(old, s)[s].tries_remaining > 0
           /\ SetActive(old, s)[s].successful_boot = old[s].successful_boot
           /\ \A t \in Slot \ {s} :
                 /\ SetActive(old, s)[t].priority < kActivePriority
                 /\ SetActive(old, s)[t].tries_remaining = old[t].tries_remaining
                 /\ SetActive(old, s)[t].successful_boot = old[t].successful_boot
  <1>1. /\ SetActive(old, s)[s] \in SlotInfo
        /\ SetActive(old, s)[s].priority = kActivePriority
        /\ SetActive(old, s)[s].tries_remaining > 0
        /\ SetActive(old, s)[s].successful_boot = old[s].successful_boot
    <2>1. old[s] \in SlotInfo
      OBVIOUS
    <2>2. SetActive(old, s)[s] = [old[s] EXCEPT !.priority = kActivePriority,
                                               !.tries_remaining = kActiveTries]
      BY DEF SetActive
    <2>3. SetActive(old, s)[s] = [priority |-> kActivePriority, tries_remaining |-> kActiveTries,
                                  successful_boot |-> old[s].successful_boot]
      BY Zenon, <2>1, <2>2 DEF SlotInfo
    <2>4. old[s].successful_boot \in 0 .. 1
      BY <2>1 DEF SlotInfo
    <2> QED BY <2>3, ConstantsOK DEF SlotInfo
  <1>2. ASSUME NEW t \in Slot \ {s}
        PROVE  /\ SetActive(old, s)[t] \in SlotInfo
               /\ SetActive(old, s)[t].priority < kActivePriority
               /\ SetActive(old, s)[t].tries_remaining = old[t].tries_remaining
               /\ SetActive(old, s)[t].successful_boot = old[t].successful_boot
    <2>1. old[t] \in SlotInfo
      OBVIOUS
    <2>2. CASE old[t].priority >= kActivePriority
      BY <2>2, ConstantsOK DEF SetActive, SlotInfo
    <2>3. CASE ~(old[t].priority >= kActivePriority)
      BY <2>3, ConstantsOK DEF SetActive, SlotInfo
    <2> QED BY Zenon, <2>2, <2>3
  <1>3. SetActive(old, s) \in [Slot -> SlotInfo]
    <2>1. \A t \in Slot : SetActive(old, s)[t] \in SlotInfo
      BY Zenon, <1>1, <1>2
    <2> QED BY Zenon, <2>1 DEF SetActive
  <1> QED BY Zenon, <1>1, <1>2, <1>3

\* The table the bootloader works on is the one that is stored, if that is valid.
LEMMA RepairedTable ==
    ASSUME IInv
    PROVE  /\ Repaired \in [Slot -> SlotInfo]
           /\ valid => Repaired = slot_info
           /\ ~corrupted => Repaired = slot_info
           /\ \A s \in Slot : Repaired[s].successful_boot = 1 => Repaired[s].tries_remaining > 0
  <1>1. InitDefault(-1) \in [Slot -> SlotInfo]
        /\ \A s \in Slot : InitDefault(-1)[s].tries_remaining > 0
    BY Zenon, InitDefaultTable
  <1> QED BY Zenon, <1>1 DEF IInv, TypeOK, InvalidIsLost, Repaired, SlotInfo,
             SuccessfulIsBootable, isSlotBootable

\* Likewise for the table the HAL starts from.
LEMMA InitializedTable ==
    ASSUME IInv
    PROVE  /\ Initialized \in [Slot -> SlotInfo]
           /\ ~Replaced => Initialized = slot_info
           /\ ~corrupted => ~Replaced
           /\ \A s \in Slot :
                 Initialized[s].successful_boot = 1 => Initialized[s].tries_remaining > 0
  <1>1. InitDefault(current_slot) \in [Slot -> SlotInfo]
        /\ \A s \in Slot : InitDefault(current_slot)[s].tries_remaining > 0
    BY Zenon, InitDefaultTable DEF IInv, TypeOK
  <1> QED BY Zenon, <1>1 DEF IInv, TypeOK, InvalidIsLost, Initialized, Replaced, SlotInfo,
             SuccessfulIsBootable, isSlotBootable

\* The table with a new entry for s, of the same priority.
Entry(old, s, good, tries) ==
    [old EXCEPT ![s].successful_boot = good, ![s].tries_remaining = tries]

\* One entry changes and keeps its priority.
LEMMA OneEntryTable ==
    ASSUME NEW old \in [Slot -> SlotInfo], NEW s \in Slot,
           NEW tries \in 0 .. 7, NEW good \in 0 .. 1,
           NEW new, new = Entry(old, s, good, tries)
    PROVE  /\ new \in [Slot -> SlotInfo]
           /\ new[s].priority = old[s].priority
           /\ new[s].tries_remaining = tries /\ new[s].successful_boot = good
           /\ \A t \in Slot \ {s} : new[t] = old[t]
  <1>1. old[s] \in SlotInfo
    OBVIOUS
  <1>2. new[s] = [priority |-> old[s].priority, tries_remaining |-> tries,
                  successful_boot |-> good]
    BY Zenon, <1>1 DEF SlotInfo, Entry
  <1>3. new[s] \in SlotInfo
    BY <1>1, <1>2 DEF SlotInfo
  <1>4. new = [t \in Slot |-> new[t]]
    BY Zenon DEF Entry
  <1>5. \A t \in Slot \ {s} : new[t] = old[t]
    BY Zenon DEF Entry
  <1>6. \A t \in Slot : new[t] \in SlotInfo
    BY Zenon, <1>3, <1>5
  <1>7. new \in [Slot -> SlotInfo]
    BY Zenon, <1>4, <1>6
  <1> QED BY <1>2, <1>5, <1>7

\* The bootloader counts an attempt: only the tries of s change.
LEMMA CountedTable ==
    ASSUME NEW old \in [Slot -> SlotInfo], NEW s \in Slot, old[s].tries_remaining > 0,
           NEW new, new = [old EXCEPT ![s].tries_remaining = @ - 1]
    PROVE  /\ new \in [Slot -> SlotInfo]
           /\ new[s].priority = old[s].priority
           /\ new[s].successful_boot = old[s].successful_boot
           /\ \A t \in Slot \ {s} : new[t] = old[t]
  <1>1. old[s] \in SlotInfo
    OBVIOUS
  <1>2. new[s] = [priority |-> old[s].priority, tries_remaining |-> old[s].tries_remaining - 1,
                  successful_boot |-> old[s].successful_boot]
    BY Zenon, <1>1 DEF SlotInfo
  <1>3. new[s] \in SlotInfo
    BY <1>1, <1>2 DEF SlotInfo
  <1>4. new = [t \in Slot |-> new[t]]
    BY Zenon
  <1>5. \A t \in Slot \ {s} : new[t] = old[t]
    OBVIOUS
  <1>6. new \in [Slot -> SlotInfo]
    BY Zenon, <1>3, <1>4, <1>5
  <1> QED BY Zenon, <1>2, <1>5, <1>6

-----------------------------------------------------------------------------
\* The device starts with one slot in good order.
LEMMA InitIInv == Init => IInv
  <1> SUFFICES ASSUME Init PROVE IInv
    OBVIOUS
  <1>1. 0 \in Slot
    BY ConstantsOK DEF Slot
  <1>2. TypeOK
    BY Zenon, <1>1, InitDefaultTable DEF Init, TypeOK, SlotInfo
  <1>3. /\ \A s \in Slot : slot_info[s].tries_remaining > 0
        /\ \A s \in Slot : slot_info[s].successful_boot = 1 => s = 0
        /\ slot_info[0].successful_boot = 1
    BY Zenon, <1>1, InitDefaultTable DEF Init
  <1>4. SuccessfulIsGood /\ SuccessfulIsBootable /\ GoodSlotBootable
    BY Zenon, <1>1, <1>3 DEF Init, SuccessfulIsGood, SuccessfulIsBootable, GoodSlotBootable,
       isSlotMarkedSuccessful, isSlotBootable
  <1>5. MarkedIsVerified /\ InvalidIsLost /\ ActiveIsAlone
    BY DEF Init, MarkedIsVerified, InvalidIsLost, ActiveIsAlone
  <1> QED BY <1>2, <1>4, <1>5 DEF IInv

\* A step that leaves the table and the contents of the slots alone.
LEMMA SameTable ==
    ASSUME IInv, UNCHANGED <<case, image, corrupted, table>>, TypeOK', MarkedIsVerified'
    PROVE  IInv'
  <1>1. SuccessfulIsGood' /\ SuccessfulIsBootable' /\ GoodSlotBootable'
    BY Zenon DEF IInv, table, SuccessfulIsGood, SuccessfulIsBootable, GoodSlotBootable, Trusted,
       isSlotMarkedSuccessful, isSlotBootable
  <1>2. InvalidIsLost' /\ ActiveIsAlone'
    BY Zenon DEF IInv, table, InvalidIsLost, ActiveIsAlone
  <1> QED BY Zenon, <1>1, <1>2 DEF IInv

\* The bootloader starts a system: it never takes a try from a successful slot.
LEMMA BootStep ==
    ASSUME IInv, NEW s \in Slot, NEW into \in {"android", "recovery"}, Boot(s, into)
    PROVE  IInv'
  <1>1. /\ Repaired \in [Slot -> SlotInfo] /\ (~corrupted => Repaired = slot_info)
        /\ \A t \in Slot : Repaired[t].successful_boot = 1 => Repaired[t].tries_remaining > 0
    BY Zenon, RepairedTable
  <1>2. Repaired[s].tries_remaining > 0
    BY Zenon DEF Boot, Candidates
  <1>3. /\ slot_info' \in [Slot -> SlotInfo]
        /\ \A t \in Slot : /\ slot_info'[t].priority = Repaired[t].priority
                           /\ slot_info'[t].successful_boot = Repaired[t].successful_boot
                           /\ Repaired[t].successful_boot = 1
                                 => slot_info'[t].tries_remaining = Repaired[t].tries_remaining
    <2>1. CASE into = "recovery" \/ Repaired[s].successful_boot = 1
      BY Zenon, <1>1, <2>1 DEF Boot
    <2>2. CASE ~(into = "recovery" \/ Repaired[s].successful_boot = 1)
      <3>1. slot_info' = [Repaired EXCEPT ![s].tries_remaining = @ - 1]
        BY Zenon, <2>2 DEF Boot
      <3>2. /\ slot_info' \in [Slot -> SlotInfo]
            /\ slot_info'[s].priority = Repaired[s].priority
            /\ slot_info'[s].successful_boot = Repaired[s].successful_boot
            /\ \A t \in Slot \ {s} : slot_info'[t] = Repaired[t]
        BY <1>1, <1>2, <3>1, CountedTable
      <3> QED BY Zenon, <2>2, <3>2
    <2> QED BY Zenon, <2>1, <2>2
  <1>4. UNCHANGED <<case, image, corrupted>> /\ valid' = TRUE
    BY Zenon DEF Boot, world
  <1>5. TypeOK'
    BY Zenon, <1>3 DEF IInv, TypeOK, Boot, world, SlotInfo
  <1>6. SuccessfulIsBootable'
    BY Zenon, <1>1, <1>3 DEF SuccessfulIsBootable, isSlotBootable
  <1>7. SuccessfulIsGood'
    BY Zenon, <1>1, <1>3, <1>4 DEF IInv, SuccessfulIsGood, Trusted, isSlotMarkedSuccessful,
       isSlotBootable
  <1>8. GoodSlotBootable'
    BY Zenon, <1>1, <1>3, <1>4 DEF IInv, GoodSlotBootable, Trusted, isSlotMarkedSuccessful
  <1>9. MarkedIsVerified' /\ InvalidIsLost'
    BY Zenon, <1>4 DEF Boot, MarkedIsVerified, InvalidIsLost
  <1>10. ActiveIsAlone'
    <2> SUFFICES ASSUME active' # -1, ~corrupted'
                 PROVE  /\ slot_info'[active'].priority = kActivePriority
                        /\ \A t \in Slot \ {active'} : slot_info'[t].priority < kActivePriority
      BY Zenon DEF ActiveIsAlone
    <2>1. active' = active /\ active \in Slot
      BY Zenon DEF IInv, TypeOK, Boot
    <2> QED BY Zenon, <1>1, <1>3, <1>4, <2>1 DEF IInv, ActiveIsAlone
  <1> QED BY Zenon, <1>5, <1>6, <1>7, <1>8, <1>9, <1>10 DEF IInv

\* The HAL looks at the table: one that was lost is replaced, another is kept.
LEMMA LazyInitializationStep ==
    ASSUME IInv, LazyInitialization
    PROVE  IInv'
  <1>1. /\ slot_info' \in [Slot -> SlotInfo]
        /\ ~corrupted => slot_info' = slot_info /\ active' = active
        /\ \A t \in Slot : slot_info'[t].successful_boot = 1 => slot_info'[t].tries_remaining > 0
    BY Zenon, InitializedTable DEF LazyInitialization
  <1>2. UNCHANGED <<case, image, corrupted>> /\ (valid => valid') /\ step' = "check"
    BY Zenon DEF LazyInitialization, world, Replaced
  <1>3. TypeOK'
    BY Zenon, <1>1 DEF IInv, TypeOK, LazyInitialization, world, SlotInfo
  <1>4. SuccessfulIsBootable'
    BY <1>1 DEF SuccessfulIsBootable, isSlotBootable
  <1>5. SuccessfulIsGood' /\ GoodSlotBootable'
    BY Zenon, <1>1, <1>2 DEF IInv, SuccessfulIsGood, GoodSlotBootable, Trusted,
       isSlotMarkedSuccessful
  <1>6. MarkedIsVerified' /\ InvalidIsLost' /\ ActiveIsAlone'
    BY Zenon, <1>1, <1>2 DEF IInv, MarkedIsVerified, InvalidIsLost, ActiveIsAlone
  <1> QED BY Zenon, <1>3, <1>4, <1>5, <1>6 DEF IInv

\* update_verifier marks the slot that runs: it was verified, and gets a try.
LEMMA MarkStep ==
    ASSUME IInv, MarkBootSuccessful
    PROVE  IInv'
  <1>1. slot_info \in [Slot -> SlotInfo] /\ current_slot \in Slot
    BY Zenon DEF IInv, TypeOK, SlotInfo
  <1>2. slot_info' = Entry(slot_info, current_slot, 1, 1)
    BY DEF MarkBootSuccessful, MarkedSuccessful, Entry
  <1>3. /\ slot_info' \in [Slot -> SlotInfo]
        /\ slot_info'[current_slot].priority = slot_info[current_slot].priority
        /\ slot_info'[current_slot].tries_remaining = 1
        /\ slot_info'[current_slot].successful_boot = 1
        /\ \A t \in Slot \ {current_slot} : slot_info'[t] = slot_info[t]
    BY <1>1, <1>2, OneEntryTable
  <1>4. UNCHANGED <<case, image, corrupted, active, current_slot>> /\ valid' = TRUE
        /\ step' = "done"
    BY DEF MarkBootSuccessful, world, session
  <1>5. TypeOK'
    BY Zenon, <1>3 DEF IInv, TypeOK, MarkBootSuccessful, world, session, SlotInfo
  <1>6. SuccessfulIsBootable'
    BY <1>3 DEF IInv, SuccessfulIsBootable, isSlotBootable
  <1>7. SuccessfulIsGood'
    BY Zenon, <1>3, <1>4 DEF IInv, SuccessfulIsGood, MarkedIsVerified, MarkBootSuccessful,
       Trusted, isSlotMarkedSuccessful
  <1>8. GoodSlotBootable'
    BY <1>1, <1>3, <1>4 DEF IInv, GoodSlotBootable, Trusted, isSlotMarkedSuccessful
  <1>9. MarkedIsVerified' /\ InvalidIsLost'
    BY <1>4 DEF MarkedIsVerified, InvalidIsLost
  <1>10. ActiveIsAlone'
    BY Zenon, <1>1, <1>3, <1>4 DEF IInv, TypeOK, ActiveIsAlone
  <1> QED BY Zenon, <1>5, <1>6, <1>7, <1>8, <1>9, <1>10 DEF IInv

\* An update begins: its slot cannot be booted any more, and the one that runs is good.
LEMMA BeginUpdateStep ==
    ASSUME IInv, NEW s \in Slot, BeginUpdate(s)
    PROVE  IInv'
  <1>1. slot_info \in [Slot -> SlotInfo] /\ current_slot \in Slot
        /\ image \in [Slot -> {"good", "bad"}]
    BY Zenon DEF IInv, TypeOK, SlotInfo
  <1>2. slot_info' = Entry(slot_info, s, 0, 0)
    BY Zenon DEF BeginUpdate, SetUnbootable, Entry
  <1>3. /\ slot_info' \in [Slot -> SlotInfo]
        /\ slot_info'[s].priority = slot_info[s].priority
        /\ slot_info'[s].tries_remaining = 0 /\ slot_info'[s].successful_boot = 0
        /\ \A t \in Slot \ {s} : slot_info'[t] = slot_info[t]
    <2>1. slot_info \in [Slot -> SlotInfo]
      BY Zenon, <1>1
    <2> QED BY <1>2, <2>1, OneEntryTable
  <1>4. /\ UNCHANGED <<case, corrupted, active, valid, current_slot, what, step>>
        /\ s # current_slot /\ isSlotMarkedSuccessful(current_slot)
        /\ \A t \in Slot \ {s} : image'[t] = image[t]
        /\ ~(what = "android" /\ step = "mark")
    BY Zenon, <1>1 DEF BeginUpdate, session, Running
  <1>5. TypeOK'
    BY Zenon, <1>1, <1>3 DEF IInv, TypeOK, BeginUpdate, session, SlotInfo
  <1>6. SuccessfulIsBootable'
    BY <1>3 DEF IInv, SuccessfulIsBootable, isSlotBootable
  <1>7. SuccessfulIsGood'
    BY <1>3, <1>4 DEF IInv, SuccessfulIsGood, Trusted, isSlotMarkedSuccessful
  <1>8. GoodSlotBootable'
    BY <1>1, <1>3, <1>4 DEF IInv, GoodSlotBootable, SuccessfulIsGood, Trusted,
                            isSlotMarkedSuccessful
  <1>9. MarkedIsVerified' /\ InvalidIsLost'
    BY Zenon, <1>4 DEF IInv, MarkedIsVerified, InvalidIsLost
  <1>10. ActiveIsAlone'
    BY Zenon, <1>1, <1>3, <1>4 DEF IInv, TypeOK, ActiveIsAlone
  <1> QED BY Zenon, <1>5, <1>6, <1>7, <1>8, <1>9, <1>10 DEF IInv

\* An update ends: its slot could not be booted, so it was not marked successful.
LEMMA EndUpdateStep ==
    ASSUME IInv, NEW s \in Slot, EndUpdate(s)
    PROVE  IInv'
  <1>1. slot_info \in [Slot -> SlotInfo] /\ image \in [Slot -> {"good", "bad"}]
    BY Zenon DEF IInv, TypeOK, SlotInfo
  <1>2. slot_info' = SetActive(slot_info, s)
    BY DEF EndUpdate
  <1>3. /\ slot_info' \in [Slot -> SlotInfo]
        /\ slot_info'[s].priority = kActivePriority
        /\ slot_info'[s].tries_remaining > 0
        /\ slot_info'[s].successful_boot = slot_info[s].successful_boot
        /\ \A t \in Slot \ {s} :
              /\ slot_info'[t].priority < kActivePriority
              /\ slot_info'[t].tries_remaining = slot_info[t].tries_remaining
              /\ slot_info'[t].successful_boot = slot_info[t].successful_boot
    BY <1>1, <1>2, SetActiveTable
  <1>4. /\ UNCHANGED <<case, corrupted, current_slot, what, step>>
        /\ valid' = TRUE /\ active' = s /\ ~isSlotBootable(s)
        /\ image' \in [Slot -> {"good", "bad"}]
        /\ \A t \in Slot \ {s} : image'[t] = image[t]
        /\ ~(what = "android" /\ step = "mark")
    BY Zenon, <1>1 DEF EndUpdate, session, Running
  <1>5. slot_info[s].successful_boot # 1
    BY Zenon, <1>4 DEF IInv, SuccessfulIsBootable
  <1>6. TypeOK'
    BY Zenon, <1>3, <1>4 DEF IInv, TypeOK, EndUpdate, session, SlotInfo
  <1>7. SuccessfulIsBootable'
    BY Zenon, <1>3 DEF IInv, SuccessfulIsBootable, isSlotBootable
  <1>8. SuccessfulIsGood'
    BY Zenon, <1>3, <1>4, <1>5 DEF IInv, SuccessfulIsGood, Trusted, isSlotMarkedSuccessful
  <1>9. GoodSlotBootable'
    BY Zenon, <1>3, <1>4, <1>5 DEF IInv, GoodSlotBootable, Trusted, isSlotMarkedSuccessful
  <1>10. MarkedIsVerified' /\ InvalidIsLost' /\ ActiveIsAlone'
    BY Zenon, <1>3, <1>4 DEF MarkedIsVerified, InvalidIsLost, ActiveIsAlone
  <1> QED BY Zenon, <1>6, <1>7, <1>8, <1>9, <1>10 DEF IInv

\* The user sets a slot active: what was successful stays so.
LEMMA SetActiveSlotStep ==
    ASSUME IInv, NEW s \in Slot, Set_Active_Slot(s)
    PROVE  IInv'
  <1>1. /\ Initialized \in [Slot -> SlotInfo] /\ (~corrupted => Initialized = slot_info)
        /\ (~corrupted => ~Replaced)
        /\ \A t \in Slot : Initialized[t].successful_boot = 1 => Initialized[t].tries_remaining > 0
    BY Zenon, InitializedTable
  <1>2. /\ UNCHANGED <<case, image, corrupted, update, what, current_slot, step>>
        /\ display' = s /\ initialized' = TRUE /\ what = "recovery"
    BY Zenon DEF Set_Active_Slot
  <1>3. CASE slot_info' = SetActive(Initialized, s) /\ valid' = TRUE /\ active' = s
    <2>1. /\ slot_info' \in [Slot -> SlotInfo]
          /\ slot_info'[s].priority = kActivePriority
          /\ slot_info'[s].tries_remaining > 0
          /\ slot_info'[s].successful_boot = Initialized[s].successful_boot
          /\ \A t \in Slot \ {s} :
                /\ slot_info'[t].priority < kActivePriority
                /\ slot_info'[t].tries_remaining = Initialized[t].tries_remaining
                /\ slot_info'[t].successful_boot = Initialized[t].successful_boot
      BY Zenon, <1>1, <1>3, SetActiveTable
    <2>2. TypeOK'
      BY Zenon, <1>2, <1>3, <2>1 DEF IInv, TypeOK, SlotInfo
    <2>3. SuccessfulIsBootable'
      BY Zenon, <1>1, <2>1 DEF SuccessfulIsBootable, isSlotBootable
    <2>4. SuccessfulIsGood'
      BY Zenon, <1>1, <1>2, <2>1 DEF IInv, SuccessfulIsGood, Trusted, isSlotMarkedSuccessful
    <2>5. GoodSlotBootable'
      BY Zenon, <1>1, <1>2, <2>1 DEF IInv, GoodSlotBootable, Trusted, isSlotMarkedSuccessful
    <2>6. MarkedIsVerified' /\ InvalidIsLost' /\ ActiveIsAlone'
      BY Zenon, <1>2, <1>3, <2>1 DEF MarkedIsVerified, InvalidIsLost, ActiveIsAlone
    <2> QED BY Zenon, <2>2, <2>3, <2>4, <2>5, <2>6 DEF IInv
  <1>4. CASE UNCHANGED table
    <2>1. TypeOK' /\ MarkedIsVerified'
      BY Zenon, <1>2, <1>4 DEF IInv, TypeOK, table, MarkedIsVerified
    <2> QED BY Zenon, <1>2, <1>4, <2>1, SameTable
  <1>5. CASE Replaced /\ slot_info' = Initialized /\ valid' = TRUE /\ active' = -1
    <2>1. TypeOK'
      BY Zenon, <1>1, <1>2, <1>5 DEF IInv, TypeOK, SlotInfo
    <2>2. SuccessfulIsBootable'
      BY Zenon, <1>1, <1>5 DEF SuccessfulIsBootable, isSlotBootable
    <2>3. corrupted'
      BY Zenon, <1>1, <1>2, <1>5
    <2> QED BY Zenon, <2>1, <2>2, <2>3 DEF IInv, SuccessfulIsGood, GoodSlotBootable, Trusted,
               MarkedIsVerified, InvalidIsLost, ActiveIsAlone
  <1> QED BY Zenon, <1>3, <1>4, <1>5 DEF Set_Active_Slot

\* The table is overwritten: nothing is promised of it any more.
LEMMA CorruptStep ==
    ASSUME IInv, Corrupt
    PROVE  IInv'
  <1>1. slot_info' \in [Slot -> SlotInfo] /\ \A s \in Slot : slot_info'[s].successful_boot = 0
    BY ConstantsOK DEF Corrupt, SlotInfo
  <1>2. TypeOK'
    BY Zenon, <1>1 DEF IInv, TypeOK, Corrupt, session, SlotInfo
  <1>3. SuccessfulIsBootable'
    BY <1>1 DEF SuccessfulIsBootable
  <1>4. corrupted'
    BY Zenon DEF Corrupt
  <1> QED BY Zenon, <1>2, <1>3, <1>4 DEF IInv, SuccessfulIsGood, GoodSlotBootable, Trusted,
             MarkedIsVerified, InvalidIsLost, ActiveIsAlone

\* The system goes off.
LEMMA OffStep ==
    ASSUME IInv, Off
    PROVE  IInv'
  <1>1. UNCHANGED <<case, image, corrupted, table>>
    BY DEF Off
  <1>2. TypeOK' /\ MarkedIsVerified'
    BY Zenon DEF IInv, TypeOK, Off, table, MarkedIsVerified
  <1> QED BY Zenon, <1>1, <1>2, SameTable

\* update_verifier decides: it marks what it has verified, or what it is told to skip.
LEMMA VerifierStep ==
    ASSUME IInv, CheckBooted \/ Verify \/ MarkFails \/ NothingToBoot
                 \/ NoModule \/ CheckFails \/ RebootFails
    PROVE  IInv'
  <1>1. UNCHANGED <<case, image, corrupted, table>>
    BY Zenon DEF CheckBooted, Verify, MarkFails, NothingToBoot, NoModule, CheckFails, RebootFails,
       world
  <1>2. TypeOK'
    BY Zenon DEF IInv, TypeOK, CheckBooted, Verify, MarkFails, NothingToBoot, NoModule,
       CheckFails, RebootFails, world, table, session
  <1>3. MarkedIsVerified'
    <2>1. CASE CheckBooted
      <3>1. step' = "mark" => case.verity = "disabled"
        BY <2>1 DEF CheckBooted
      <3> QED BY Zenon, <1>1, <3>1 DEF MarkedIsVerified, Trusted
    <2>2. CASE Verify
      <3>1. step' = "mark" => VerifyImage
        BY <2>2 DEF Verify
      <3>2. case.care \in {"full", "none", "malformed"}
        BY Zenon, ConstantsOK DEF IInv, TypeOK, CaseOK
      <3>3. VerifyImage => case.care = "none" \/ image[current_slot] = "good"
        BY Zenon, <3>2 DEF VerifyImage
      <3>4. current_slot' = current_slot
        BY <2>2 DEF Verify, session
      <3> QED BY Zenon, <1>1, <3>1, <3>3, <3>4 DEF MarkedIsVerified, Trusted
    <2>3. CASE MarkFails
      BY Zenon, <2>3 DEF MarkFails, MarkedIsVerified
    <2>4. CASE NothingToBoot
      BY <2>4 DEF NothingToBoot, MarkedIsVerified
    <2>5. CASE NoModule
      BY Zenon, <2>5 DEF NoModule, MarkedIsVerified
    <2>6. CASE CheckFails
      BY Zenon, <2>6 DEF CheckFails, MarkedIsVerified
    <2>7. CASE RebootFails
      BY Zenon, <2>7 DEF RebootFails, MarkedIsVerified
    <2> QED BY Zenon, <2>1, <2>2, <2>3, <2>4, <2>5, <2>6, <2>7
  <1> QED BY Zenon, <1>1, <1>2, <1>3, SameTable

\* Every step keeps the invariant.
LEMMA NextIInv == IInv /\ [Next]_vars => IInv'
  <1> SUFFICES ASSUME IInv, [Next]_vars PROVE IInv'
    OBVIOUS
  <1>1. ASSUME NEW s \in Slot, NEW into \in {"android", "recovery"}, Boot(s, into) PROVE IInv'
    BY <1>1, BootStep
  <1>2. CASE LazyInitialization
    BY <1>2, LazyInitializationStep
  <1>3. CASE CheckBooted \/ Verify \/ MarkFails \/ NothingToBoot
             \/ NoModule \/ CheckFails \/ RebootFails
    BY <1>3, VerifierStep
  <1>4. CASE MarkBootSuccessful
    BY <1>4, MarkStep
  <1>5. CASE RebootDevice \/ BootFails \/ Reboot
    BY Zenon, <1>5, OffStep DEF RebootDevice, BootFails, Reboot
  <1>6. ASSUME NEW s \in Slot, BeginUpdate(s) PROVE IInv'
    BY <1>6, BeginUpdateStep
  <1>7. ASSUME NEW s \in Slot, EndUpdate(s) PROVE IInv'
    BY <1>7, EndUpdateStep
  <1>8. ASSUME NEW s \in Slot, Set_Active_Slot(s) PROVE IInv'
    BY Zenon, <1>8, SetActiveSlotStep
  <1>9. CASE Corrupt
    BY <1>9, CorruptStep
  <1>10. CASE UNCHANGED vars
    <2>1. UNCHANGED <<case, image, corrupted, table>>
      BY <1>10 DEF vars, world
    <2>2. TypeOK' /\ MarkedIsVerified'
      BY Zenon, <1>10 DEF IInv, TypeOK, MarkedIsVerified, Trusted, vars, world, table, session
    <2> QED BY Zenon, <2>1, <2>2, SameTable
  <1> QED BY Zenon, <1>1, <1>2, <1>3, <1>4, <1>5, <1>6, <1>7, <1>8, <1>9, <1>10 DEF Next,
             Bootloader, Verifier

\* The invariant holds of the slot table in every state the device comes to.
LEMMA Invariance == Spec => []IInv
  BY InitIInv, NextIInv, PTL DEF Spec

-----------------------------------------------------------------------------
\* The slot table keeps its ranges: priorities and tries fit their bit fields.
THEOREM TypeCorrect == Spec => []TypeOK
  <1>1. IInv => TypeOK
    BY DEF IInv
  <1> QED BY <1>1, Invariance, PTL

\* What is marked successful was verified, however updates, changes of slot, failed
\* boots and reboots are interleaved.
THEOREM SuccessfulSlotsAreGood == Spec => []SuccessfulIsGood
  <1>1. IInv => SuccessfulIsGood
    BY DEF IInv
  <1> QED BY <1>1, Invariance, PTL

\* What is marked successful can be booted.
THEOREM SuccessfulSlotsAreBootable == Spec => []SuccessfulIsBootable
  <1>1. IInv => SuccessfulIsBootable
    BY DEF IInv
  <1> QED BY <1>1, Invariance, PTL

\* There always is a good system to go back to.
THEOREM AGoodSlotIsBootable == Spec => []GoodSlotBootable
  <1>1. IInv => GoodSlotBootable
    BY DEF IInv
  <1> QED BY <1>1, Invariance, PTL

\* The slot last set active is the only one the bootloader considers.
THEOREM TheActiveSlotIsNext == Spec => []ActiveSlotIsNext
  <1>1. IInv => ActiveSlotIsNext
    <2> SUFFICES ASSUME IInv, active # -1, valid, ~corrupted, isSlotBootable(active)
                 PROVE  Candidates = {active}
      BY DEF ActiveSlotIsNext
    <2>1. active \in Slot /\ Repaired = slot_info
      BY Zenon DEF IInv, TypeOK, Repaired
    <2>2. /\ slot_info[active].priority = kActivePriority
          /\ \A s \in Slot \ {active} : slot_info[s].priority < kActivePriority
      BY Zenon DEF IInv, ActiveIsAlone
    <2>3. \A s \in Slot : slot_info[s].priority \in Nat
      BY DEF IInv, TypeOK
    <2> QED BY <2>1, <2>2, <2>3 DEF Candidates, isSlotBootable
  <1> QED BY <1>1, Invariance, PTL
=============================================================================
