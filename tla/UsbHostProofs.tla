---------------------------- MODULE UsbHostProofs ----------------------------
(***************************************************************************)
(* Proofs about init_usb (UsbHost), for every device list: any number of   *)
(* devices and endpoints, as many interfaces as a descriptor can count     *)
(* (more than endp_list has cells), any drivers, any failing call.         *)
(***************************************************************************)
EXTENDS UsbHost, SequenceTheorems, FiniteSetTheorems, WellFoundedInduction, TLAPS

-----------------------------------------------------------------------------
(* The inductive invariant.                                                *)

Open == {"active", "detach", "config", "save", "ready"}

\* From the opening on, the handle is that of the first readable device of
\* the product and the list is freed.
Found ==
  pc \in Open => ~listed /\ handle \in DOMAIN list /\ list[handle].product = ID_PRODUCT

\* What has been claimed so far, as long as the device is there.
ClaimedSoFar ==
  /\ pc \in {"init", "list", "device", "active", "detach", "config"} => claimed = {}
  /\ pc = "save" => i <= Len(Interfaces) + 1
  /\ (pc = "save" /\ plugged) => configured /\ claimed = 1..(i - 1)
  /\ (pc = "ready" /\ plugged) => configured /\ claimed = 1..Len(Interfaces)
  /\ claimed \cap kernel = {}

\* The endpoint of interface n has its place, unless the array is full.
InPlace(n) ==
  (Interrupt(Interfaces[n]) # {} /\ Rank(n) <= ENDP_MAX)
    => /\ Rank(n) \in 1..Len(endp_list)
       /\ \E k \in Interrupt(Interfaces[n]) : endp_list[Rank(n)] = Interfaces[n][k]

\* The list holds one entry for each interface seen that has an interrupt
\* endpoint, until it is full.
SavedSoFar ==
  /\ pc = "save" => Len(endp_list) = IF Rank(i - 1) <= ENDP_MAX THEN Rank(i - 1) ELSE ENDP_MAX
  /\ pc = "save" => \A n \in 1..(i - 1) : InPlace(n)
  /\ pc = "ready" => \A n \in 1..Len(Interfaces) : InPlace(n)
  /\ pc \notin {"save", "ready", "exit", "crash"} => endp_list = <<>>

\* Without a fault the devices skipped are other products, and the drivers
\* of the interfaces seen are detached; a device without a configuration has
\* none.
Blameless ==
  ~fault =>
    /\ plugged
    /\ pc \in {"init", "list"} => i = 1
    /\ pc = "device" => \A n \in 1..(i - 1) : n \in DOMAIN list => list[n].product # ID_PRODUCT
    /\ pc \in Open => \A n \in 1..(handle - 1) : list[n].product # ID_PRODUCT
    /\ pc = "active" => kernel \subseteq DOMAIN Interfaces /\ (~configured => kernel = {})
    /\ pc = "detach" => \A n \in kernel : n \in DOMAIN Interfaces /\ n >= i
    /\ pc = "config" => kernel = {}
    /\ RefusalsExplained

HostInv == TypeOK /\ Found /\ ClaimedSoFar /\ SavedSoFar /\ Blameless

-----------------------------------------------------------------------------
(* Facts about one interface.                                              *)

\* A non-empty set of indices has a smallest one.
LEMMA SmallestExists ==
  ASSUME NEW T \in SUBSET Nat, T # {}
  PROVE  \E x \in T : \A y \in T : x <= y
<1> DEFINE R == OpToRel(<, Nat)
<1>1. IsWellFoundedOn(R, Nat) BY NatLessThanWellFounded
<1>2. \A x, y \in Nat : y < x => <<y, x>> \in R BY DEF OpToRel
<1> HIDE DEF R
<1>3. PICK x \in T : \A y \in T : ~(<<y, x>> \in R) BY <1>1, WFMin
<1>4. \A y \in T : ~(y < x) BY <1>2, <1>3
<1>q. QED BY <1>3, <1>4

\* What the inner loop saves of an interface (usb_host.c:110-123): its first
\* interrupt endpoint when it has one, nothing otherwise.
LEMMA SavedFirst ==
  ASSUME NEW endps \in Seq(Endpoints)
  PROVE  /\ Saved(endps) \in Seq(Endpoints)
         /\ Interrupt(endps) = {} => Saved(endps) = <<>>
         /\ Interrupt(endps) # {} =>
              /\ Len(Saved(endps)) = 1
              /\ \E k \in Interrupt(endps) : Saved(endps)[1] = endps[k]
<1>1. CASE Interrupt(endps) = {} BY <1>1 DEF Saved
<1>2. CASE Interrupt(endps) # {}
  <2>1. PICK m \in Interrupt(endps) : \A l \in Interrupt(endps) : m <= l
    <3>1. Interrupt(endps) \in SUBSET Nat BY DEF Interrupt
    <3>q. QED BY <1>2, <3>1, SmallestExists
  <2> DEFINE c == CHOOSE k \in Interrupt(endps) : \A l \in Interrupt(endps) : k <= l
  <2>2. c \in Interrupt(endps) BY <2>1
  <2>3. c \in DOMAIN endps /\ endps[c] \in Endpoints BY <2>2 DEF Interrupt
  <2>4. Saved(endps) = <<endps[c]>> BY <1>2 DEF Saved
  <2> HIDE DEF c
  <2>q. QED BY <1>2, <2>2, <2>3, <2>4
<1>q. QED BY <1>1, <1>2

\* An endpoint is appended only to a list that is not full.
LEMMA SavedFits ==
  ASSUME NEW q \in Seq(Endpoints), NEW endps \in Seq(Endpoints), Len(q) <= ENDP_MAX,
         Interrupt(endps) = {} \/ Len(q) # ENDP_MAX
  PROVE  q \o Saved(endps) \in Seq(Endpoints) /\ Len(q \o Saved(endps)) <= ENDP_MAX
<1>1. Saved(endps) \in Seq(Endpoints) BY SavedFirst
<1>2. /\ q \o Saved(endps) \in Seq(Endpoints)
      /\ Len(q \o Saved(endps)) = Len(q) + Len(Saved(endps))
  BY <1>1, ConcatProperties
<1> DEFINE n == Len(q)
<1>3. n \in Nat /\ n <= ENDP_MAX OBVIOUS
<1>4. CASE Interrupt(endps) = {}
  <2>1. Saved(endps) = <<>> BY <1>4, SavedFirst
  <2>2. q \o Saved(endps) = q BY <2>1, ConcatEmptySeq
  <2>q. QED BY <2>2
<1>5. CASE Interrupt(endps) # {}
  <2>1. Len(Saved(endps)) = 1 /\ n # ENDP_MAX BY <1>5, SavedFirst
  <2>2. Len(q \o Saved(endps)) = n + 1 BY <1>2, <2>1
  <2> HIDE DEF n
  <2>3. n + 1 <= ENDP_MAX BY <1>3, <2>1 DEF ENDP_MAX
  <2>q. QED BY <1>2, <2>2, <2>3
<1>q. QED BY <1>4, <1>5

-----------------------------------------------------------------------------
(* The rank of an interface.                                               *)

\* Each interface with an interrupt endpoint raises the rank by one.
LEMMA RankStep ==
  ASSUME NEW n \in Nat
  PROVE  /\ Rank(n) \in Nat
         /\ n = 0 => Rank(n) = 0
         /\ Interrupt(Interfaces[n + 1]) # {} => Rank(n + 1) = Rank(n) + 1
         /\ Interrupt(Interfaces[n + 1]) = {} => Rank(n + 1) = Rank(n)
<1> DEFINE S(m) == {l \in 1..m : Interrupt(Interfaces[l]) # {}}
<1>1. IsFiniteSet(S(n))
  <2>1. IsFiniteSet(1..n) BY FS_Interval
  <2>q. QED BY <2>1, FS_Subset
<1>2. Cardinality(S(n)) \in Nat BY <1>1, FS_CardinalityType
<1>3. n = 0 => Cardinality(S(n)) = 0
  <2>1. n = 0 => S(n) = {} OBVIOUS
  <2>q. QED BY <2>1, FS_EmptySet
<1>4. ASSUME Interrupt(Interfaces[n + 1]) # {} PROVE Cardinality(S(n + 1)) = Cardinality(S(n)) + 1
  <2>1. S(n + 1) = S(n) \cup {n + 1} BY <1>4
  <2>2. n + 1 \notin S(n) OBVIOUS
  <2> HIDE DEF S
  <2>q. QED BY <1>1, <2>1, <2>2, FS_AddElement
<1>5. ASSUME Interrupt(Interfaces[n + 1]) = {} PROVE S(n + 1) = S(n) BY <1>5
<1>6. Rank(n) = Cardinality(S(n)) /\ Rank(n + 1) = Cardinality(S(n + 1)) BY DEF Rank
<1> HIDE DEF S
<1>q. QED BY <1>2, <1>3, <1>4, <1>5, <1>6

\* Ranks depend on the device's interfaces alone.
LEMMA SameRank ==
  ASSUME Interfaces' = Interfaces
  PROVE  \A n : Rank(n)' = Rank(n)
BY Zenon DEF Rank

-----------------------------------------------------------------------------
(* Types.                                                                  *)

\* The program starts within its types.
LEMMA InitType == Init => TypeOK
<1> SUFFICES ASSUME Init PROVE TypeOK OBVIOUS
<1>1. endp_list \in Seq(Endpoints) /\ Len(endp_list) <= ENDP_MAX BY DEF Init, ENDP_MAX
<1>2. list \in Lists /\ kernel = {} /\ claimed = {} BY DEF Init
<1>3. listed \in BOOLEAN /\ configured \in BOOLEAN /\ plugged \in BOOLEAN /\ fault \in BOOLEAN
  BY DEF Init
<1>4. pc = "init" /\ i = 1 /\ handle = 0 /\ key = 0 BY DEF Init
<1>q. QED BY <1>1, <1>2, <1>3, <1>4 DEF TypeOK

\* The opened device's description has its type.
LEMMA DeviceType ==
  ASSUME TypeOK, handle \in DOMAIN list
  PROVE  /\ list \in Seq(Devices) /\ list[handle] \in Devices
         /\ Interfaces \in Seq(Seq(Endpoints)) /\ Len(Interfaces) \in Nat
         /\ DOMAIN Interfaces = 1..Len(Interfaces)
         /\ list[handle].drivers \subseteq DOMAIN Interfaces
<1>1. list \in Seq(Devices) BY ListsAssumption DEF TypeOK
<1>2. list[handle] \in Devices BY <1>1
<1>3. Interfaces \in Seq(Seq(Endpoints)) BY <1>2 DEF Devices, Interfaces
<1>4. list[handle].drivers \subseteq DOMAIN Interfaces BY ListsAssumption DEF TypeOK, Interfaces
<1>q. QED BY <1>1, <1>2, <1>3, <1>4

Places == {"init", "list", "device", "active", "detach", "config", "save", "ready",
           "failed", "exit", "crash"}

\* Every action keeps the types.
LEMMA NextType ==
  ASSUME TypeOK, Found, [Next]_vars
  PROVE  TypeOK'
<1> USE DEF TypeOK
<1>1. CASE libusb_init BY <1>1 DEF libusb_init, Fail, deviceVars
<1>2. CASE get_device_list BY <1>2 DEF get_device_list, Fail, deviceVars
<1>3. CASE SkipDevice
  <2>1. fault' \in BOOLEAN BY <1>3, Zenon DEF SkipDevice
  <2>q. QED BY <1>3, <2>1 DEF SkipDevice, deviceVars
<1>4. CASE OpenDevice
  <2>1. list \in Seq(Devices) /\ i \in DOMAIN list BY <1>4, ListsAssumption DEF OpenDevice
  <2>2. list[i].drivers \subseteq Int
    <3>1. list[i] \in Devices BY <2>1
    <3>q. QED BY <3>1 DEF Devices
  <2>q. QED BY <1>4, <2>1, <2>2 DEF OpenDevice, Opened, Fail
<1>5. CASE NotFound BY <1>5 DEF NotFound, Fail, deviceVars
<1>6. CASE active_config
  <2>1. pc' \in Places /\ fault' \in BOOLEAN
    BY <1>6, Zenon DEF active_config, StrayEnds, Fail, Places
  <2>2. kernel' \subseteq Int BY <1>6 DEF active_config
  <2>q. QED BY <1>6, <2>1, <2>2 DEF active_config, Places
<1>7. CASE detach
  <2>7. pc' \in Places /\ fault' \in BOOLEAN BY <1>7, Zenon DEF detach, Fail, Places
  <2>8. i' \in Nat \ {0} BY <1>7 DEF detach
  <2>9. kernel' \subseteq Int /\ claimed' \subseteq Int BY <1>7 DEF detach, Claimed
  <2>q. QED BY <1>7, <2>7, <2>8, <2>9 DEF detach, Places
<1>8. CASE detached BY <1>8 DEF detached, Fail, deviceVars
<1>9. CASE set_configuration
  <2>0. handle \in DOMAIN list BY <1>9 DEF set_configuration, Found, Open
  <2>1. list[handle].drivers \subseteq Int BY <2>0, DeviceType DEF Devices
  <2>7. pc' \in Places /\ fault' \in BOOLEAN BY <1>9, Zenon DEF set_configuration, Fail, Places
  <2>8. i' \in Nat \ {0} BY <1>9 DEF set_configuration
  <2>9. kernel' \subseteq Int /\ claimed' \subseteq Int BY <1>9, <2>1 DEF set_configuration, Claimed
  <2>q. QED BY <1>9, <2>7, <2>8, <2>9 DEF set_configuration, Places
<1>10. CASE save_interface
  <2>0. handle \in DOMAIN list BY <1>10 DEF save_interface, Found, Open
  <2>1. Interfaces[i] \in Seq(Endpoints) BY <1>10, <2>0, DeviceType DEF save_interface
  <2>2. endp_list' \in Seq(Endpoints) /\ Len(endp_list') <= ENDP_MAX
    <3>1. CASE Overrun BY <1>10, <3>1 DEF save_interface, save_endpoint
    <3>2. CASE ~Overrun
      <4>1. endp_list' = endp_list \o Saved(Interfaces[i])
        BY <1>10, <3>2 DEF save_interface, save_endpoint
      <4>q. QED BY <2>1, <3>2, <4>1, SavedFits DEF Overrun
    <3>q. QED BY <3>1, <3>2
  <2>7. pc' \in Places /\ fault' \in BOOLEAN BY <1>10, Zenon DEF save_interface, Fail, Places
  <2>8. i' \in Nat \ {0} BY <1>10 DEF save_interface
  <2>9. kernel' \subseteq Int /\ claimed' \subseteq Int
    <3>1. kernel' = kernel /\ (claimed' = claimed \/ claimed' = claimed \cup {i})
      BY <1>10, Zenon DEF save_interface, Claimed
    <3>2. i \in Int OBVIOUS
    <3>q. QED BY <3>1, <3>2
  <2>q. QED BY <1>10, <2>2, <2>7, <2>8, <2>9 DEF save_interface, Places
<1>11. CASE saved BY <1>11 DEF saved, Fail, deviceVars
<1>12. CASE key_received BY <1>12, KeysAssumption DEF key_received, deviceVars
<1>13. CASE key_unset BY <1>13, KeysAssumption DEF key_unset, deviceVars
<1>14. CASE Unplug BY <1>14 DEF Unplug, Fail, deviceVars
<1>15. CASE UNCHANGED vars BY <1>15 DEF vars, deviceVars
<1>q. QED
  BY <1>1, <1>2, <1>3, <1>4, <1>5, <1>6, <1>7, <1>8, <1>9, <1>10, <1>11, <1>12, <1>13, <1>14,
     <1>15 DEF Next

-----------------------------------------------------------------------------
(* The handle.                                                             *)

\* The handle, once set, stays that of a device of the product.
LEMMA NextFound ==
  ASSUME TypeOK, Found, [Next]_vars
  PROVE  Found'
<1> USE DEF Found, Open
<1>1. CASE libusb_init BY <1>1 DEF libusb_init, Fail, deviceVars
<1>2. CASE get_device_list BY <1>2 DEF get_device_list, Fail, deviceVars
<1>3. CASE SkipDevice BY <1>3 DEF SkipDevice, Fail, deviceVars
<1>4. CASE OpenDevice
  <2>1. i \in DOMAIN list BY <1>4, ListsAssumption DEF OpenDevice, TypeOK
  <2>q. QED BY <1>4, <2>1 DEF OpenDevice, Opened, Fail, deviceVars
<1>5. CASE NotFound BY <1>5 DEF NotFound, Fail, deviceVars
<1>6. CASE active_config BY <1>6 DEF active_config, StrayEnds, Fail, deviceVars
<1>7. CASE detach BY <1>7 DEF detach, Fail, deviceVars
<1>8. CASE detached BY <1>8 DEF detached, Fail, deviceVars
<1>9. CASE set_configuration BY <1>9 DEF set_configuration, Fail, deviceVars
<1>10. CASE save_interface BY <1>10 DEF save_interface, Fail, deviceVars
<1>11. CASE saved BY <1>11 DEF saved, Fail, deviceVars
<1>12. CASE key_received BY <1>12 DEF key_received, Fail, deviceVars
<1>13. CASE key_unset BY <1>13 DEF key_unset, Fail, deviceVars
<1>14. CASE Unplug BY <1>14 DEF Unplug, Fail, deviceVars
<1>15. CASE UNCHANGED vars BY <1>15 DEF vars, deviceVars
<1>q. QED
  BY <1>1, <1>2, <1>3, <1>4, <1>5, <1>6, <1>7, <1>8, <1>9, <1>10, <1>11, <1>12, <1>13, <1>14,
     <1>15 DEF Next

-----------------------------------------------------------------------------
(* The claims.                                                             *)

\* The interfaces of the opened device do not change after the opening.
LEMMA SameInterfaces ==
  ASSUME [Next]_vars, pc # "device"
  PROVE  Interfaces' = Interfaces
<1>1. list' = list /\ handle' = handle
  BY DEF Next, vars, deviceVars, libusb_init, get_device_list, SkipDevice, OpenDevice, NotFound,
     active_config, detach, detached, set_configuration, save_interface, saved, key_received,
     key_unset, Unplug, Fail
<1>q. QED BY <1>1 DEF Interfaces

\* Each claim adds the next interface, and none that a driver holds.
LEMMA NextClaimed ==
  ASSUME TypeOK, Found, ClaimedSoFar, [Next]_vars
  PROVE  ClaimedSoFar'
<1> USE DEF ClaimedSoFar
<1>0. pc \in Open => Len(Interfaces) \in Nat /\ Interfaces' = Interfaces
  BY DeviceType, SameInterfaces DEF Found, Open
<1>i. i \in Nat \ {0} BY DEF TypeOK
<1> USE <1>0, <1>i DEF Open
<1>1. CASE libusb_init BY <1>1 DEF libusb_init, Fail, deviceVars
<1>2. CASE get_device_list BY <1>2 DEF get_device_list, Fail, deviceVars
<1>3. CASE SkipDevice BY <1>3 DEF SkipDevice, Fail, deviceVars
<1>4. CASE OpenDevice BY <1>4 DEF OpenDevice, Fail, deviceVars
<1>5. CASE NotFound BY <1>5 DEF NotFound, Fail, deviceVars
<1>6. CASE active_config BY <1>6 DEF active_config, StrayEnds, Fail, deviceVars
<1>7. CASE detach BY <1>7 DEF detach, Fail, deviceVars
<1>8. CASE detached BY <1>8 DEF detached, Fail, deviceVars
<1>9. CASE set_configuration
  <2>1. claimed' = {} BY <1>9 DEF set_configuration
  <2>2. pc' = "save" => i' = 1 /\ configured' BY <1>9 DEF set_configuration, Fail
  <2>3. pc' # "ready" /\ pc' # "config" BY <1>9 DEF set_configuration, Fail
  <2>q. QED BY <1>9, <2>1, <2>2, <2>3 DEF set_configuration
<1>10. CASE save_interface
  <2>1. CASE pc' \in {"exit", "crash"}
    <3>1. UNCHANGED <<claimed, kernel>> BY <1>10, <2>1, Zenon DEF save_interface
    <3>q. QED BY <2>1, <3>1
  <2>2. CASE pc' \notin {"exit", "crash"}
    <3>1. /\ pc' = "save" /\ plugged /\ i \notin kernel /\ i <= Len(Interfaces)
          /\ i' = i + 1 /\ claimed' = claimed \cup {i}
          /\ UNCHANGED <<plugged, configured, kernel>>
      BY <1>10, <2>2 DEF save_interface, Claimed, Fail
    <3>2. claimed = 1..(i - 1) /\ configured BY <1>10, <3>1 DEF save_interface
    <3>3. claimed' = 1..(i' - 1) BY <3>1, <3>2
    <3>4. claimed' \cap kernel' = {} BY <3>1
    <3>q. QED BY <1>10, <3>1, <3>2, <3>3, <3>4 DEF save_interface
  <2>q. QED BY <2>1, <2>2
<1>11. CASE saved BY <1>11 DEF saved, Fail, deviceVars
<1>12. CASE key_received BY <1>12 DEF key_received, Fail, deviceVars
<1>13. CASE key_unset BY <1>13 DEF key_unset, Fail, deviceVars
<1>14. CASE Unplug BY <1>14 DEF Unplug, Fail, deviceVars
<1>15. CASE UNCHANGED vars BY <1>15 DEF vars, deviceVars
<1>q. QED
  BY <1>1, <1>2, <1>3, <1>4, <1>5, <1>6, <1>7, <1>8, <1>9, <1>10, <1>11, <1>12, <1>13, <1>14,
     <1>15 DEF Next

-----------------------------------------------------------------------------
(* The saved endpoints.                                                    *)

\* One turn of the loop: the interface's endpoint gets the place of its rank
\* while there is one, and the entries before stay.
LEMMA SaveOne ==
  ASSUME TypeOK, Found, SavedSoFar, pc = "save", NEW j, j = i, j <= Len(Interfaces),
         save_endpoint, Interfaces' = Interfaces
  PROVE  /\ Len(endp_list') = IF Rank(j)' <= ENDP_MAX THEN Rank(j)' ELSE ENDP_MAX
         /\ \A n \in 1..j : InPlace(n)'
         /\ Overrun => Rank(j) > ENDP_MAX
<1>0. handle \in DOMAIN list BY DEF Found, Open
<1>1. /\ j \in Nat \ {0} /\ endp_list \in Seq(Endpoints)
      /\ Interfaces[j] \in Seq(Endpoints) /\ Len(endp_list) \in Nat
  BY <1>0, DeviceType DEF TypeOK
<1>2. \A n : Rank(n)' = Rank(n) BY SameRank
<1>3. /\ Rank(j - 1) \in Nat
      /\ Interrupt(Interfaces[j]) # {} => Rank(j) = Rank(j - 1) + 1
      /\ Interrupt(Interfaces[j]) = {} => Rank(j) = Rank(j - 1)
  <2>1. j - 1 \in Nat /\ (j - 1) + 1 = j BY <1>1
  <2>q. QED BY <2>1, RankStep
<1>4. Len(endp_list) = IF Rank(j - 1) <= ENDP_MAX THEN Rank(j - 1) ELSE ENDP_MAX BY DEF SavedSoFar
<1>5. \A n \in 1..(j - 1) : InPlace(n) BY DEF SavedSoFar
<1>6. ASSUME NEW n \in 1..j, n # j, Len(endp_list) <= Len(endp_list'), Len(endp_list') \in Nat,
             \A m \in 1..Len(endp_list) : endp_list'[m] = endp_list[m]
      PROVE  InPlace(n)'
  <2>1. n \in 1..(j - 1) BY <1>1, <1>6
  <2> SUFFICES ASSUME Interrupt(Interfaces[n]) # {}, Rank(n) <= ENDP_MAX
               PROVE /\ Rank(n) \in 1..Len(endp_list')
                     /\ \E k \in Interrupt(Interfaces[n]) : endp_list'[Rank(n)] = Interfaces[n][k]
    BY <1>2 DEF InPlace
  <2>2. /\ Rank(n) \in 1..Len(endp_list)
        /\ \E k \in Interrupt(Interfaces[n]) : endp_list[Rank(n)] = Interfaces[n][k]
    BY <1>5, <2>1 DEF InPlace
  <2>3. Rank(n) \in 1..Len(endp_list') BY <1>1, <1>6, <2>2
  <2>4. endp_list'[Rank(n)] = endp_list[Rank(n)] BY <1>6, <2>2
  <2>q. QED BY <2>2, <2>3, <2>4
<1>7. CASE Overrun
  <2>1. endp_list' = endp_list BY <1>7 DEF save_endpoint
  <2>2. Rank(j - 1) >= ENDP_MAX /\ Rank(j) = Rank(j - 1) + 1
    BY <1>3, <1>4, <1>7 DEF Overrun, ENDP_MAX
  <2>3. Rank(j) > ENDP_MAX /\ Len(endp_list') = ENDP_MAX
    BY <1>3, <1>7, <2>1, <2>2 DEF Overrun, ENDP_MAX
  <2>4. InPlace(j)' BY <1>2, <1>3, <2>2, <2>3 DEF InPlace, ENDP_MAX
  <2>5. \A n \in 1..j : InPlace(n)' BY <1>1, <1>6, <2>1, <2>4
  <2>6. ~(Rank(j) <= ENDP_MAX) BY <1>3, <2>2, <2>3 DEF ENDP_MAX
  <2>q. QED BY <1>2, <2>3, <2>5, <2>6
<1>8. CASE ~Overrun
  <2> DEFINE sv == Saved(Interfaces[j])
  <2>0. endp_list' = endp_list \o sv BY <1>8 DEF save_endpoint
  <2>1. sv \in Seq(Endpoints) /\ Len(sv) \in Nat BY <1>1, SavedFirst
  <2> HIDE DEF sv
  <2>2. /\ Len(endp_list') = Len(endp_list) + Len(sv)
        /\ \A n \in 1..Len(endp_list) : endp_list'[n] = endp_list[n]
        /\ Len(sv) = 1 => endp_list'[Len(endp_list) + 1] = sv[1]
    BY <1>1, <2>0, <2>1, ConcatProperties
  <2>3. Len(endp_list) <= Len(endp_list') /\ Len(endp_list') \in Nat BY <1>1, <2>1, <2>2
  <2>4. CASE Interrupt(Interfaces[j]) = {}
    <3>1. Len(sv) = 0 BY <1>1, <2>4, SavedFirst DEF sv
    <3>2. Len(endp_list') = Len(endp_list) BY <1>1, <2>2, <3>1
    <3>3. InPlace(j)' BY <2>4 DEF InPlace
    <3>4. \A n \in 1..j : InPlace(n)' BY <1>6, <2>2, <2>3, <3>3
    <3>q. QED BY <1>2, <1>3, <1>4, <1>8, <2>4, <3>2, <3>4
  <2>5. CASE Interrupt(Interfaces[j]) # {}
    <3>1. Len(sv) = 1 /\ \E k \in Interrupt(Interfaces[j]) : sv[1] = Interfaces[j][k]
      BY <1>1, <2>5, SavedFirst DEF sv
    <3>2. Len(endp_list) # ENDP_MAX BY <1>8, <2>5 DEF Overrun
    <3>3. /\ Len(endp_list) = Rank(j - 1) /\ Rank(j) = Len(endp_list) + 1
          /\ Rank(j) <= ENDP_MAX
      BY <1>3, <1>4, <2>5, <3>2 DEF ENDP_MAX
    <3>4. Len(endp_list') = Rank(j) BY <2>2, <3>1, <3>3
    <3>5. Rank(j) \in 1..Len(endp_list') /\ endp_list'[Rank(j)] = sv[1]
      BY <1>1, <2>2, <2>3, <3>1, <3>3, <3>4
    <3>6. InPlace(j)' BY <1>2, <3>1, <3>5 DEF InPlace
    <3>7. \A n \in 1..j : InPlace(n)' BY <1>6, <2>2, <2>3, <3>6
    <3>q. QED BY <1>2, <1>8, <3>3, <3>4, <3>7
  <2>q. QED BY <2>4, <2>5
<1>q. QED BY <1>7, <1>8

\* Nothing else touches the list.
LEMMA KeepSaved ==
  ASSUME SavedSoFar, UNCHANGED <<pc, i, endp_list>>,
         pc \in {"save", "ready"} => Interfaces' = Interfaces
  PROVE  SavedSoFar'
<1>1. ASSUME pc \in {"save", "ready"}
      PROVE  (\A n : InPlace(n)' <=> InPlace(n)) /\ \A n : Rank(n)' = Rank(n)
  BY <1>1, SameRank DEF InPlace
<1>2. CASE pc \in {"save", "ready"} BY <1>1, <1>2 DEF SavedSoFar
<1>3. CASE pc \notin {"save", "ready"} BY <1>3 DEF SavedSoFar
<1>q. QED BY <1>2, <1>3

\* Every action keeps what is said of endp_list.
LEMMA NextSaved ==
  ASSUME TypeOK, Found, ClaimedSoFar, SavedSoFar, [Next]_vars
  PROVE  SavedSoFar'
<1>0. pc # "device" => Interfaces' = Interfaces BY SameInterfaces
<1>1. CASE libusb_init BY <1>1 DEF libusb_init, Fail, SavedSoFar
<1>2. CASE get_device_list BY <1>2 DEF get_device_list, Fail, SavedSoFar
<1>3. CASE SkipDevice BY <1>3 DEF SkipDevice, Fail, SavedSoFar
<1>4. CASE OpenDevice BY <1>4 DEF OpenDevice, Fail, SavedSoFar
<1>5. CASE NotFound BY <1>5 DEF NotFound, Fail, SavedSoFar
<1>6. CASE active_config BY <1>6 DEF active_config, StrayEnds, Fail, SavedSoFar
<1>7. CASE detach BY <1>7 DEF detach, Fail, SavedSoFar
<1>8. CASE detached BY <1>8 DEF detached, Fail, SavedSoFar
<1>9. CASE set_configuration
  <2>1. endp_list' = <<>> /\ pc' \in {"save", "failed"} /\ (pc' = "save" => i' = 1)
    BY <1>9 DEF set_configuration, Fail, SavedSoFar
  <2>2. Rank(0)' = 0 BY <1>0, <1>9, SameRank, RankStep DEF set_configuration
  <2>q. QED BY <2>1, <2>2 DEF SavedSoFar, ENDP_MAX
<1>10. CASE save_interface
  <2>1. CASE pc' \in {"exit", "crash"} BY <2>1 DEF SavedSoFar
  <2>2. CASE pc' \notin {"exit", "crash"}
    <3>1. pc = "save" /\ pc' = "save" /\ i <= Len(Interfaces) /\ i' = i + 1
      BY <1>10, <2>2 DEF save_interface, Fail
    <3>0. PICK j : j = i OBVIOUS
    <3>2. j \in Nat /\ i' - 1 = j BY <3>0, <3>1 DEF TypeOK
    <3>3. Interfaces' = Interfaces BY <1>0, <3>1
    <3>4. save_endpoint BY <1>10 DEF save_interface
    <3>5. /\ Len(endp_list') = IF Rank(j)' <= ENDP_MAX THEN Rank(j)' ELSE ENDP_MAX
          /\ \A n \in 1..j : InPlace(n)'
      BY <3>0, <3>1, <3>3, <3>4, SaveOne
    <3>q. QED BY <3>1, <3>2, <3>5 DEF SavedSoFar
  <2>q. QED BY <2>1, <2>2
<1>11. CASE saved
  <2>1. pc = "save" /\ pc' = "ready" /\ i > Len(Interfaces) /\ endp_list' = endp_list
    BY <1>11 DEF saved
  <2>2. handle \in DOMAIN list BY <2>1 DEF Found, Open
  <2>3. i = Len(Interfaces) + 1 /\ Len(Interfaces) \in Nat
    BY <2>1, <2>2, DeviceType DEF ClaimedSoFar, TypeOK
  <2>4. Interfaces' = Interfaces BY <1>0, <2>1
  <2>5. \A n \in 1..Len(Interfaces) : InPlace(n) BY <2>1, <2>3 DEF SavedSoFar
  <2>6. \A n : InPlace(n)' <=> InPlace(n) BY <2>1, <2>4, SameRank DEF InPlace
  <2>q. QED BY <2>1, <2>4, <2>5, <2>6 DEF SavedSoFar
<1>12. CASE key_received BY <1>0, <1>12, KeepSaved DEF key_received, deviceVars
<1>13. CASE key_unset BY <1>0, <1>13, KeepSaved DEF key_unset, deviceVars
<1>14. CASE Unplug BY <1>0, <1>14, KeepSaved DEF Unplug, deviceVars
<1>15. CASE UNCHANGED vars BY <1>0, <1>15, KeepSaved DEF vars
<1>q. QED
  BY <1>1, <1>2, <1>3, <1>4, <1>5, <1>6, <1>7, <1>8, <1>9, <1>10, <1>11, <1>12, <1>13, <1>14,
     <1>15 DEF Next

-----------------------------------------------------------------------------
(* The refusals.                                                           *)

\* An action that fails by chance is a fault; each of the others has a
\* reason.
LEMMA NextBlameless ==
  ASSUME TypeOK, Found, SavedSoFar, Blameless, [Next]_vars
  PROVE  Blameless'
<1> SUFFICES ASSUME ~fault' PROVE Blameless' BY DEF Blameless
<1>t. i \in Nat \ {0} BY DEF TypeOK
<1>l. list \in Seq(Devices) /\ DOMAIN list = 1..Len(list) /\ Len(list) \in Nat
  BY ListsAssumption DEF TypeOK
<1>f. ~fault
  BY DEF Next, vars, libusb_init, get_device_list, SkipDevice, OpenDevice, NotFound,
     active_config, detach, detached, set_configuration, save_interface, saved, key_received,
     key_unset, Unplug, Fail
<1>s. pc # "device" => Interfaces' = Interfaces BY SameInterfaces
<1>d. pc \in Open => /\ DOMAIN Interfaces = 1..Len(Interfaces) /\ Len(Interfaces) \in Nat
                     /\ list[handle].drivers \subseteq DOMAIN Interfaces
  BY DeviceType DEF Found
<1>r. pc # "device" => \A n : Rank(n)' = Rank(n) BY <1>s, SameRank
<1> USE <1>t, <1>f DEF Blameless, RefusalsExplained, Open
<1>1. CASE libusb_init BY <1>1 DEF libusb_init, Fail, deviceVars
<1>2. CASE get_device_list BY <1>2 DEF get_device_list, Fail, deviceVars
<1>3. CASE SkipDevice
  <2>1. list[i].product # ID_PRODUCT /\ i' = i + 1 BY <1>3 DEF SkipDevice
  <2>2. pc = "device" /\ UNCHANGED <<pc, list, plugged>> BY <1>3 DEF SkipDevice, deviceVars
  <2>3. \A n \in 1..(i' - 1) : n \in DOMAIN list => list[n].product # ID_PRODUCT BY <2>1, <2>2
  <2>q. QED BY <2>2, <2>3
<1>4. CASE OpenDevice
  <2>1. /\ plugged' /\ pc = "device" /\ pc' = "active" /\ handle' = i /\ list' = list
        /\ kernel' \subseteq list[i].drivers /\ (~configured' => kernel' = {})
    BY <1>4 DEF OpenDevice, Opened, Fail
  <2>2. i \in DOMAIN list BY <1>4, <1>l DEF OpenDevice
  <2>3. list[i].drivers \subseteq DOMAIN list[i].interfaces BY <2>2, ListsAssumption DEF TypeOK
  <2>4. kernel' \subseteq DOMAIN Interfaces' BY <2>1, <2>3 DEF Interfaces
  <2>5. \A n \in 1..(handle' - 1) : list'[n].product # ID_PRODUCT BY <1>l, <2>1, <2>2
  <2>q. QED BY <2>1, <2>4, <2>5
<1>5. CASE NotFound BY <1>5, <1>l DEF NotFound, deviceVars
<1>6. CASE active_config
  <2>1. /\ pc = "active" /\ i' = 1 /\ UNCHANGED <<list, handle, configured, plugged, kernel>>
        /\ (configured /\ pc' = "detach") \/ (~configured /\ pc' \in StrayEnds)
    BY <1>6 DEF active_config, Fail
  <2>2. Interfaces' = Interfaces /\ handle # 0 BY <1>s, <1>l, <2>1 DEF Found
  <2>3. CASE configured /\ pc' = "detach" BY <1>d, <2>1, <2>2, <2>3
  <2>4. CASE ~configured /\ pc' \in StrayEnds BY <2>1, <2>2, <2>4 DEF StrayEnds
  <2>q. QED BY <2>1, <2>3, <2>4
<1>7. CASE detach
  <2>1. /\ pc = "detach" /\ pc' = "detach" /\ i' = i + 1 /\ kernel' = kernel \ {i}
        /\ UNCHANGED <<list, handle, plugged>> /\ Interfaces' = Interfaces
    BY <1>7, <1>s DEF detach, Fail
  <2>2. \A n \in kernel : n \in DOMAIN Interfaces /\ n >= i BY <2>1
  <2>3. \A n \in kernel' : n \in DOMAIN Interfaces /\ n >= i' BY <1>d, <2>1, <2>2 DEF Open
  <2>q. QED BY <2>1, <2>3
<1>8. CASE detached
  <2>1. /\ pc = "detach" /\ pc' = "config" /\ i > Len(Interfaces)
        /\ UNCHANGED <<list, handle, kernel, plugged>>
    BY <1>8 DEF detached, DetachEnd, deviceVars
  <2>2. kernel' = {} BY <1>d, <2>1 DEF Open
  <2>q. QED BY <2>1, <2>2
<1>9. CASE set_configuration
  <2>1. pc = "config" /\ pc' = "save" /\ UNCHANGED <<list, handle, plugged>>
    BY <1>9 DEF set_configuration, Fail
  <2>q. QED BY <2>1
<1>10. CASE save_interface
  <2>1. pc = "save" /\ UNCHANGED <<list, handle, configured, kernel, plugged>>
    BY <1>10 DEF save_interface
  <2>2. handle # 0 BY <1>l, <2>1 DEF Found
  <2>3. CASE pc' = "save" BY <2>1, <2>3
  <2>4. CASE pc' = "exit"
    <3>1. i \in kernel /\ i' = i BY <1>10, <2>4 DEF save_interface, Fail
    <3>q. QED BY <2>1, <2>2, <2>4, <3>1
  <2>5. CASE pc' = "crash"
    <3>1. Overrun /\ i' = i /\ save_endpoint /\ i <= Len(Interfaces)
      BY <1>10, <2>1, <2>5 DEF save_interface, Fail
    <3>2. Rank(i) > ENDP_MAX BY <1>s, <2>1, <3>1, SaveOne
    <3>3. Rank(i)' = Rank(i)
      <4>1. \A n : Rank(n)' = Rank(n) BY <1>r, <2>1
      <4>q. QED BY <3>1, <4>1 DEF Rank
    <3>q. QED BY <2>1, <2>2, <2>5, <3>2, <3>3
  <2>6. pc' \in {"save", "exit", "crash"} BY <1>10, <2>1 DEF save_interface, Fail
  <2>q. QED BY <2>3, <2>4, <2>5, <2>6
<1>11. CASE saved BY <1>11 DEF saved, Fail, deviceVars
<1>12. CASE key_received BY <1>12 DEF key_received, Fail, deviceVars
<1>13. CASE key_unset BY <1>13 DEF key_unset, Fail, deviceVars
<1>14. CASE Unplug BY <1>14 DEF Unplug
<1>15. CASE UNCHANGED vars
  <2>1. UNCHANGED <<pc, i, list, handle, configured, kernel, plugged, fault>>
    BY <1>15 DEF vars, deviceVars
  <2>2. Interfaces' = Interfaces /\ Rank(i)' = Rank(i) BY <2>1 DEF Interfaces, Rank
  <2>q. QED BY <2>1, <2>2
<1>q. QED
  BY <1>1, <1>2, <1>3, <1>4, <1>5, <1>6, <1>7, <1>8, <1>9, <1>10, <1>11, <1>12, <1>13, <1>14,
     <1>15 DEF Next

-----------------------------------------------------------------------------
(* The theorems.                                                           *)

\* The invariant holds when main calls init_usb.
LEMMA InitInv == Init => HostInv
<1> SUFFICES ASSUME Init PROVE HostInv OBVIOUS
<1>1. TypeOK BY InitType
<1>2. Found /\ ClaimedSoFar /\ SavedSoFar BY DEF Init, Found, Open, ClaimedSoFar, SavedSoFar
<1>3. Blameless BY DEF Init, Blameless, RefusalsExplained, Open
<1>q. QED BY <1>1, <1>2, <1>3 DEF HostInv

\* The invariant is inductive.
LEMMA Invariance == Spec => []HostInv
<1>1. HostInv /\ [Next]_vars => HostInv'
  BY NextType, NextFound, NextClaimed, NextSaved, NextBlameless DEF HostInv
<1>q. QED BY InitInv, <1>1, PTL DEF Spec

\* The program's globals and what libusb keeps for it have their types
\* (usb_host.c:6-7), and endp_list never counts more than its ten cells, for
\* every device list: an eleventh endpoint crashes the program or is lost.
THEOREM HostTypes == Spec => []TypeOK
<1>1. HostInv => TypeOK BY DEF HostInv
<1>q. QED BY Invariance, <1>1, PTL

\* init_usb returns 0 only with an opened device of the product, the first if
\* no call failed, that, as long as it is plugged, is configured, with all
\* its interfaces claimed from the kernel (usb_host.c:9-37): for every list
\* and every failure.
THEOREM InitUsbSound == Spec => []SuccessMeansUsable
<1>1. HostInv => SuccessMeansUsable
  <2> SUFFICES ASSUME HostInv, pc = "ready" PROVE SuccessMeansUsable BY DEF SuccessMeansUsable
  <2>1. ~listed /\ handle \in DOMAIN list /\ list[handle].product = ID_PRODUCT
    BY DEF HostInv, Found, Open
  <2>2. DOMAIN Interfaces = 1..Len(Interfaces) BY <2>1, DeviceType DEF HostInv
  <2>3. ~fault => \A n \in 1..(handle - 1) : list[n].product # ID_PRODUCT
    BY DEF HostInv, Blameless, Open
  <2>q. QED BY <2>1, <2>2, <2>3 DEF HostInv, ClaimedSoFar, SuccessMeansUsable
<1>q. QED BY Invariance, <1>1, PTL

\* The endpoint of an interface is the entry of its rank among the interfaces
\* that have one, as long as the rank is within the ten cells
\* (usb_host.c:7,105-129), for every device: with interfaces that lack one,
\* and with more endpoints than cells.
THEOREM EndpointsMatchInterfaces == Spec => []EndpointsInPlace
<1>1. HostInv => EndpointsInPlace
  <2> SUFFICES ASSUME HostInv, pc = "ready" PROVE EndpointsInPlace BY DEF EndpointsInPlace
  <2>1. handle \in DOMAIN list BY DEF HostInv, Found, Open
  <2>2. DOMAIN Interfaces = 1..Len(Interfaces) BY <2>1, DeviceType DEF HostInv
  <2>3. endp_list \in Seq(Endpoints) BY DEF HostInv, TypeOK
  <2>4. \A n \in 1..Len(Interfaces) : InPlace(n) BY DEF HostInv, SavedSoFar
  <2>5. DOMAIN endp_list = 1..Len(endp_list) BY <2>3
  <2>q. QED BY <2>2, <2>4, <2>5 DEF InPlace, EndpointsInPlace
<1>q. QED BY Invariance, <1>1, PTL

\* Without a chance failure and without unplugging, init_usb returns 1 only
\* for lists that lack the product, and every exit and crash has one of the
\* reasons RefusalsExplained names: no configuration, a driver that is back,
\* or an eleventh endpoint (usb_host.c:69,118,126).
THEOREM RefusalsHaveReasons == Spec => []RefusalsExplained
<1>1. HostInv => RefusalsExplained BY DEF HostInv, Blameless, RefusalsExplained
<1>q. QED BY Invariance, <1>1, PTL
=============================================================================
