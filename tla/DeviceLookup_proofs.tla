------------------------ MODULE DeviceLookup_proofs ------------------------
(***************************************************************************)
(* Proofs about DeviceLookup: the invariants of the runs hold for any      *)
(* number of adapters, names, calls and changes.  Each lemma shows that    *)
(* one action preserves the inductive invariant, part by part.             *)
(***************************************************************************)
EXTENDS DeviceLookup, TLAPS

\* The number of an adapter is an integer.
LEMMA IdsInt == \A d \in Ids : d \in Int
  BY IdsAssumption

\* It is not negative: -1 stands for no adapter.
LEMMA IdsNotNegative == \A d \in Ids : ~(d < 0)
  <1> SUFFICES ASSUME NEW d \in Ids PROVE ~(d < 0)
    OBVIOUS
  <1>1. d \in Nat
    BY IdsAssumption
  <1> QED
    BY <1>1

\* A number in a name is an integer.
LEMMA AtoiInt == \A n \in Names : atoi(n) \in Int
  <1> SUFFICES ASSUME NEW n \in Names PROVE atoi(n) \in Int
    OBVIOUS
  <1>1. n \in [form : Forms, id : Ids, addr : BdAddrs]
    BY NamesAssumption
  <1>2. n.id \in Ids
    BY <1>1
  <1> QED
    BY <1>2, IdsInt DEF atoi

\* The address made of a name is one.
LEMMA AddressOK == \A n \in Names : str2ba(n) \in BdAddrs
  BY NullAssumption, NamesAssumption DEF str2ba

\* The room and the number asked for fit together.
LEMMA RoomOK ==
    \A n \in Counts : /\ Room(n) \in Nat /\ Asked(n) \in Nat
                      /\ Asked(n) <= 255 /\ Asked(n) <= Room(n)
                      /\ Asked(n) = 0 => Room(n) >= 255
  BY CountsAssumption DEF Room, Asked

LEMMA InitCallInv == Init => CallInv
  <1> SUFFICES ASSUME Init PROVE CallInv
    OBVIOUS
  <1> USE DEF Init
  <1>1. WorldOK
    BY StatesAssumption DEF WorldOK
  <1>2. CallOK /\ InquiryOK /\ SocketsOK
    BY DEF CallOK, InquiryOK, SocketsOK, Functions
  <1>3. SearchOK /\ ErrorsOK
    BY NullAssumption DEF SearchOK, ErrorsOK
  <1>7. ResultOK
    BY DEF ResultOK
  <1>4. Places /\ OpenSockets /\ RoomForAll
    BY DEF Places, Searching, OpenSockets, InUse, RoomForAll
  <1>5. ErrorKept /\ ReportsItsOwnError
    BY DEF ErrorKept, ReportsItsOwnError
  <1>6. ListWasTrue /\ FoundWasUp /\ InquiryFits
    BY DEF ListWasTrue, FoundWasUp, InquiryFits
  <1> QED
    BY <1>1, <1>2, <1>3, <1>4, <1>5, <1>6, <1>7 DEF CallInv, TypeOK

LEMMA Keeps_lescan_ntoid == CallInv /\ lescan_ntoid => CallInv'
  <1> SUFFICES ASSUME CallInv, lescan_ntoid PROVE CallInv'
    OBVIOUS
  <1> USE IdsAssumption, NullAssumption, NamesAssumption, StatesAssumption
      DEF CallInv, TypeOK, world, args, inq, search, ghosts, inCall,
          lescan_ntoid, Began, hci_devid
  <1>1. WorldOK'
    BY DEF WorldOK
  <1>2. CallOK'
    BY AtoiInt DEF CallOK, Functions, Places, Searching
  <1>3. InquiryOK'
    BY DEF InquiryOK
  <1>4. SearchOK'
    BY AddressOK DEF SearchOK
  <1>5. ErrorsOK'
    BY DEF ErrorsOK, Errors
  <1>6. SocketsOK'
    BY DEF SocketsOK, OpenSockets, InUse
  <1>7. ResultOK'
    BY DEF ResultOK, CallOK, InquiryOK, ErrorsOK, Errors
  <1>8. Places'
    BY DEF Places, Searching, Lookups, CallOK, InquiryOK, SocketsOK
  <1>9. OpenSockets'
    BY DEF OpenSockets, InUse, Places, Lookups, CallOK, SocketsOK, Searching
  <1>10. RoomForAll'
    BY DEF RoomForAll, CallOK, InquiryOK, Places
  <1>11. ErrorKept'
    BY DEF ErrorKept, CallOK, ErrorsOK, Places, Errors, Searching, Lookups
  <1>12. ReportsItsOwnError'
    BY DEF ReportsItsOwnError, ErrorKept, Lookups, CallOK, Places
  <1>13. ListWasTrue'
    BY DEF ListWasTrue, Lookups, Up, WorldOK, CallOK, Places, Searching, SearchOK
  <1>14. FoundWasUp'
    BY DEF FoundWasUp, ListWasTrue, Lookups, CallOK, Up
  <1>15. InquiryFits'
    BY DEF InquiryFits, RoomForAll, InquiryOK, CallOK, Places
  <1> QED
    BY <1>1, <1>2, <1>3, <1>4, <1>5, <1>6, <1>7, <1>8, <1>9, <1>10, <1>11, <1>12, <1>13, <1>14, <1>15

LEMMA Keeps_lescan_addr_to_dev_id == CallInv /\ lescan_addr_to_dev_id => CallInv'
  <1> SUFFICES ASSUME CallInv, lescan_addr_to_dev_id PROVE CallInv'
    OBVIOUS
  <1> USE IdsAssumption, NullAssumption, NamesAssumption, StatesAssumption
      DEF CallInv, TypeOK, world, args, inq, search, ghosts, inCall,
          lescan_addr_to_dev_id, Began, hci_devid
  <1>1. WorldOK'
    BY DEF WorldOK
  <1>2. CallOK'
    BY AtoiInt DEF CallOK, Functions, Places, Searching
  <1>3. InquiryOK'
    BY DEF InquiryOK
  <1>4. SearchOK'
    BY AddressOK DEF SearchOK
  <1>5. ErrorsOK'
    BY DEF ErrorsOK, Errors
  <1>6. SocketsOK'
    BY DEF SocketsOK, OpenSockets, InUse
  <1>7. ResultOK'
    BY DEF ResultOK, CallOK, InquiryOK, ErrorsOK, Errors
  <1>8. Places'
    BY DEF Places, Searching, Lookups, CallOK, InquiryOK, SocketsOK
  <1>9. OpenSockets'
    BY DEF OpenSockets, InUse, Places, Lookups, CallOK, SocketsOK, Searching
  <1>10. RoomForAll'
    BY DEF RoomForAll, CallOK, InquiryOK, Places
  <1>11. ErrorKept'
    BY DEF ErrorKept, CallOK, ErrorsOK, Places, Errors, Searching, Lookups
  <1>12. ReportsItsOwnError'
    BY DEF ReportsItsOwnError, ErrorKept, Lookups, CallOK, Places
  <1>13. ListWasTrue'
    BY DEF ListWasTrue, Lookups, Up, WorldOK, CallOK, Places, Searching, SearchOK
  <1>14. FoundWasUp'
    BY DEF FoundWasUp, ListWasTrue, Lookups, CallOK, Up
  <1>15. InquiryFits'
    BY DEF InquiryFits, RoomForAll, InquiryOK, CallOK, Places
  <1> QED
    BY <1>1, <1>2, <1>3, <1>4, <1>5, <1>6, <1>7, <1>8, <1>9, <1>10, <1>11, <1>12, <1>13, <1>14, <1>15

LEMMA Keeps_lescan_default_dev_id == CallInv /\ lescan_default_dev_id => CallInv'
  <1> SUFFICES ASSUME CallInv, lescan_default_dev_id PROVE CallInv'
    OBVIOUS
  <1> USE IdsAssumption, NullAssumption, NamesAssumption, StatesAssumption
      DEF CallInv, TypeOK, world, args, inq, search, ghosts, inCall,
          lescan_default_dev_id, Began, hci_get_route
  <1>1. WorldOK'
    BY DEF WorldOK
  <1>2. CallOK'
    BY DEF CallOK, Functions, Places, Searching
  <1>3. InquiryOK'
    BY DEF InquiryOK
  <1>4. SearchOK'
    BY DEF SearchOK
  <1>5. ErrorsOK'
    BY DEF ErrorsOK, Errors
  <1>6. SocketsOK'
    BY DEF SocketsOK, OpenSockets, InUse
  <1>7. ResultOK'
    BY DEF ResultOK, CallOK, InquiryOK, ErrorsOK, Errors
  <1>8. Places'
    BY DEF Places, Searching, Lookups, CallOK, InquiryOK, SocketsOK
  <1>9. OpenSockets'
    BY DEF OpenSockets, InUse, Places, Lookups, CallOK, SocketsOK, Searching
  <1>10. RoomForAll'
    BY DEF RoomForAll, CallOK, InquiryOK, Places
  <1>11. ErrorKept'
    BY DEF ErrorKept, CallOK, ErrorsOK, Places, Errors, Searching, Lookups
  <1>12. ReportsItsOwnError'
    BY DEF ReportsItsOwnError, ErrorKept, Lookups, CallOK, Places
  <1>13. ListWasTrue'
    BY DEF ListWasTrue, Lookups, Up, WorldOK, CallOK, Places, Searching, SearchOK
  <1>14. FoundWasUp'
    BY DEF FoundWasUp, ListWasTrue, Lookups, CallOK, Up
  <1>15. InquiryFits'
    BY DEF InquiryFits, RoomForAll, InquiryOK, CallOK, Places
  <1> QED
    BY <1>1, <1>2, <1>3, <1>4, <1>5, <1>6, <1>7, <1>8, <1>9, <1>10, <1>11, <1>12, <1>13, <1>14, <1>15

LEMMA Keeps_lescan_open_id == CallInv /\ lescan_open_id => CallInv'
  <1> SUFFICES ASSUME CallInv, lescan_open_id PROVE CallInv'
    OBVIOUS
  <1> USE IdsAssumption, NullAssumption, NamesAssumption, StatesAssumption
      DEF CallInv, TypeOK, world, args, inq, search, ghosts, inCall,
          lescan_open_id, Began
  <1>1. WorldOK'
    BY DEF WorldOK
  <1>2. CallOK'
    BY DEF CallOK, Functions, Places, Searching
  <1>3. InquiryOK'
    BY DEF InquiryOK
  <1>4. SearchOK'
    BY DEF SearchOK
  <1>5. ErrorsOK'
    BY DEF ErrorsOK, Errors
  <1>6. SocketsOK'
    BY DEF SocketsOK, OpenSockets, InUse
  <1>7. ResultOK'
    BY DEF ResultOK, CallOK, InquiryOK, ErrorsOK, Errors
  <1>8. Places'
    BY DEF Places, Searching, Lookups, CallOK, InquiryOK, SocketsOK
  <1>9. OpenSockets'
    BY DEF OpenSockets, InUse, Places, Lookups, CallOK, SocketsOK, Searching
  <1>10. RoomForAll'
    BY DEF RoomForAll, CallOK, InquiryOK, Places
  <1>11. ErrorKept'
    BY DEF ErrorKept, CallOK, ErrorsOK, Places, Errors, Searching, Lookups
  <1>12. ReportsItsOwnError'
    BY DEF ReportsItsOwnError, ErrorKept, Lookups, CallOK, Places
  <1>13. ListWasTrue'
    BY DEF ListWasTrue, Lookups, Up, WorldOK, CallOK, Places, Searching, SearchOK
  <1>14. FoundWasUp'
    BY DEF FoundWasUp, ListWasTrue, Lookups, CallOK, Up
  <1>15. InquiryFits'
    BY DEF InquiryFits, RoomForAll, InquiryOK, CallOK, Places
  <1> QED
    BY <1>1, <1>2, <1>3, <1>4, <1>5, <1>6, <1>7, <1>8, <1>9, <1>10, <1>11, <1>12, <1>13, <1>14, <1>15

LEMMA Keeps_hci_inquiry == CallInv /\ hci_inquiry => CallInv'
  <1> SUFFICES ASSUME CallInv, hci_inquiry PROVE CallInv'
    OBVIOUS
  <1> USE IdsAssumption, NullAssumption, NamesAssumption, StatesAssumption
      DEF CallInv, TypeOK, world, args, inq, search, ghosts, inCall,
          hci_inquiry, Began, hci_get_route
  <1>1. WorldOK'
    BY DEF WorldOK
  <1>2. CallOK'
    <2>1. id' \in Int /\ dev_id' \in Int
      <3>1. CASE id' \in Ids /\ dev_id' = id'
        BY <3>1
      <3>2. CASE id' = -1 /\ dev_id' = -1
        BY <3>2
      <3> QED
        BY <3>1, <3>2
    <2> QED
      BY <2>1 DEF CallOK, Functions
  <1>3. InquiryOK'
    BY RoomOK DEF InquiryOK
  <1>4. SearchOK'
    BY DEF SearchOK
  <1>5. ErrorsOK'
    BY DEF ErrorsOK, Errors
  <1>6. SocketsOK'
    BY DEF SocketsOK, OpenSockets, InUse
  <1>7. ResultOK'
    BY DEF ResultOK, CallOK, InquiryOK, ErrorsOK, Errors
  <1>8. Places'
    BY DEF Places, Searching, Lookups, CallOK, InquiryOK, SocketsOK
  <1>9. OpenSockets'
    BY DEF OpenSockets, InUse, Places, Lookups, CallOK, SocketsOK, Searching
  <1>10. RoomForAll'
    BY RoomOK DEF RoomForAll
  <1>11. ErrorKept'
    BY DEF ErrorKept, CallOK, ErrorsOK, Places, Errors, Searching, Lookups
  <1>12. ReportsItsOwnError'
    BY DEF ReportsItsOwnError, ErrorKept, Lookups, CallOK, Places
  <1>13. ListWasTrue'
    BY DEF ListWasTrue, Lookups, Up, WorldOK, CallOK, Places, Searching, SearchOK
  <1>14. FoundWasUp'
    BY DEF FoundWasUp, ListWasTrue, Lookups, CallOK, Up
  <1>15. InquiryFits'
    BY RoomOK DEF InquiryFits
  <1> QED
    BY <1>1, <1>2, <1>3, <1>4, <1>5, <1>6, <1>7, <1>8, <1>9, <1>10, <1>11, <1>12, <1>13, <1>14, <1>15

LEMMA Keeps_lescan_close == CallInv /\ lescan_close => CallInv'
  <1> SUFFICES ASSUME CallInv, lescan_close PROVE CallInv'
    OBVIOUS
  <1> USE IdsAssumption, NullAssumption, NamesAssumption, StatesAssumption
      DEF CallInv, TypeOK, world, args, inq, search, ghosts, inCall, lescan_close
  <1>1. WorldOK'
    BY DEF WorldOK
  <1>2. CallOK'
    BY DEF CallOK, Functions, Places, Searching
  <1>3. InquiryOK'
    BY DEF InquiryOK
  <1>4. SearchOK'
    BY DEF SearchOK
  <1>5. ErrorsOK'
    BY DEF ErrorsOK, Errors
  <1>6. SocketsOK'
    BY DEF SocketsOK, OpenSockets, InUse
  <1>7. ResultOK'
    BY DEF ResultOK, CallOK, InquiryOK, ErrorsOK, Errors
  <1>8. Places'
    BY DEF Places, Searching, Lookups, CallOK, InquiryOK, SocketsOK
  <1>9. OpenSockets'
    BY DEF OpenSockets, InUse, Places, Lookups, CallOK, SocketsOK, Searching
  <1>10. RoomForAll'
    BY DEF RoomForAll, CallOK, InquiryOK, Places
  <1>11. ErrorKept'
    BY DEF ErrorKept, CallOK, ErrorsOK, Places, Errors, Searching, Lookups
  <1>12. ReportsItsOwnError'
    BY DEF ReportsItsOwnError, ErrorKept, Lookups, CallOK, Places
  <1>13. ListWasTrue'
    BY DEF ListWasTrue, Lookups, Up, WorldOK, CallOK, Places, Searching, SearchOK
  <1>14. FoundWasUp'
    BY DEF FoundWasUp, ListWasTrue, Lookups, CallOK, Up
  <1>15. InquiryFits'
    BY DEF InquiryFits, RoomForAll, InquiryOK, CallOK, Places
  <1> QED
    BY <1>1, <1>2, <1>3, <1>4, <1>5, <1>6, <1>7, <1>8, <1>9, <1>10, <1>11, <1>12, <1>13, <1>14, <1>15

LEMMA Keeps_SearchSocket == CallInv /\ SearchSocket => CallInv'
  <1> SUFFICES ASSUME CallInv, SearchSocket PROVE CallInv'
    OBVIOUS
  <1> USE IdsAssumption, NullAssumption, NamesAssumption, StatesAssumption
      DEF CallInv, TypeOK, world, args, inq, search, ghosts, inCall,
          SearchSocket, Breaks, AfterSearch, Again
  <1>1. WorldOK'
    BY DEF WorldOK
  <1>2. CallOK'
    BY DEF CallOK, Functions, Places, Searching
  <1>3. InquiryOK'
    BY DEF InquiryOK
  <1>4. SearchOK'
    BY DEF SearchOK
  <1>5. ErrorsOK'
    BY DEF ErrorsOK, Errors
  <1>6. SocketsOK'
    BY DEF SocketsOK, OpenSockets, InUse
  <1>7. ResultOK'
    BY DEF ResultOK, CallOK, InquiryOK, ErrorsOK, Errors
  <1>8. Places'
    BY DEF Places, Searching, Lookups, CallOK, InquiryOK, SocketsOK
  <1>9. OpenSockets'
    BY DEF OpenSockets, InUse, Places, Lookups, CallOK, SocketsOK, Searching
  <1>10. RoomForAll'
    BY DEF RoomForAll, CallOK, InquiryOK, Places
  <1>11. ErrorKept'
    BY DEF ErrorKept, CallOK, ErrorsOK, Places, Errors, Searching, Lookups
  <1>12. ReportsItsOwnError'
    BY DEF ReportsItsOwnError, ErrorKept, Lookups, CallOK, Places
  <1>13. ListWasTrue'
    BY DEF ListWasTrue, Lookups, Up, WorldOK, CallOK, Places, Searching, SearchOK
  <1>14. FoundWasUp'
    BY DEF FoundWasUp, ListWasTrue, Lookups, CallOK, Up
  <1>15. InquiryFits'
    BY DEF InquiryFits, RoomForAll, InquiryOK, CallOK, Places
  <1> QED
    BY <1>1, <1>2, <1>3, <1>4, <1>5, <1>6, <1>7, <1>8, <1>9, <1>10, <1>11, <1>12, <1>13, <1>14, <1>15

LEMMA Keeps_SearchList == CallInv /\ SearchList => CallInv'
  <1> SUFFICES ASSUME CallInv, SearchList PROVE CallInv'
    OBVIOUS
  <1> USE IdsAssumption, NullAssumption, NamesAssumption, StatesAssumption
      DEF CallInv, TypeOK, world, args, inq, search, ghosts, inCall, SearchList,
          Breaks
  <1>1. WorldOK'
    BY DEF WorldOK
  <1>2. CallOK'
    BY DEF CallOK, Functions, Places, Searching
  <1>3. InquiryOK'
    BY DEF InquiryOK
  <1>4. SearchOK'
    <2>1. \A x \in Ids : [dev |-> x, up |-> adapters[x].state = "up"]
                             \in [dev : Ids, up : BOOLEAN]
      OBVIOUS
    <2>2. CASE dl' = {}
      BY <2>2 DEF SearchOK
    <2>3. CASE dl' = {[dev |-> d, up |-> adapters[d].state = "up"] :
                         d \in {x \in Ids : adapters[x].state # "absent"}}
      <3>1. \A d \in dl' : d \in [dev : Ids, up : BOOLEAN]
        BY <2>1, <2>3
      <3> QED
        BY <3>1 DEF SearchOK
    <2> QED
      BY <2>2, <2>3
  <1>5. ErrorsOK'
    BY DEF ErrorsOK, Errors
  <1>6. SocketsOK'
    BY DEF SocketsOK, OpenSockets, InUse
  <1>7. ResultOK'
    BY DEF ResultOK, CallOK, InquiryOK, ErrorsOK, Errors
  <1>8. Places'
    BY DEF Places, Searching, Lookups, CallOK, InquiryOK, SocketsOK
  <1>9. OpenSockets'
    BY DEF OpenSockets, InUse, Places, Lookups, CallOK, SocketsOK, Searching
  <1>10. RoomForAll'
    BY DEF RoomForAll, CallOK, InquiryOK, Places
  <1>11. ErrorKept'
    BY DEF ErrorKept, CallOK, ErrorsOK, Places, Errors, Searching, Lookups
  <1>12. ReportsItsOwnError'
    BY DEF ReportsItsOwnError, ErrorKept, Lookups, CallOK, Places
  <1>13. ListWasTrue'
    <2>1. pc' = "each" => \A d \in dl' : d.up => d.dev \in Up
      <3> SUFFICES ASSUME pc' = "each", NEW d \in dl', d.up PROVE d.dev \in Up
        OBVIOUS
      <3>1. PICK x \in Ids : d = [dev |-> x, up |-> adapters[x].state = "up"]
        OBVIOUS
      <3>2. d.dev = x /\ d.up = (adapters[x].state = "up")
        BY <3>1
      <3> QED
        BY <3>2 DEF Up
    <2>2. Up' = Up /\ Up \subseteq wasUp
      BY DEF Up, ListWasTrue
    <2>3. pc' \in {"each", "close"} /\ (pc' = "close" => dev_id' < 0)
      BY DEF ErrorKept, CallOK
    <2>4. pc' = "close" => ~(dev_id' >= 0)
      BY <2>3 DEF CallOK
    <2> QED
      BY <2>1, <2>2, <2>3, <2>4 DEF ListWasTrue
  <1>14. FoundWasUp'
    BY DEF FoundWasUp, ListWasTrue, Lookups, CallOK, Up
  <1>15. InquiryFits'
    BY DEF InquiryFits, RoomForAll, InquiryOK, CallOK, Places
  <1> QED
    BY <1>1, <1>2, <1>3, <1>4, <1>5, <1>6, <1>7, <1>8, <1>9, <1>10, <1>11, <1>12, <1>13, <1>14, <1>15

LEMMA Keeps_SearchEach == CallInv /\ SearchEach => CallInv'
  <1> SUFFICES ASSUME CallInv, SearchEach PROVE CallInv'
    OBVIOUS
  <1> USE IdsAssumption, NullAssumption, NamesAssumption, StatesAssumption
      DEF CallInv, TypeOK, world, args, inq, search, ghosts, inCall, SearchEach,
          Inspects, Matches, Breaks
  <1>1. WorldOK'
    BY DEF WorldOK
  <1>2. CallOK'
    <2>1. \A d \in dl : d.dev \in Ids
      BY DEF SearchOK
    <2>2. \A d \in dl : d.dev \in Int
      BY ONLY <2>1, IdsInt
    <2> QED
      BY <2>2 DEF CallOK, Functions
  <1>3. InquiryOK'
    BY DEF InquiryOK
  <1>4. SearchOK'
    BY DEF SearchOK
  <1>5. ErrorsOK'
    BY DEF ErrorsOK, Errors
  <1>6. SocketsOK'
    BY DEF SocketsOK, OpenSockets, InUse
  <1>7. ResultOK'
    BY DEF ResultOK, CallOK, InquiryOK, ErrorsOK, Errors
  <1>8. Places'
    BY DEF Places, Searching, Lookups, CallOK, InquiryOK, SocketsOK
  <1>9. OpenSockets'
    BY DEF OpenSockets, InUse, Places, Lookups, CallOK, SocketsOK, Searching
  <1>10. RoomForAll'
    BY DEF RoomForAll, CallOK, InquiryOK, Places
  <1>11. ErrorKept'
    <2>1. \A d \in dl : d.dev \in Ids
      BY DEF SearchOK
    <2> QED
      BY <2>1 DEF ErrorKept
  <1>12. ReportsItsOwnError'
    BY DEF ReportsItsOwnError, ErrorKept, Lookups, CallOK, Places
  <1>13. ListWasTrue'
    BY DEF ListWasTrue, Lookups, Up, WorldOK, CallOK, Places, Searching, SearchOK
  <1>14. FoundWasUp'
    BY DEF FoundWasUp, ListWasTrue, Lookups, CallOK, Up
  <1>15. InquiryFits'
    BY DEF InquiryFits, RoomForAll, InquiryOK, CallOK, Places
  <1> QED
    BY <1>1, <1>2, <1>3, <1>4, <1>5, <1>6, <1>7, <1>8, <1>9, <1>10, <1>11, <1>12, <1>13, <1>14, <1>15

LEMMA Keeps_SearchEnd == CallInv /\ SearchEnd => CallInv'
  <1> SUFFICES ASSUME CallInv, SearchEnd PROVE CallInv'
    OBVIOUS
  <1> USE IdsAssumption, NullAssumption, NamesAssumption, StatesAssumption
      DEF CallInv, TypeOK, world, args, inq, search, ghosts, inCall, SearchEnd
  <1>1. WorldOK'
    BY DEF WorldOK
  <1>2. CallOK'
    BY DEF CallOK, Functions, Places, Searching
  <1>3. InquiryOK'
    BY DEF InquiryOK
  <1>4. SearchOK'
    BY DEF SearchOK
  <1>5. ErrorsOK'
    BY DEF ErrorsOK, Errors
  <1>6. SocketsOK'
    BY DEF SocketsOK, OpenSockets, InUse
  <1>7. ResultOK'
    BY DEF ResultOK, CallOK, InquiryOK, ErrorsOK, Errors
  <1>8. Places'
    BY DEF Places, Searching, Lookups, CallOK, InquiryOK, SocketsOK
  <1>9. OpenSockets'
    BY DEF OpenSockets, InUse, Places, Lookups, CallOK, SocketsOK, Searching
  <1>10. RoomForAll'
    BY DEF RoomForAll, CallOK, InquiryOK, Places
  <1>11. ErrorKept'
    BY DEF ErrorKept, CallOK, ErrorsOK, Places, Errors, Searching, Lookups
  <1>12. ReportsItsOwnError'
    BY DEF ReportsItsOwnError, ErrorKept, Lookups, CallOK, Places
  <1>13. ListWasTrue'
    BY DEF ListWasTrue, Up, ErrorKept, CallOK
  <1>14. FoundWasUp'
    BY DEF FoundWasUp, ListWasTrue, Lookups, CallOK, Up
  <1>15. InquiryFits'
    BY DEF InquiryFits, RoomForAll, InquiryOK, CallOK, Places
  <1> QED
    BY <1>1, <1>2, <1>3, <1>4, <1>5, <1>6, <1>7, <1>8, <1>9, <1>10, <1>11, <1>12, <1>13, <1>14, <1>15

LEMMA Keeps_SearchClose == CallInv /\ SearchClose => CallInv'
  <1> SUFFICES ASSUME CallInv, SearchClose PROVE CallInv'
    OBVIOUS
  <1> USE IdsAssumption, NullAssumption, NamesAssumption, StatesAssumption
      DEF CallInv, TypeOK, world, args, inq, search, ghosts, inCall,
          SearchClose, AfterSearch, Again
  <1>1. WorldOK'
    BY DEF WorldOK
  <1>2. CallOK'
    BY DEF CallOK, Functions, Places, Searching
  <1>3. InquiryOK'
    BY DEF InquiryOK
  <1>4. SearchOK'
    BY DEF SearchOK
  <1>5. ErrorsOK'
    BY DEF ErrorsOK, Errors
  <1>6. SocketsOK'
    BY DEF SocketsOK, OpenSockets, InUse
  <1>7. ResultOK'
    BY DEF ResultOK, CallOK, InquiryOK, ErrorsOK, Errors
  <1>8. Places'
    BY DEF Places, Searching, Lookups, CallOK, InquiryOK, SocketsOK
  <1>9. OpenSockets'
    BY DEF OpenSockets, InUse, Places, Lookups, CallOK, SocketsOK, Searching
  <1>10. RoomForAll'
    BY DEF RoomForAll, CallOK, InquiryOK, Places
  <1>11. ErrorKept'
    BY DEF ErrorKept, CallOK, ErrorsOK, Places, Errors, Searching, Lookups
  <1>12. ReportsItsOwnError'
    BY DEF ReportsItsOwnError, ErrorKept, Lookups, CallOK, Places
  <1>13. ListWasTrue'
    BY DEF ListWasTrue, Lookups, Up, WorldOK, CallOK, Places, Searching, SearchOK
  <1>14. FoundWasUp'
    BY DEF FoundWasUp, ListWasTrue, Lookups, CallOK, Up
  <1>15. InquiryFits'
    BY DEF InquiryFits, RoomForAll, InquiryOK, CallOK, Places
  <1> QED
    BY <1>1, <1>2, <1>3, <1>4, <1>5, <1>6, <1>7, <1>8, <1>9, <1>10, <1>11, <1>12, <1>13, <1>14, <1>15

LEMMA Keeps_DevinfoSocket == CallInv /\ DevinfoSocket => CallInv'
  <1> SUFFICES ASSUME CallInv, DevinfoSocket PROVE CallInv'
    OBVIOUS
  <1> USE IdsAssumption, NullAssumption, NamesAssumption, StatesAssumption
      DEF CallInv, TypeOK, world, args, inq, search, ghosts, inCall,
          DevinfoSocket, Breaks
  <1>1. WorldOK'
    BY DEF WorldOK
  <1>2. CallOK'
    BY DEF CallOK, Functions, Places, Searching
  <1>3. InquiryOK'
    BY DEF InquiryOK
  <1>4. SearchOK'
    BY DEF SearchOK
  <1>5. ErrorsOK'
    BY DEF ErrorsOK, Errors
  <1>6. SocketsOK'
    BY DEF SocketsOK, OpenSockets, InUse
  <1>7. ResultOK'
    BY DEF ResultOK, CallOK, InquiryOK, ErrorsOK, Errors
  <1>8. Places'
    BY DEF Places, Searching, Lookups, CallOK, InquiryOK, SocketsOK
  <1>9. OpenSockets'
    BY DEF OpenSockets, InUse, Places, Lookups, CallOK, SocketsOK, Searching
  <1>10. RoomForAll'
    BY DEF RoomForAll, CallOK, InquiryOK, Places
  <1>11. ErrorKept'
    BY DEF ErrorKept, CallOK, ErrorsOK, Places, Errors, Searching, Lookups
  <1>12. ReportsItsOwnError'
    BY DEF ReportsItsOwnError, ErrorKept, Lookups, CallOK, Places
  <1>13. ListWasTrue'
    BY DEF ListWasTrue, Lookups, Up, WorldOK, CallOK, Places, Searching, SearchOK
  <1>14. FoundWasUp'
    BY DEF FoundWasUp, ListWasTrue, Lookups, CallOK, Up
  <1>15. InquiryFits'
    BY DEF InquiryFits, RoomForAll, InquiryOK, CallOK, Places
  <1> QED
    BY <1>1, <1>2, <1>3, <1>4, <1>5, <1>6, <1>7, <1>8, <1>9, <1>10, <1>11, <1>12, <1>13, <1>14, <1>15

LEMMA Keeps_DevbaInfo == CallInv /\ DevbaInfo => CallInv'
  <1> SUFFICES ASSUME CallInv, DevbaInfo PROVE CallInv'
    OBVIOUS
  <1> USE IdsAssumption, NullAssumption, NamesAssumption, StatesAssumption
      DEF CallInv, TypeOK, world, args, inq, search, ghosts, inCall, DevbaInfo,
          Breaks
  <1>1. WorldOK'
    BY DEF WorldOK
  <1>2. CallOK'
    BY DEF CallOK, Functions, Places, Searching
  <1>3. InquiryOK'
    BY DEF InquiryOK
  <1>4. SearchOK'
    BY DEF SearchOK
  <1>5. ErrorsOK'
    BY DEF ErrorsOK, Errors
  <1>6. SocketsOK'
    BY DEF SocketsOK, OpenSockets, InUse
  <1>7. ResultOK'
    BY DEF ResultOK, CallOK, InquiryOK, ErrorsOK, Errors
  <1>8. Places'
    BY DEF Places, Searching, Lookups, CallOK, InquiryOK, SocketsOK
  <1>9. OpenSockets'
    BY DEF OpenSockets, InUse, Places, Lookups, CallOK, SocketsOK, Searching
  <1>10. RoomForAll'
    BY DEF RoomForAll, CallOK, InquiryOK, Places
  <1>11. ErrorKept'
    BY DEF ErrorKept, CallOK, ErrorsOK, Places, Errors, Searching, Lookups
  <1>12. ReportsItsOwnError'
    BY DEF ReportsItsOwnError, ErrorKept, Lookups, CallOK, Places
  <1>13. ListWasTrue'
    BY DEF ListWasTrue, Lookups, Up, WorldOK, CallOK, Places, Searching, SearchOK
  <1>14. FoundWasUp'
    BY DEF FoundWasUp, ListWasTrue, Lookups, CallOK, Up
  <1>15. InquiryFits'
    BY DEF InquiryFits, RoomForAll, InquiryOK, CallOK, Places
  <1> QED
    BY <1>1, <1>2, <1>3, <1>4, <1>5, <1>6, <1>7, <1>8, <1>9, <1>10, <1>11, <1>12, <1>13, <1>14, <1>15

LEMMA Keeps_OpenSocket == CallInv /\ OpenSocket => CallInv'
  <1> SUFFICES ASSUME CallInv, OpenSocket PROVE CallInv'
    OBVIOUS
  <1> USE IdsAssumption, NullAssumption, NamesAssumption, StatesAssumption
      DEF CallInv, TypeOK, world, args, inq, search, ghosts, inCall, OpenSocket,
          Breaks
  <1>1. WorldOK'
    BY DEF WorldOK
  <1>2. CallOK'
    BY DEF CallOK, Functions, Places, Searching
  <1>3. InquiryOK'
    BY DEF InquiryOK
  <1>4. SearchOK'
    BY DEF SearchOK
  <1>5. ErrorsOK'
    BY DEF ErrorsOK, Errors
  <1>6. SocketsOK'
    BY DEF SocketsOK, OpenSockets, InUse
  <1>7. ResultOK'
    BY DEF ResultOK, CallOK, InquiryOK, ErrorsOK, Errors
  <1>8. Places'
    BY DEF Places, Searching, Lookups, CallOK, InquiryOK, SocketsOK
  <1>9. OpenSockets'
    BY DEF OpenSockets, InUse, Places, Lookups, CallOK, SocketsOK, Searching
  <1>10. RoomForAll'
    BY DEF RoomForAll, CallOK, InquiryOK, Places
  <1>11. ErrorKept'
    BY DEF ErrorKept, CallOK, ErrorsOK, Places, Errors, Searching, Lookups
  <1>12. ReportsItsOwnError'
    BY DEF ReportsItsOwnError, ErrorKept, Lookups, CallOK, Places
  <1>13. ListWasTrue'
    BY DEF ListWasTrue, Lookups, Up, WorldOK, CallOK, Places, Searching, SearchOK
  <1>14. FoundWasUp'
    BY DEF FoundWasUp, ListWasTrue, Lookups, CallOK, Up
  <1>15. InquiryFits'
    BY DEF InquiryFits, RoomForAll, InquiryOK, CallOK, Places
  <1> QED
    BY <1>1, <1>2, <1>3, <1>4, <1>5, <1>6, <1>7, <1>8, <1>9, <1>10, <1>11, <1>12, <1>13, <1>14, <1>15

LEMMA Keeps_Bind == CallInv /\ Bind => CallInv'
  <1> SUFFICES ASSUME CallInv, Bind PROVE CallInv'
    OBVIOUS
  <1> USE IdsAssumption, NullAssumption, NamesAssumption, StatesAssumption
      DEF CallInv, TypeOK, world, args, inq, search, ghosts, inCall, Bind,
          Breaks
  <1>1. WorldOK'
    BY DEF WorldOK
  <1>2. CallOK'
    BY DEF CallOK, Functions, Places, Searching
  <1>3. InquiryOK'
    BY DEF InquiryOK
  <1>4. SearchOK'
    BY DEF SearchOK
  <1>5. ErrorsOK'
    BY DEF ErrorsOK, Errors
  <1>6. SocketsOK'
    BY DEF SocketsOK, OpenSockets, InUse
  <1>7. ResultOK'
    BY DEF ResultOK, CallOK, InquiryOK, ErrorsOK, Errors
  <1>8. Places'
    BY DEF Places, Searching, Lookups, CallOK, InquiryOK, SocketsOK
  <1>9. OpenSockets'
    BY DEF OpenSockets, InUse, Places, Lookups, CallOK, SocketsOK, Searching
  <1>10. RoomForAll'
    BY DEF RoomForAll, CallOK, InquiryOK, Places
  <1>11. ErrorKept'
    BY DEF ErrorKept, CallOK, ErrorsOK, Places, Errors, Searching, Lookups
  <1>12. ReportsItsOwnError'
    BY DEF ReportsItsOwnError, ErrorKept, Lookups, CallOK, Places
  <1>13. ListWasTrue'
    BY DEF ListWasTrue, Lookups, Up, WorldOK, CallOK, Places, Searching, SearchOK
  <1>14. FoundWasUp'
    BY DEF FoundWasUp, ListWasTrue, Lookups, CallOK, Up
  <1>15. InquiryFits'
    BY DEF InquiryFits, RoomForAll, InquiryOK, CallOK, Places
  <1> QED
    BY <1>1, <1>2, <1>3, <1>4, <1>5, <1>6, <1>7, <1>8, <1>9, <1>10, <1>11, <1>12, <1>13, <1>14, <1>15

LEMMA Keeps_InquirySocket == CallInv /\ InquirySocket => CallInv'
  <1> SUFFICES ASSUME CallInv, InquirySocket PROVE CallInv'
    OBVIOUS
  <1> USE IdsAssumption, NullAssumption, NamesAssumption, StatesAssumption
      DEF CallInv, TypeOK, world, args, inq, search, ghosts, inCall,
          InquirySocket, Fails, Breaks
  <1>1. WorldOK'
    BY DEF WorldOK
  <1>2. CallOK'
    BY DEF CallOK, Functions, Places, Searching
  <1>3. InquiryOK'
    BY DEF InquiryOK
  <1>4. SearchOK'
    BY DEF SearchOK
  <1>5. ErrorsOK'
    BY DEF ErrorsOK, Errors
  <1>6. SocketsOK'
    BY DEF SocketsOK, OpenSockets, InUse
  <1>7. ResultOK'
    BY DEF ResultOK, CallOK, InquiryOK, ErrorsOK, Errors
  <1>8. Places'
    BY DEF Places, Searching, Lookups, CallOK, InquiryOK, SocketsOK
  <1>9. OpenSockets'
    BY DEF OpenSockets, InUse, Places, Lookups, CallOK, SocketsOK, Searching
  <1>10. RoomForAll'
    BY DEF RoomForAll, CallOK, InquiryOK, Places
  <1>11. ErrorKept'
    BY DEF ErrorKept, CallOK, ErrorsOK, Places, Errors, Searching, Lookups
  <1>12. ReportsItsOwnError'
    BY DEF ReportsItsOwnError, ErrorKept, Lookups, CallOK, Places
  <1>13. ListWasTrue'
    BY DEF ListWasTrue, Lookups, Up, WorldOK, CallOK, Places, Searching, SearchOK
  <1>14. FoundWasUp'
    BY DEF FoundWasUp, ListWasTrue, Lookups, CallOK, Up
  <1>15. InquiryFits'
    BY DEF InquiryFits, RoomForAll, InquiryOK, CallOK, Places
  <1> QED
    BY <1>1, <1>2, <1>3, <1>4, <1>5, <1>6, <1>7, <1>8, <1>9, <1>10, <1>11, <1>12, <1>13, <1>14, <1>15

LEMMA Keeps_Inquire == CallInv /\ Inquire => CallInv'
  <1> SUFFICES ASSUME CallInv, Inquire PROVE CallInv'
    OBVIOUS
  <1> USE IdsAssumption, NullAssumption, NamesAssumption, StatesAssumption
      DEF CallInv, TypeOK, world, args, inq, search, ghosts, inCall, Inquire,
          Fails, Breaks, Collected
  <1>1. WorldOK'
    BY DEF WorldOK
  <1>2. CallOK'
    BY DEF CallOK, Functions, Places, Searching
  <1>3. InquiryOK'
    BY DEF InquiryOK
  <1>4. SearchOK'
    BY DEF SearchOK
  <1>5. ErrorsOK'
    BY DEF ErrorsOK, Errors
  <1>6. SocketsOK'
    BY DEF SocketsOK, OpenSockets, InUse
  <1>7. ResultOK'
    BY DEF ResultOK, CallOK, InquiryOK, ErrorsOK, Errors
  <1>8. Places'
    BY DEF Places, Searching, Lookups, CallOK, InquiryOK, SocketsOK
  <1>9. OpenSockets'
    BY DEF OpenSockets, InUse, Places, Lookups, CallOK, SocketsOK, Searching
  <1>10. RoomForAll'
    BY DEF RoomForAll, CallOK, InquiryOK, Places
  <1>11. ErrorKept'
    BY DEF ErrorKept, CallOK, ErrorsOK, Places, Errors, Searching, Lookups
  <1>12. ReportsItsOwnError'
    BY DEF ReportsItsOwnError, ErrorKept, Lookups, CallOK, Places
  <1>13. ListWasTrue'
    BY DEF ListWasTrue, Lookups, Up, WorldOK, CallOK, Places, Searching, SearchOK
  <1>14. FoundWasUp'
    BY DEF FoundWasUp, ListWasTrue, Lookups, CallOK, Up
  <1>15. InquiryFits'
    BY DEF InquiryFits, RoomForAll, InquiryOK, CallOK, Places
  <1> QED
    BY <1>1, <1>2, <1>3, <1>4, <1>5, <1>6, <1>7, <1>8, <1>9, <1>10, <1>11, <1>12, <1>13, <1>14, <1>15

LEMMA Keeps_Return == CallInv /\ Return => CallInv'
  <1> SUFFICES ASSUME CallInv, Return PROVE CallInv'
    OBVIOUS
  <1> USE IdsAssumption, NullAssumption, NamesAssumption, StatesAssumption
      DEF CallInv, TypeOK, world, args, inq, search, ghosts, inCall, Return,
          Reason
  <1>1. WorldOK'
    BY DEF WorldOK
  <1>2. CallOK'
    BY DEF CallOK, Functions, Places, Searching
  <1>3. InquiryOK'
    BY DEF InquiryOK
  <1>4. SearchOK'
    BY DEF SearchOK
  <1>5. ErrorsOK'
    BY DEF ErrorsOK, Errors
  <1>6. SocketsOK'
    BY DEF SocketsOK, OpenSockets, InUse
  <1>7. ResultOK'
    BY DEF ResultOK, CallOK, InquiryOK, ErrorsOK, Errors
  <1>8. Places'
    BY DEF Places, Searching, Lookups, CallOK, InquiryOK, SocketsOK
  <1>9. OpenSockets'
    BY DEF OpenSockets, InUse, Places, Lookups, CallOK, SocketsOK, Searching
  <1>10. RoomForAll'
    BY DEF RoomForAll, CallOK, InquiryOK, Places
  <1>11. ErrorKept'
    BY DEF ErrorKept, CallOK, ErrorsOK, Places, Errors, Searching, Lookups
  <1>12. ReportsItsOwnError'
    BY DEF ReportsItsOwnError, ErrorKept, Lookups, CallOK, Places
  <1>13. ListWasTrue'
    BY DEF ListWasTrue, Lookups, Up, WorldOK, CallOK, Places, Searching, SearchOK
  <1>14. FoundWasUp'
    BY DEF FoundWasUp, ListWasTrue, Lookups, CallOK, Up
  <1>15. InquiryFits'
    BY DEF InquiryFits, RoomForAll, InquiryOK, CallOK, Places
  <1> QED
    BY <1>1, <1>2, <1>3, <1>4, <1>5, <1>6, <1>7, <1>8, <1>9, <1>10, <1>11, <1>12, <1>13, <1>14, <1>15

LEMMA Keeps_Change == CallInv /\ Change => CallInv'
  <1> SUFFICES ASSUME CallInv, Change PROVE CallInv'
    OBVIOUS
  <1> USE IdsAssumption, NullAssumption, NamesAssumption, StatesAssumption
      DEF CallInv, TypeOK, world, args, inq, search, ghosts, inCall, Change
  <1>1. WorldOK'
    BY DEF WorldOK
  <1>2. CallOK'
    BY DEF CallOK, Functions, Places, Searching
  <1>3. InquiryOK'
    BY DEF InquiryOK
  <1>4. SearchOK'
    BY DEF SearchOK
  <1>5. ErrorsOK'
    BY DEF ErrorsOK, Errors
  <1>6. SocketsOK'
    BY DEF SocketsOK, OpenSockets, InUse
  <1>7. ResultOK'
    BY DEF ResultOK, CallOK, InquiryOK, ErrorsOK, Errors
  <1>8. Places'
    BY DEF Places, Searching, Lookups, CallOK, InquiryOK, SocketsOK
  <1>9. OpenSockets'
    BY DEF OpenSockets, InUse, Places, Lookups, CallOK, SocketsOK, Searching
  <1>10. RoomForAll'
    BY DEF RoomForAll, CallOK, InquiryOK, Places
  <1>11. ErrorKept'
    BY DEF ErrorKept, CallOK, ErrorsOK, Places, Errors, Searching, Lookups
  <1>12. ReportsItsOwnError'
    BY DEF ReportsItsOwnError, ErrorKept, Lookups, CallOK, Places
  <1>13. ListWasTrue'
    BY DEF ListWasTrue, Lookups, Up, WorldOK, CallOK, Places, Searching, SearchOK
  <1>14. FoundWasUp'
    BY DEF FoundWasUp, ListWasTrue, Lookups, CallOK, Up
  <1>15. InquiryFits'
    BY DEF InquiryFits, RoomForAll, InquiryOK, CallOK, Places
  <1> QED
    BY <1>1, <1>2, <1>3, <1>4, <1>5, <1>6, <1>7, <1>8, <1>9, <1>10, <1>11, <1>12, <1>13, <1>14, <1>15

LEMMA KeepsCallInv == CallInv /\ [Next]_vars => CallInv'
  <1> SUFFICES ASSUME CallInv, [Next]_vars PROVE CallInv'
    OBVIOUS
  <1>1. CASE Caller
    BY <1>1, Keeps_lescan_ntoid, Keeps_lescan_addr_to_dev_id, Keeps_lescan_default_dev_id, Keeps_lescan_open_id, Keeps_hci_inquiry, Keeps_lescan_close DEF Caller
  <1>2. CASE Step
    BY <1>2, Keeps_SearchSocket, Keeps_SearchList, Keeps_SearchEach, Keeps_SearchEnd, Keeps_SearchClose, Keeps_DevinfoSocket, Keeps_DevbaInfo, Keeps_OpenSocket, Keeps_Bind, Keeps_InquirySocket, Keeps_Inquire, Keeps_Return DEF Step
  <1>3. CASE Change
    BY <1>3, Keeps_Change
  <1>4. CASE UNCHANGED vars
    BY <1>4 DEF vars, world, args, inq, search, ghosts, CallInv, TypeOK, WorldOK,
       CallOK, InquiryOK, SearchOK, ErrorsOK, SocketsOK, ResultOK, Places, Searching,
       OpenSockets, InUse, RoomForAll, ErrorKept, ReportsItsOwnError, Lookups,
       ListWasTrue, FoundWasUp, InquiryFits, Up
  <1> QED
    BY <1>1, <1>2, <1>3, <1>4 DEF Next, Finished

----------------------------------------------------------------------------
\* What a search finds and what it does not miss

\* -1 is no adapter.
LEMMA NoAdapter ==
    ASSUME SearchInv, NEW d \in Int, d < 0 PROVE d \notin stable
  BY IdsAssumption DEF SearchInv

\* No search before the first call.
LEMMA InitSearchInv == Init => SearchInv
  BY DEF Init, SearchInv, SearchesFor, NotMissed, ResultMeant, StablyUp,
     DefaultIsFound, NameMeansAdapter, NamedIsFound, NothingMissed, Searching

LEMMA Finds_byName ==
    IInv /\ (lescan_ntoid \/ lescan_addr_to_dev_id) => SearchInv'
  <1> SUFFICES ASSUME IInv, lescan_ntoid \/ lescan_addr_to_dev_id PROVE SearchInv'
    OBVIOUS
  <1> USE IdsAssumption
      DEF world, args, inq, search, ghosts, inCall, lescan_ntoid,
          lescan_addr_to_dev_id, Began, hci_devid, ByName
  <1>1. stable' \subseteq Ids
    BY DEF SearchInv
  <1>2. SearchesFor'
    BY DEF SearchInv, SearchesFor, Searching
  <1>3. NotMissed'
    BY DEF SearchInv, NotMissed, StablyUp, Matches, Searching
  <1>4. ResultMeant'
    BY DEF SearchInv, ResultMeant, StablyUp, Denotes, Resolved
  <1>5. DefaultIsFound' /\ NameMeansAdapter' /\ NamedIsFound'
    BY DEF SearchInv, DefaultIsFound, NameMeansAdapter, NamedIsFound, NothingMissed
  <1> QED
    BY <1>1, <1>2, <1>3, <1>4, <1>5 DEF SearchInv

LEMMA Finds_other ==
    IInv /\ (lescan_default_dev_id \/ lescan_open_id \/ hci_inquiry) => SearchInv'
  <1> SUFFICES ASSUME IInv, lescan_default_dev_id \/ lescan_open_id \/ hci_inquiry PROVE SearchInv'
    OBVIOUS
  <1> USE IdsAssumption
      DEF world, args, inq, search, ghosts, inCall, lescan_default_dev_id,
          lescan_open_id, hci_inquiry, Began, hci_get_route, ByName
  <1>1. stable' \subseteq Ids
    BY DEF SearchInv
  <1>2. SearchesFor'
    BY DEF SearchInv, SearchesFor, Searching
  <1>3. NotMissed'
    BY DEF SearchInv, NotMissed, StablyUp, Matches, Searching
  <1>4. ResultMeant'
    BY DEF SearchInv, ResultMeant, StablyUp, Denotes, Resolved
  <1>5. DefaultIsFound' /\ NameMeansAdapter' /\ NamedIsFound'
    BY DEF SearchInv, DefaultIsFound, NameMeansAdapter, NamedIsFound, NothingMissed
  <1> QED
    BY <1>1, <1>2, <1>3, <1>4, <1>5 DEF SearchInv

LEMMA Finds_SearchSocket == IInv /\ SearchSocket => SearchInv'
  <1> SUFFICES ASSUME IInv, SearchSocket PROVE SearchInv'
    OBVIOUS
  <1> USE IdsAssumption
      DEF world, args, inq, search, ghosts, inCall, SearchSocket, ByName,
          Breaks, AfterSearch, Again, IInv, CallInv, Places, Searching, Lookups,
          ErrorKept
  <1>1. stable' \subseteq Ids
    BY DEF SearchInv
  <1>2. SearchesFor'
    BY DEF SearchInv, SearchesFor, Searching
  <1>3. NotMissed'
    BY DEF SearchInv, NotMissed, StablyUp, Matches, Searching
  <1>4. ResultMeant'
    BY DEF SearchInv, ResultMeant, StablyUp, Denotes, Resolved
  <1>5. DefaultIsFound' /\ NameMeansAdapter' /\ NamedIsFound'
    BY DEF SearchInv, DefaultIsFound, NameMeansAdapter, NamedIsFound, NothingMissed
  <1> QED
    BY <1>1, <1>2, <1>3, <1>4, <1>5 DEF SearchInv

LEMMA Finds_SearchList == IInv /\ SearchList => SearchInv'
  <1> SUFFICES ASSUME IInv, SearchList PROVE SearchInv'
    OBVIOUS
  <1> USE IdsAssumption
      DEF world, args, inq, search, ghosts, inCall, SearchList, ByName, Breaks,
          IInv, CallInv, Places, Searching, Lookups, ErrorKept
  <1>1. stable' \subseteq Ids
    BY DEF SearchInv
  <1>2. SearchesFor'
    BY DEF SearchInv, SearchesFor, Searching
  <1>3. NotMissed'
    BY DEF SearchInv, NotMissed, StablyUp, Matches, Searching
  <1>4. ResultMeant'
    <2>1. dev_id' \in Int /\ dev_id' < 0 /\ stable' = stable /\ pc' # "return"
      BY DEF TypeOK, CallOK
    <2>2. dev_id' \notin stable'
      BY <2>1, NoAdapter DEF IInv
    <2> QED
      BY <2>1, <2>2 DEF ResultMeant
  <1>5. DefaultIsFound' /\ NameMeansAdapter' /\ NamedIsFound'
    BY DEF SearchInv, DefaultIsFound, NameMeansAdapter, NamedIsFound, NothingMissed
  <1> QED
    BY <1>1, <1>2, <1>3, <1>4, <1>5 DEF SearchInv

LEMMA Finds_SearchEach == IInv /\ SearchEach => SearchInv'
  <1> SUFFICES ASSUME IInv, SearchEach PROVE SearchInv'
    OBVIOUS
  <1> USE IdsAssumption
      DEF world, args, inq, search, ghosts, inCall, SearchEach, Breaks, ByName,
          IInv, CallInv, Places, Searching, Lookups, ErrorKept
  <1>1. stable' \subseteq Ids
    BY DEF SearchInv
  <1>2. SearchesFor'
    BY DEF SearchInv, SearchesFor, Searching
  <1>3. NotMissed'
    <2>1. PICK d \in dl :
             /\ dl' = dl \ {d}
             /\ \/ dev_id' = d.dev /\ pc' = "close"
                \/ ~(d.up /\ Matches(d.dev)) /\ pc' = pc
                \/ broken' /\ pc' = pc
      BY DEF Inspects
    <2>2. dl \subseteq [dev : Ids, up : BOOLEAN] /\ pc = "each"
      BY DEF TypeOK, SearchOK
    <2>3. CASE dev_id' = d.dev /\ pc' = "close"
      <3>1. d.dev \in Ids
        BY <2>2
      <3>2. ~(dev_id' < 0)
        BY <2>3, <3>1, IdsNotNegative
      <3> QED
        BY <2>3, <3>2 DEF SearchInv, NotMissed, StablyUp, Searching
    <2>4. CASE ~(d.up /\ Matches(d.dev)) /\ pc' = pc
      <3>1. ASSUME NEW x \in StablyUp, Matches(x)
            PROVE  ~broken' => [dev |-> x, up |-> TRUE] \in dl'
        <4> SUFFICES ASSUME ~broken' PROVE [dev |-> x, up |-> TRUE] \in dl'
          OBVIOUS
        <4>1. [dev |-> x, up |-> TRUE] \in dl
          BY <2>2, <3>1 DEF SearchInv, NotMissed
        <4>2. d # [dev |-> x, up |-> TRUE]
          BY <2>4, <3>1
        <4> QED
          BY <2>1, <4>1, <4>2
      <3> QED
        BY <2>2, <2>4, <3>1 DEF SearchInv, NotMissed, StablyUp, Matches, Searching
    <2>5. CASE broken' /\ pc' = pc
      BY <2>2, <2>5 DEF SearchInv, NotMissed
    <2> QED
      BY <2>1, <2>3, <2>4, <2>5
  <1>4. ResultMeant'
    <2>1. SUFFICES ASSUME pc' = "close", fn \in ByName, name.form = "colons"
                   PROVE  Denotes(name, dev_id')
      BY DEF ResultMeant, Denotes, Resolved, SearchInv, SearchesFor, StartsWithHci
    <2>2. Matches(dev_id') /\ test = "same" /\ ba = name.addr
      BY <2>1 DEF SearchInv, SearchesFor, str2ba
    <2> QED
      BY <2>1, <2>2 DEF Denotes, Resolved, Matches
  <1>5. DefaultIsFound' /\ NameMeansAdapter' /\ NamedIsFound'
    BY DEF SearchInv, DefaultIsFound, NameMeansAdapter, NamedIsFound, NothingMissed
  <1> QED
    BY <1>1, <1>2, <1>3, <1>4, <1>5 DEF SearchInv

LEMMA Finds_SearchEnd == IInv /\ SearchEnd => SearchInv'
  <1> SUFFICES ASSUME IInv, SearchEnd PROVE SearchInv'
    OBVIOUS
  <1> USE IdsAssumption
      DEF world, args, inq, search, ghosts, inCall, SearchEnd, ByName, IInv,
          CallInv, Places, Searching, Lookups, ErrorKept
  <1>1. stable' \subseteq Ids
    BY DEF SearchInv
  <1>2. SearchesFor'
    BY DEF SearchInv, SearchesFor, Searching
  <1>3. NotMissed'
    BY DEF SearchInv, NotMissed, StablyUp, Matches, Searching
  <1>4. ResultMeant'
    <2>1. dev_id' \in Int /\ dev_id' < 0 /\ stable' = stable /\ pc' # "return"
      BY DEF TypeOK, CallOK
    <2>2. dev_id' \notin stable'
      BY <2>1, NoAdapter DEF IInv
    <2> QED
      BY <2>1, <2>2 DEF ResultMeant
  <1>5. DefaultIsFound' /\ NameMeansAdapter' /\ NamedIsFound'
    BY DEF SearchInv, DefaultIsFound, NameMeansAdapter, NamedIsFound, NothingMissed
  <1> QED
    BY <1>1, <1>2, <1>3, <1>4, <1>5 DEF SearchInv

LEMMA Finds_SearchClose == IInv /\ SearchClose => SearchInv'
  <1> SUFFICES ASSUME IInv, SearchClose PROVE SearchInv'
    OBVIOUS
  <1> USE IdsAssumption
      DEF world, args, inq, search, ghosts, inCall, SearchClose, ByName,
          AfterSearch, Again, IInv, CallInv, Places, Searching, Lookups,
          ErrorKept
  <1>1. stable' \subseteq Ids
    BY DEF SearchInv
  <1>2. SearchesFor'
    BY DEF SearchInv, SearchesFor, Searching
  <1>3. NotMissed'
    <2>1. pc = "close" /\ pc' \in {"socket", "routed", "return"}
      OBVIOUS
    <2>2. ASSUME pc' = "socket", ~broken, NEW d \in StablyUp,
                 fn = "lescan_default_dev_id"
          PROVE  adapters[d].raw \/ adapters[d].addr = BDADDR_ANY
      <3>1. dev_id < 0 /\ test = "other" /\ fn \in {"lescan_default_dev_id", "hci_inquiry"}
        BY <2>2
      <3>2. ~Matches(d)
        BY <2>1, <2>2, <3>1 DEF SearchInv, NotMissed
      <3>3. fn = "lescan_default_dev_id" => ba = BDADDR_ANY
        BY <2>1 DEF SearchInv, SearchesFor
      <3> QED
        BY <2>2, <3>1, <3>2, <3>3 DEF Matches, StablyUp
    <2>3. StablyUp' = StablyUp
      BY DEF StablyUp
    <2> QED
      BY <2>1, <2>2, <2>3 DEF NotMissed
  <1>4. ResultMeant'
    <2>1. pc = "close" /\ StablyUp' = StablyUp
      BY DEF StablyUp
    <2>2. ASSUME pc' = "return", dev_id < 0, ~broken, NEW d \in StablyUp
          PROVE  /\ fn = "lescan_default_dev_id" =>
                        adapters[d].raw /\ adapters[d].addr # BDADDR_ANY
                 /\ fn \in ByName /\ Resolved(name) => ~Denotes(name, d)
      <3>1. ~Matches(d) /\ adapters[d].state = "up"
        BY <2>1, <2>2 DEF SearchInv, NotMissed, StablyUp
      <3>2. ASSUME fn = "lescan_default_dev_id"
            PROVE  adapters[d].raw /\ adapters[d].addr # BDADDR_ANY
        <4>1. test = "same" /\ ba = BDADDR_ANY
          BY <2>1, <2>2, <3>2 DEF SearchInv, SearchesFor, TypeOK, SearchOK
        <4> QED
          BY <2>1, <2>2, <3>1, <3>2, <4>1 DEF SearchInv, NotMissed, Matches
      <3>3. ASSUME fn \in ByName, Resolved(name) PROVE ~Denotes(name, d)
        <4>1. test = "same" /\ ba = str2ba(name) /\ ~StartsWithHci(name)
          BY <2>1, <3>3 DEF SearchInv, SearchesFor
        <4> QED
          BY <3>1, <3>3, <4>1 DEF Denotes, Resolved, Matches, str2ba, StartsWithHci
      <3> QED
        BY <3>2, <3>3
    <2>3. pc' \in {"return", "routed", "socket"}
      OBVIOUS
    <2>4. fn \in ByName /\ dev_id \in stable /\ Resolved(name)
             => Denotes(name, dev_id)
      BY <2>1 DEF SearchInv, ResultMeant
    <2>5. pc' = "return" /\ dev_id < 0 /\ ~broken => \A d \in StablyUp :
             /\ fn = "lescan_default_dev_id" =>
                    adapters[d].raw /\ adapters[d].addr # BDADDR_ANY
             /\ fn \in ByName /\ Resolved(name) => ~Denotes(name, d)
      BY <2>2
    <2> QED
      BY <2>1, <2>3, <2>4, <2>5 DEF ResultMeant, Denotes, Resolved
  <1>5. DefaultIsFound' /\ NameMeansAdapter' /\ NamedIsFound'
    BY DEF SearchInv, DefaultIsFound, NameMeansAdapter, NamedIsFound, NothingMissed
  <1> QED
    BY <1>1, <1>2, <1>3, <1>4, <1>5 DEF SearchInv

LEMMA Finds_Devinfo == IInv /\ (DevinfoSocket \/ DevbaInfo) => SearchInv'
  <1> SUFFICES ASSUME IInv, DevinfoSocket \/ DevbaInfo PROVE SearchInv'
    OBVIOUS
  <1> USE IdsAssumption
      DEF world, args, inq, search, ghosts, inCall, DevinfoSocket, DevbaInfo,
          Breaks, ByName, IInv, CallInv, Places
  <1>1. stable' \subseteq Ids
    BY DEF SearchInv
  <1>2. SearchesFor'
    BY DEF SearchInv, SearchesFor, Searching
  <1>3. NotMissed'
    BY DEF SearchInv, NotMissed, StablyUp, Matches, Searching
  <1>4. ResultMeant'
    <2>1. StablyUp' = StablyUp /\ stable' = stable /\ -1 \notin stable
      BY NoAdapter DEF StablyUp
    <2>2. id = atoi(name) /\ StartsWithHci(name) /\ fn \in ByName
      BY DEF SearchInv, SearchesFor
    <2>3. CASE DevinfoSocket
      BY <2>1, <2>3 DEF ResultMeant
    <2>4. CASE DevbaInfo
      <3>1. /\ pc' = "return"
            /\ \/ dev_id' = id /\ id \in Ids
               \/ dev_id' = -1 /\ (id \notin Ids \/ adapters[id].state # "up")
               \/ dev_id' = -1 /\ broken'
        BY <2>4
      <3>2. name.form = "hciN" => id = name.id
        BY <2>2 DEF atoi
      <3>3. \A d \in StablyUp :
               dev_id' < 0 /\ ~broken' /\ Resolved(name) => ~Denotes(name, d)
        <4> SUFFICES ASSUME NEW d \in StablyUp, dev_id' < 0, ~broken', Resolved(name)
                     PROVE  ~Denotes(name, d)
          OBVIOUS
        <4>1. d \in Ids /\ adapters[d].state = "up"
          BY DEF StablyUp, SearchInv
        <4>2. id \notin Ids \/ adapters[id].state # "up"
          BY <3>1, IdsNotNegative
        <4> QED
          BY <2>2, <3>1, <3>2, <4>1, <4>2 DEF Denotes, Resolved, StartsWithHci
      <3>4. dev_id' \in stable /\ Resolved(name) => Denotes(name, dev_id')
        BY <2>1, <2>2, <3>1, <3>2 DEF Denotes, Resolved, StartsWithHci
      <3> QED
        BY <2>1, <2>2, <3>1, <3>3, <3>4 DEF ResultMeant, Denotes, Resolved
    <2> QED
      BY <2>3, <2>4
  <1>5. DefaultIsFound' /\ NameMeansAdapter' /\ NamedIsFound'
    BY DEF SearchInv, DefaultIsFound, NameMeansAdapter, NamedIsFound, NothingMissed
  <1> QED
    BY <1>1, <1>2, <1>3, <1>4, <1>5 DEF SearchInv

LEMMA Finds_Elsewhere ==
    IInv /\ (OpenSocket \/ Bind \/ InquirySocket \/ Inquire) => SearchInv'
  <1> SUFFICES ASSUME IInv, OpenSocket \/ Bind \/ InquirySocket \/ Inquire PROVE SearchInv'
    OBVIOUS
  <1> USE IdsAssumption
      DEF world, args, inq, search, ghosts, inCall, OpenSocket, Bind,
          InquirySocket, Inquire, Fails, Breaks, ByName, IInv, CallInv, Places
  <1>1. stable' \subseteq Ids
    BY DEF SearchInv
  <1>2. SearchesFor'
    BY DEF SearchInv, SearchesFor, Searching
  <1>3. NotMissed'
    BY DEF SearchInv, NotMissed, StablyUp, Matches, Searching
  <1>4. ResultMeant'
    BY DEF SearchInv, ResultMeant, StablyUp, Denotes, Resolved
  <1>5. DefaultIsFound' /\ NameMeansAdapter' /\ NamedIsFound'
    BY DEF SearchInv, DefaultIsFound, NameMeansAdapter, NamedIsFound, NothingMissed
  <1> QED
    BY <1>1, <1>2, <1>3, <1>4, <1>5 DEF SearchInv

LEMMA Finds_Return == IInv /\ (Return \/ lescan_close) => SearchInv'
  <1> SUFFICES ASSUME IInv, Return \/ lescan_close PROVE SearchInv'
    OBVIOUS
  <1> USE IdsAssumption
      DEF world, args, inq, search, ghosts, inCall, Return, lescan_close,
          ByName, IInv, CallInv, Lookups
  <1>1. stable' \subseteq Ids
    BY DEF SearchInv
  <1>2. SearchesFor'
    BY DEF SearchInv, SearchesFor, Searching
  <1>3. NotMissed'
    BY DEF SearchInv, NotMissed, StablyUp, Matches, Searching
  <1>4. ResultMeant'
    BY DEF SearchInv, ResultMeant, StablyUp, Denotes, Resolved
  <1>5. DefaultIsFound' /\ NameMeansAdapter' /\ NamedIsFound'
    <2>1. CASE lescan_close
      BY <2>1 DEF SearchInv, DefaultIsFound, NameMeansAdapter, NamedIsFound, NothingMissed, Denotes, Resolved
    <2>2. CASE Return
      <3>1. /\ fn \in Lookups =>
                  IF dev_id < 0 THEN ret'.val = -1 ELSE ret'.val = dev_id
            /\ StablyUp' = StablyUp
        BY <2>2 DEF StablyUp
      <3>2. -1 \notin stable /\ dev_id \in Int
        BY NoAdapter DEF TypeOK, CallOK
      <3>3. DefaultIsFound'
        BY <2>2, <3>1, <3>2 DEF SearchInv, ResultMeant, DefaultIsFound, StablyUp
      <3>4. NameMeansAdapter'
        BY <2>2, <3>1, <3>2 DEF SearchInv, ResultMeant, NameMeansAdapter, Denotes, Resolved
      <3>5. NamedIsFound'
        BY <2>2, <3>1, <3>2 DEF SearchInv, ResultMeant, NamedIsFound, NothingMissed, StablyUp, Denotes, Resolved
      <3> QED
        BY <3>3, <3>4, <3>5
    <2> QED
      BY <2>1, <2>2
  <1> QED
    BY <1>1, <1>2, <1>3, <1>4, <1>5 DEF SearchInv

LEMMA Finds_Change == IInv /\ Change => SearchInv'
  <1> SUFFICES ASSUME IInv, Change PROVE SearchInv'
    OBVIOUS
  <1> USE IdsAssumption
      DEF world, args, inq, search, ghosts, inCall, Change, ByName, IInv, CallInv
  <1>1. stable' \subseteq Ids
    BY DEF SearchInv
  <1>2. SearchesFor'
    BY DEF SearchInv, SearchesFor, Searching
  <1>3. NotMissed'
    BY DEF SearchInv, NotMissed, StablyUp, Matches, Searching
  <1>4. ResultMeant'
    BY DEF SearchInv, ResultMeant, StablyUp, Denotes, Resolved
  <1>5. DefaultIsFound' /\ NameMeansAdapter' /\ NamedIsFound'
    BY DEF SearchInv, DefaultIsFound, NameMeansAdapter, NamedIsFound, NothingMissed
  <1> QED
    BY <1>1, <1>2, <1>3, <1>4, <1>5 DEF SearchInv

LEMMA KeepsSearchInv == IInv /\ [Next]_vars => SearchInv'
  <1>1. IInv /\ UNCHANGED vars => SearchInv'
    BY DEF vars, world, args, inq, search, ghosts, IInv, SearchInv, SearchesFor,
       Searching, NotMissed, ResultMeant, StablyUp, Matches, Denotes, Resolved,
       DefaultIsFound, NameMeansAdapter, NamedIsFound, NothingMissed
  <1> QED
    BY <1>1, Finds_byName, Finds_other, Finds_SearchSocket, Finds_SearchList,
       Finds_SearchEach, Finds_SearchEnd, Finds_SearchClose, Finds_Devinfo,
       Finds_Elsewhere, Finds_Return, Finds_Change
    DEF Next, Caller, Step, Finished

----------------------------------------------------------------------------
\* The inductive invariant holds of every state of a run.
THEOREM Invariant == Spec => []IInv
  <1>1. Init => IInv
    BY InitCallInv, InitSearchInv DEF IInv
  <1>2. IInv /\ [Next]_vars => IInv'
    BY KeepsCallInv, KeepsSearchInv DEF IInv
  <1> QED
    BY <1>1, <1>2, PTL DEF Spec

\* Every variable keeps its type; a socket is never closed that is not open.
THEOREM TypeCorrect == Spec => []TypeOK
  <1>1. IInv => TypeOK
    BY DEF IInv, CallInv
  <1> QED
    BY Invariant, <1>1, PTL

\* Every socket a call opens is closed again or handed to its caller, however
\* the system calls and the adapters behave.
THEOREM SocketsReturned == Spec => []NoLeak
  <1>1. IInv => NoLeak
    BY DEF IInv, CallInv, OpenSockets, InUse, NoLeak
  <1> QED
    BY Invariant, <1>1, PTL

\* A failing lookup reports the error of its own last failing step, also from
\* lescan_addr_to_dev_id, which leaves errno as it was.
THEOREM OwnError == Spec => []ReportsItsOwnError
  <1>1. IInv => ReportsItsOwnError
    BY DEF IInv, CallInv
  <1> QED
    BY Invariant, <1>1, PTL

\* The adapter a lookup answers with was up at some time of the call.
THEOREM FoundAdapterWasUp == Spec => []FoundWasUp
  <1>1. IInv => FoundWasUp
    BY DEF IInv, CallInv
  <1> QED
    BY Invariant, <1>1, PTL

\* hci_inquiry never copies more responses than it has room for, whatever
\* integer it is called with.
THEOREM InquiryHasRoom == Spec => []InquiryFits
  <1>1. IInv => InquiryFits
    BY DEF IInv, CallInv
  <1> QED
    BY Invariant, <1>1, PTL

\* The default adapter is not missed because others come, go or change.
THEOREM DefaultFound == Spec => []DefaultIsFound
  <1>1. IInv => DefaultIsFound
    BY DEF IInv, SearchInv
  <1> QED
    BY Invariant, <1>1, PTL

\* The adapter found is the one the name or the address stands for.
THEOREM AdapterMeant == Spec => []NameMeansAdapter
  <1>1. IInv => NameMeansAdapter
    BY DEF IInv, SearchInv
  <1> QED
    BY Invariant, <1>1, PTL

\* An adapter that is named and stays up is found.
THEOREM NamedFound == Spec => []NamedIsFound
  <1>1. IInv => NamedIsFound
    BY DEF IInv, SearchInv
  <1> QED
    BY Invariant, <1>1, PTL
=============================================================================
