---------------------------- MODULE DeviceLookup ----------------------------
(***************************************************************************)
(* How a local adapter is found and opened: hci_for_each_dev and its       *)
(* callers in bluez/hci.c, and the four functions of lescan.c through      *)
(* which the Java scanner calls them.  One process calls them one after    *)
(* the other, system call by system call, while adapters come, go and      *)
(* change state, and while any system call but close may fail.             *)
(***************************************************************************)
EXTENDS Integers

CONSTANTS
    Ids,            \* numbers of the adapters
    BdAddrs,        \* their addresses
    BDADDR_ANY,     \* the address 00:00:00:00:00:00
    Names,          \* what the functions are called with
    Counts,         \* how many responses an inquiry is to collect
    States,         \* the states an adapter may be in
    MaxCalls, MaxChanges, MaxHeld       \* bounds on the run

\* A name: "hci" and a number, "hci" and something else, an address written
\* with colons or with dots, or none of these.
Forms == {"hciN", "hciText", "colons", "dots", "text"}

ASSUME IdsAssumption   == Ids \subseteq Nat
ASSUME NullAssumption  == BDADDR_ANY \in BdAddrs
ASSUME NamesAssumption == Names \subseteq [form : Forms, id : Ids, addr : BdAddrs]
ASSUME CountsAssumption == Counts \subseteq Int

\* Values of errno; 0 is "OK".
Errors == {"ENODEV", "ENETDOWN", "EMFILE", "ENOMEM", "EIO", "EINVAL"}

Adapters == [state : {"absent", "down", "up"}, raw : BOOLEAN, addr : BdAddrs]

ASSUME StatesAssumption == States \subseteq Adapters

Functions == {"lescan_ntoid", "lescan_addr_to_dev_id", "lescan_default_dev_id",
              "lescan_open_id", "hci_inquiry"}

VARIABLES
    adapters,       \* the state of every adapter
    changes,        \* how often it changed
    pc,
    fn,             \* the function called
    name, id,       \* its argument
    nrsp, num_rsp,  \* of hci_inquiry: responses there is room for, asked for
    test,           \* __other_bdaddr or __same_bdaddr
    ba,             \* the address they compare with
    dl,             \* the adapters of the list still to be looked at
    dev_id,         \* adapter found or opened, -1 for none
    err,            \* the local variable of that name
    errno,
    fds,            \* sockets open
    held,           \* those handed out and not closed
    ret,            \* the result: [val |-> ..., error |-> ...]
    calls,
    cause,          \* ghost: error of the last step of the call that failed
    broken,         \* ghost: a system call has failed
    wasUp,          \* ghost: adapters that were up at some time of the call
    stable          \* ghost: adapters that did not change since it began

args   == <<fn, name, id>>
world  == <<adapters, changes, wasUp, stable>>
inq    == <<nrsp, num_rsp>>
search == <<test, ba, dl, dev_id>>
ghosts == <<cause, broken>>
vars   == <<world, pc, args, inq, search, err, errno, fds, held, ret, calls,
            ghosts>>

Up == {d \in Ids : adapters[d].state = "up"}

Init ==
    /\ adapters \in [Ids -> States]
    /\ changes = 0
    /\ pc = "idle"
    /\ fn = "lescan_default_dev_id" /\ name \in Names /\ id = -1
    /\ nrsp = 0 /\ num_rsp = 0
    /\ test = "other" /\ ba = BDADDR_ANY /\ dl = {} /\ dev_id = -1
    /\ err = "OK" /\ errno = "OK"
    /\ fds = 0 /\ held = 0
    /\ ret = [val |-> 0, error |-> "OK"]
    /\ calls = 0
    /\ cause = "OK" /\ broken = FALSE
    /\ wasUp = {} /\ stable = Ids

----------------------------------------------------------------------------
\* The caller

\* Slip: every text is refused.
str2baRefuses(n) == BDADDR_ANY

\* str2ba sets the address to 0 when bachk refuses the text.
str2ba(n) == IF n.form = "colons" THEN n.addr ELSE BDADDR_ANY

\* atoi makes 0 of what is no number.
atoi(n) == IF n.form = "hciN" THEN n.id ELSE 0

StartsWithHci(n) == n.form \in {"hciN", "hciText"}

\* hci_devid: "hci..." is looked up by number, anything else as an address.
\* `before` is errno when it is called.
hci_devid(n, before) ==
    \/ /\ StartsWithHci(n)
       /\ pc' = "devinfo" /\ id' = atoi(n)
       /\ errno' = before
       /\ UNCHANGED search
    \/ /\ ~StartsWithHci(n)
       /\ pc' = "socket" /\ id' = -1
       /\ errno' = "ENODEV"
       /\ test' = "same" /\ ba' = str2ba(n) /\ dl' = {} /\ dev_id' = -1

\* hci_get_route(NULL): first an adapter with an address other than 0.
hci_get_route ==
    /\ pc' = "socket"
    /\ test' = "other" /\ ba' = BDADDR_ANY /\ dl' = {} /\ dev_id' = -1

Began(f) ==
    /\ pc = "idle"
    /\ calls < MaxCalls /\ calls' = calls + 1
    /\ fn' = f
    /\ cause' = "OK" /\ broken' = FALSE
    /\ wasUp' = Up /\ stable' = Ids
    /\ UNCHANGED <<adapters, changes, err, fds, held, ret>>

lescan_ntoid ==
    /\ Began("lescan_ntoid")
    /\ \E n \in Names : name' = n /\ hci_devid(n, "OK")
    /\ UNCHANGED inq

\* Unlike its siblings it does not reset errno.
lescan_addr_to_dev_id ==
    /\ Began("lescan_addr_to_dev_id")
    /\ \E n \in Names : name' = n /\ hci_devid(n, errno)
    /\ UNCHANGED inq

lescan_default_dev_id ==
    /\ Began("lescan_default_dev_id")
    /\ errno' = "OK" /\ id' = -1
    /\ hci_get_route
    /\ UNCHANGED <<name, inq>>

lescan_open_id ==
    /\ Began("lescan_open_id")
    /\ held < MaxHeld
    /\ errno' = "OK" /\ id' \in Ids \cup {-1}
    /\ pc' = "open"
    /\ UNCHANGED <<name, inq, search>>

\* Slip: the room is what fits into the byte.
RoomOfAByte(n) == IF n <= 0 THEN 255 ELSE n % 256

\* The number of responses asked for is a byte; not more than 255 come.
Room(n)  == IF n <= 0 THEN 255 ELSE n
Asked(n) == IF n <= 0 THEN 0 ELSE n % 256

hci_inquiry ==
    /\ Began("hci_inquiry")
    /\ \E n \in Counts : nrsp' = Room(n) /\ num_rsp' = Asked(n)
    /\ UNCHANGED <<name, errno>>
    /\ \/ /\ id' \in Ids /\ dev_id' = id'
          /\ pc' = "routed"
          /\ UNCHANGED <<test, ba, dl>>
       \/ id' = -1 /\ hci_get_route

lescan_close ==
    /\ pc = "idle" /\ held > 0
    /\ held' = held - 1 /\ fds' = fds - 1
    /\ UNCHANGED <<world, pc, args, inq, search, err, errno, ret, calls, ghosts>>

----------------------------------------------------------------------------
\* hci_for_each_dev

\* A system call fails with error e.
Breaks(e) == errno' = e /\ cause' = e /\ broken' = TRUE

\* What no step of a call but its first and last changes.
inCall == <<args, inq, held, ret, calls>>

\* Slip: an adapter with the address 0 is not looked for.
AgainNever == FALSE

\* hci_get_route looks for an adapter with the address 0 when there is no other.
Again == /\ fn \in {"lescan_default_dev_id", "hci_inquiry"}
         /\ test = "other"

\* The end of hci_for_each_dev in the function that called it.
AfterSearch(found) ==
    IF found < 0 /\ Again
      THEN pc' = "socket" /\ test' = "same"
      ELSE /\ pc' = IF fn = "hci_inquiry" THEN "routed" ELSE "return"
           /\ UNCHANGED test

SearchSocket ==
    /\ pc = "socket"
    /\ \/ /\ fds' = fds + 1
          /\ pc' = "list"
          /\ UNCHANGED <<errno, ghosts, test, dev_id>>
       \/ /\ Breaks("EMFILE")
          /\ dev_id' = -1
          /\ AfterSearch(-1)
          /\ UNCHANGED fds
    /\ UNCHANGED <<world, inCall, ba, dl, err>>

\* The flags in the list are those of this moment.
SearchList ==
    /\ pc = "list"
    /\ \/ /\ err' = "OK"
          /\ dl' = {[dev |-> d, up |-> adapters[d].state = "up"] :
                       d \in {x \in Ids : adapters[x].state # "absent"}}
          /\ pc' = "each"
          /\ UNCHANGED <<errno, ghosts>>
       \/ \E e \in {"ENOMEM", "EIO"} :
             /\ Breaks(e) /\ err' = e
             /\ dl' = {}
             /\ pc' = "close"
    /\ UNCHANGED <<world, inCall, test, ba, dev_id, fds>>

\* Slip: the flag HCI_UP of the list is not tested.
InspectsAny(d) == TRUE

Inspects(d) == d.up

\* Slip: `bacmp` for `!bacmp`.
MatchesOther(d) ==
    /\ adapters[d].state # "absent"
    /\ ~adapters[d].raw /\ adapters[d].addr # ba

Matches(d) ==
    /\ adapters[d].state # "absent"
    /\ \/ test = "other" /\ ~adapters[d].raw /\ adapters[d].addr # ba
       \/ test = "same" /\ adapters[d].addr = ba

\* __other_bdaddr, __same_bdaddr: the address is read now, not with the list;
\* an adapter for which that fails does not match.
SearchEach ==
    /\ pc = "each"
    /\ \E d \in dl :
          /\ dl' = dl \ {d}
          /\ \/ /\ Inspects(d) /\ Matches(d.dev)
                /\ dev_id' = d.dev
                /\ pc' = "close"
                /\ UNCHANGED <<errno, ghosts>>
             \/ /\ ~(Inspects(d) /\ Matches(d.dev))
                /\ errno' = IF Inspects(d) /\ adapters[d.dev].state = "absent"
                              THEN "ENODEV" ELSE errno
                /\ UNCHANGED <<pc, dev_id, ghosts>>
             \/ /\ Inspects(d) /\ Breaks("EIO")
                /\ UNCHANGED <<pc, dev_id>>
    /\ UNCHANGED <<world, inCall, test, ba, err, fds>>

\* Slip: finding nothing is no error.
SearchEndSilent ==
    /\ pc = "each" /\ dl = {}
    /\ cause' = "ENODEV" /\ pc' = "close"
    /\ UNCHANGED <<world, inCall, search, err, errno, fds, broken>>

SearchEnd ==
    /\ pc = "each" /\ dl = {}
    /\ err' = "ENODEV" /\ cause' = "ENODEV"
    /\ pc' = "close"
    /\ UNCHANGED <<world, inCall, search, errno, fds, broken>>

\* Slip: the socket is closed a second time.
SearchCloseTwice ==
    /\ pc = "close"
    /\ fds' = fds - 2
    /\ errno' = err
    /\ AfterSearch(dev_id)
    /\ UNCHANGED <<world, inCall, ba, dl, dev_id, err, ghosts>>

SearchClose ==
    /\ pc = "close"
    /\ fds' = fds - 1
    /\ errno' = err
    /\ AfterSearch(dev_id)
    /\ UNCHANGED <<world, inCall, ba, dl, dev_id, err, ghosts>>

----------------------------------------------------------------------------
\* hci_devba with hci_devinfo: one adapter by its number

DevinfoSocket ==
    /\ pc = "devinfo"
    /\ \/ fds' = fds + 1 /\ pc' = "devba" /\ UNCHANGED <<errno, ghosts, dev_id>>
       \/ Breaks("EMFILE") /\ dev_id' = -1 /\ pc' = "return" /\ UNCHANGED fds
    /\ UNCHANGED <<world, inCall, test, ba, dl, err>>

\* The ioctl, close, and the test of the flag HCI_UP.
DevbaInfo ==
    /\ pc = "devba"
    /\ fds' = fds - 1
    /\ pc' = "return"
    /\ \/ /\ id \in Ids /\ adapters[id].state = "up"
          /\ dev_id' = id
          /\ UNCHANGED <<errno, ghosts>>
       \/ /\ id \in Ids /\ adapters[id].state = "down"
          /\ dev_id' = -1
          /\ errno' = "ENETDOWN" /\ cause' = "ENETDOWN" /\ UNCHANGED broken
       \/ /\ id \notin Ids \/ adapters[id].state = "absent"
          /\ dev_id' = -1
          /\ errno' = "ENODEV" /\ cause' = "ENODEV" /\ UNCHANGED broken
       \/ dev_id' = -1 /\ Breaks("EIO")
    /\ UNCHANGED <<world, inCall, test, ba, dl, err>>

----------------------------------------------------------------------------
\* hci_open_dev

OpenSocket ==
    /\ pc = "open"
    /\ \/ /\ id < 0
          /\ errno' = "ENODEV" /\ cause' = "ENODEV"
          /\ pc' = "return" /\ dev_id' = -1
          /\ UNCHANGED <<fds, broken>>
       \/ /\ id >= 0
          /\ Breaks("EMFILE")
          /\ pc' = "return" /\ dev_id' = -1
          /\ UNCHANGED fds
       \/ /\ id >= 0
          /\ fds' = fds + 1
          /\ pc' = "bind"
          /\ UNCHANGED <<errno, ghosts, dev_id>>
    /\ UNCHANGED <<world, inCall, test, ba, dl, err>>

\* Slip: the socket is not closed when bind fails.
BindLeaks ==
    /\ pc = "bind"
    /\ pc' = "return"
    /\ \/ /\ adapters[id].state # "absent"
          /\ dev_id' = id
          /\ UNCHANGED <<errno, ghosts, fds>>
       \/ /\ adapters[id].state = "absent"
          /\ errno' = "ENODEV" /\ cause' = "ENODEV" /\ UNCHANGED broken
          /\ dev_id' = -1
          /\ UNCHANGED fds
    /\ UNCHANGED <<world, inCall, test, ba, dl, err>>

\* An adapter that is down can be bound to.
Bind ==
    /\ pc = "bind"
    /\ pc' = "return"
    /\ \/ /\ adapters[id].state # "absent"
          /\ dev_id' = id
          /\ UNCHANGED <<errno, ghosts, fds>>
       \/ /\ adapters[id].state = "absent"
          /\ errno' = "ENODEV" /\ cause' = "ENODEV" /\ UNCHANGED broken
          /\ dev_id' = -1
          /\ fds' = fds - 1
       \/ /\ Breaks("EIO")
          /\ dev_id' = -1
          /\ fds' = fds - 1
    /\ UNCHANGED <<world, inCall, test, ba, dl, err>>

----------------------------------------------------------------------------
\* hci_inquiry, once the adapter is known

Fails(e) == Breaks(e) /\ dev_id' = -1 /\ pc' = "return"

InquirySocket ==
    /\ pc = "routed"
    /\ \/ /\ dev_id < 0
          /\ errno' = "ENODEV"
          /\ pc' = "return"
          /\ UNCHANGED <<fds, ghosts, dev_id>>
       \/ dev_id >= 0 /\ Fails("EMFILE") /\ UNCHANGED fds
       \/ /\ dev_id >= 0
          /\ fds' = fds + 1
          /\ pc' = "inquiry"
          /\ UNCHANGED <<errno, ghosts, dev_id>>
    /\ UNCHANGED <<world, inCall, test, ba, dl, err>>

\* The kernel takes 0 for 255 and puts the number it found in num_rsp.
Collected == {0, IF num_rsp = 0 THEN 255 ELSE num_rsp}

\* Either malloc or the ioctl may fail; the socket is closed in any case.
Inquire ==
    /\ pc = "inquiry"
    /\ fds' = fds - 1
    /\ \/ /\ num_rsp' \in Collected
          /\ pc' = "return"
          /\ UNCHANGED <<errno, ghosts, dev_id>>
       \/ /\ \E e \in {"ENOMEM", "EIO"} : Fails(e)
          /\ UNCHANGED num_rsp
    /\ UNCHANGED <<world, args, nrsp, held, ret, calls, test, ba, dl, err>>

----------------------------------------------------------------------------
\* -errno, and a fallback for an errno of 0.
Reason ==
    IF errno # "OK" THEN errno
    ELSE IF fn \in {"lescan_ntoid", "lescan_addr_to_dev_id"} THEN "EINVAL"
    ELSE "EIO"

Return ==
    /\ pc = "return" /\ pc' = "idle"
    /\ ret' = IF dev_id < 0 THEN [val |-> -1, error |-> Reason]
              ELSE [val |-> IF fn = "hci_inquiry" THEN num_rsp ELSE dev_id,
                    error |-> "OK"]
    /\ held' = IF fn = "lescan_open_id" /\ dev_id >= 0 THEN held + 1 ELSE held
    /\ UNCHANGED <<world, args, inq, search, err, errno, fds, calls, ghosts>>

\* Adapters come, go and change (outside the repository).
Change ==
    /\ pc # "idle"
    /\ changes < MaxChanges /\ changes' = changes + 1
    /\ \E d \in Ids, s \in States :
          /\ adapters' = [adapters EXCEPT ![d] = s]
          /\ wasUp' = IF s.state = "up" THEN wasUp \cup {d} ELSE wasUp
          /\ stable' = stable \ {d}
    /\ UNCHANGED <<pc, args, inq, search, err, errno, fds, held, ret, calls,
                   ghosts>>

Caller == \/ lescan_ntoid \/ lescan_addr_to_dev_id \/ lescan_default_dev_id
          \/ lescan_open_id \/ hci_inquiry \/ lescan_close

Step == \/ SearchSocket \/ SearchList \/ SearchEach \/ SearchEnd \/ SearchClose
        \/ DevinfoSocket \/ DevbaInfo \/ OpenSocket \/ Bind \/ InquirySocket
        \/ Inquire \/ Return

\* The caller need not call again.
Finished == pc = "idle" /\ UNCHANGED vars

Next == Caller \/ Step \/ Change \/ Finished

Spec == Init /\ [][Next]_vars

----------------------------------------------------------------------------
(***************************************************************************)
(* Properties                                                              *)
(***************************************************************************)

WorldOK == adapters \in [Ids -> Adapters]

CallOK ==
    /\ pc \in {"idle", "socket", "list", "each", "close", "devinfo", "devba",
               "open", "bind", "routed", "inquiry", "return"}
    /\ fn \in Functions /\ name \in Names
    /\ id \in Int /\ dev_id \in Int

InquiryOK == nrsp \in Nat /\ num_rsp \in Nat /\ num_rsp <= 255

SearchOK == test \in {"other", "same"} /\ ba \in BdAddrs
            /\ dl \subseteq [dev : Ids, up : BOOLEAN]

ErrorsOK == /\ err \in Errors \cup {"OK"} /\ errno \in Errors \cup {"OK"}
            /\ cause \in Errors \cup {"OK"} /\ broken \in BOOLEAN

SocketsOK == fds \in Nat /\ held \in Nat

ResultOK == ret \in [val : Int, error : Errors \cup {"OK"}]

TypeOK == WorldOK /\ CallOK /\ InquiryOK /\ SearchOK /\ ErrorsOK /\ SocketsOK
          /\ ResultOK

Lookups == {"lescan_ntoid", "lescan_addr_to_dev_id", "lescan_default_dev_id"}

\* Between two calls the only sockets open are those handed to the caller, on
\* whichever way the calls before ended.
NoLeak == pc = "idle" => fds = held

\* "else if errno > 0, return -errno": a failing call reports the error of its
\* own last failing step; neither a close on the way, nor the ioctl on an
\* adapter that has just gone, nor an earlier call gets into the result.
ReportsItsOwnError ==
    pc = "idle" /\ calls > 0 /\ fn \in Lookups \cup {"lescan_open_id"} =>
        /\ ret.val < 0 => ret.error = cause
        /\ ret.val >= 0 => ret.error = "OK" /\ ret.val \in Ids

\* An adapter that is found was up at some time of the call, although its flag
\* and its address are read at different times.
FoundWasUp ==
    pc = "idle" /\ calls > 0 /\ fn \in Lookups /\ ret.val >= 0 => ret.val \in wasUp

\* The default adapter is not missed: when no system call fails and one was up
\* all the time, one is found.
DefaultIsFound ==
    pc = "idle" /\ calls > 0 /\ fn = "lescan_default_dev_id" /\ ret.val < 0
        => broken \/ \A d \in stable : adapters[d].state = "up" =>
               adapters[d].raw /\ adapters[d].addr # BDADDR_ANY

\* "name can be the dev name or the address 'XX.XX.XX.XX.XX.XX'": the adapter
\* that a name stands for.  (A name such as "hcifoo" stands for none.)
Denotes(n, d) ==
    \/ n.form = "hciN" /\ d = n.id
    \/ n.form \in {"colons", "dots"} /\ adapters[d].addr = n.addr

ByName == {"lescan_ntoid", "lescan_addr_to_dev_id"}

\* The names that are looked up as what they are: instead of "hcifoo" the
\* adapter hci0 is looked for, and instead of an address with dots or any other
\* text, which str2ba refuses, the address 0.
Resolved(n) == n.form \in {"hciN", "colons"}

\* The adapter found for such a name is the one the name stands for, unless it
\* changed meanwhile.
NameMeansAdapter ==
    pc = "idle" /\ calls > 0 /\ fn \in ByName /\ Resolved(name)
        /\ ret.val \in stable => Denotes(name, ret.val)

\* No adapter that was up all the time of the call is the one its name stands
\* for, so that the call was right to find none.
NothingMissed ==
    ret.val < 0 /\ ~broken =>
        \A d \in stable : adapters[d].state = "up" => ~Denotes(name, d)

\* ... and when no system call fails, an adapter whose name or address is given
\* is found if it was up all the time, whatever the others do.
NamedIsFound ==
    pc = "idle" /\ calls > 0 /\ fn \in ByName /\ Resolved(name) => NothingMissed

\* What the comment says of lescan_ntoid, the addresses with dots included.
EveryNameIsFound ==
    pc = "idle" /\ calls > 0 /\ fn = "lescan_ntoid" => NothingMissed

\* Not more responses are copied than there is room for, whatever number was
\* asked for; it is cut to a byte on the way to the kernel.
InquiryFits == num_rsp <= nrsp

----------------------------------------------------------------------------
(***************************************************************************)
(* The inductive invariant behind them                                     *)
(***************************************************************************)

Searching == {"socket", "list", "each", "close"}

\* Which function may be where.
Places ==
    /\ pc \in Searching => fn \in Lookups \cup {"hci_inquiry"}
    /\ pc \in {"devinfo", "devba"} => fn \in {"lescan_ntoid", "lescan_addr_to_dev_id"}
    /\ pc \in {"open", "bind"} => fn = "lescan_open_id" /\ id \in Ids \cup {-1}
    /\ pc = "bind" => id \in Ids
    /\ pc \in {"routed", "inquiry"} => fn = "hci_inquiry"

\* The socket of the call in progress.
InUse ==
    \/ pc \in {"list", "each", "close", "devba", "bind", "inquiry"}
    \/ pc = "return" /\ fn = "lescan_open_id" /\ dev_id >= 0

OpenSockets == /\ InUse => fds = held + 1
               /\ ~InUse => fds = held

\* A search that has found nothing has an error to report, and keeps it.
ErrorKept ==
    /\ pc \in {"socket", "list", "each"} => dev_id < 0
    /\ pc = "close" => \/ dev_id \in Ids
                       \/ dev_id < 0 /\ err = cause /\ err # "OK"
    /\ pc = "return" /\ fn # "hci_inquiry" =>
           \/ dev_id \in Ids
           \/ dev_id < 0 /\ errno = cause /\ errno # "OK"

\* What the list says of an adapter was true during the call.
ListWasTrue ==
    /\ pc # "idle" => Up \subseteq wasUp
    /\ pc = "each" => \A d \in dl : d.up => d.dev \in wasUp
    /\ pc \in {"close", "return"} /\ fn \in Lookups /\ dev_id >= 0 => dev_id \in wasUp

\* 0 asks for 255 responses.
RoomForAll ==
    fn = "hci_inquiry" /\ pc \notin {"idle", "return"} /\ num_rsp = 0 => nrsp >= 255

CallInv == TypeOK /\ Places /\ OpenSockets /\ RoomForAll /\ ErrorKept
           /\ ReportsItsOwnError /\ ListWasTrue /\ FoundWasUp /\ InquiryFits

\* What the call in progress looks for.
SearchesFor ==
    /\ pc \in Searching /\ fn = "lescan_default_dev_id" => ba = BDADDR_ANY
    /\ pc \in Searching /\ fn \in ByName =>
           test = "same" /\ ba = str2ba(name) /\ ~StartsWithHci(name)
    /\ pc \in {"devinfo", "devba"} => id = atoi(name) /\ StartsWithHci(name)

\* The adapters the properties speak of: up from the start of the call.
StablyUp == {d \in stable : adapters[d].state = "up"}

\* Whichever of them matches is still on the list, or was found; the search for
\* the address 0 begins when no other adapter is left.
NotMissed ==
    /\ pc = "each" /\ ~broken =>
           \A d \in StablyUp : Matches(d) => [dev |-> d, up |-> TRUE] \in dl
    /\ pc = "close" /\ dev_id < 0 /\ ~broken => \A d \in StablyUp : ~Matches(d)
    /\ pc \in Searching /\ fn = "lescan_default_dev_id" /\ test = "same" /\ ~broken
           => \A d \in StablyUp : adapters[d].raw \/ adapters[d].addr = BDADDR_ANY

\* The result about to be returned is the right one.
ResultMeant ==
    /\ pc = "return" /\ dev_id < 0 /\ ~broken => \A d \in StablyUp :
           /\ fn = "lescan_default_dev_id" =>
                  adapters[d].raw /\ adapters[d].addr # BDADDR_ANY
           /\ fn \in ByName /\ Resolved(name) => ~Denotes(name, d)
    /\ pc \in {"close", "return"} /\ fn \in ByName /\ dev_id \in stable
           /\ Resolved(name) => Denotes(name, dev_id)

SearchInv == stable \subseteq Ids /\ SearchesFor /\ NotMissed /\ ResultMeant
             /\ DefaultIsFound /\ NameMeansAdapter /\ NamedIsFound

IInv == CallInv /\ SearchInv
=============================================================================
