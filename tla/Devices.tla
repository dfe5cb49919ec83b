------------------------------- MODULE Devices -------------------------------
(***************************************************************************)
(* The table of wadb devices (device_manager.go): the rows of adb devices, *)
(* read before the scan, are merged with the endpoints the scan returns,   *)
(* first by address and then by device id, and filtered by --device.       *)
(*                                                                         *)
(* The columns that only describe a row, transport and source, are left    *)
(* out.                                                                    *)
(***************************************************************************)
EXTENDS Selection, FiniteSets

CONSTANTS
  Model,     \* model names
  NoModel,
  NoName,    \* the empty instance name
  Lists,     \* what adb devices can answer
  Filters    \* the selectors to consider

\* A transport of the adb server: USB devices and emulators are known by an id,
\* wireless ones by their address.
DeviceEntry ==
  [serial : ID \cup (Host \X Port), state : {"device", "offline", "unauthorized"},
   model : Model \cup {NoModel}]

managedDevice ==
  [id : ID \cup (Host \X Port), addresses : Seq(ID \cup (Host \X Port)),
   status : {"connected", "offline", "unauthorized", "discovered"},
   name : Model \cup {NoModel}, inst : Instance]

\* adb lists a transport once.  Serial numbers, which are the ids, the instance names
\* of adbd and addresses differ in their form, and an id is no empty text.
ASSUME DevicesAssumption ==
  /\ Lists \subseteq Seq(DeviceEntry)
  /\ \A list \in Lists : \A i, j \in DOMAIN list : list[i].serial = list[j].serial => i = j
  /\ Filters \subseteq (Selector \cup Model) \ {NoName, NoModel}
  /\ NoName \in Instance /\ endpointID[NoName] = NoID
  /\ ID \cap ((Host \X Port) \cup {<<h>> : h \in Host} \cup Instance \cup {NoDevice, BlankDevice}) = {}
  /\ Instance \cap (Host \X Port) = {}

VARIABLES
  filter,     \* --device
  step,       \* "list", "scan", then "shown" or "failed"
  connected,  \* the answer of adb devices
  announced,  \* the endpoints of the scan
  rows,       \* the table
  shown       \* the rows the filter lets through

dvars == <<filter, step, connected, announced, rows, shown>>

----------------------------------------------------------------------------
(* The merge by address. *)

rowOf(e) ==
  [id |-> e.serial, addresses |-> <<e.serial>>,
   status |-> IF e.state = "device" THEN "connected" ELSE e.state,
   name |-> e.model, inst |-> NoName]

idOf(ep, otherwise) == IF endpointID[ep.inst] # NoID THEN endpointID[ep.inst] ELSE otherwise

discovered(ep) ==
  [id |-> idOf(ep, Addr(ep)), addresses |-> <<Addr(ep)>>, status |-> "discovered",
   name |-> NoModel, inst |-> ep.inst]

\* (Mutant) The row that adb knows keeps its address as its id.
AddAnnouncedKeepsId(out, ep) ==
  IF \E i \in DOMAIN out : out[i].addresses = <<Addr(ep)>>
  THEN [i \in DOMAIN out |->
         IF out[i].addresses = <<Addr(ep)>> THEN [out[i] EXCEPT !.inst = ep.inst] ELSE out[i]]
  ELSE Append(out, discovered(ep))

\* An endpoint gives the row with its address its instance and its id, or adds a row.
AddAnnounced(out, ep) ==
  IF \E i \in DOMAIN out : out[i].addresses = <<Addr(ep)>>
  THEN [i \in DOMAIN out |->
         IF out[i].addresses = <<Addr(ep)>>
         THEN [out[i] EXCEPT !.inst = ep.inst, !.id = idOf(ep, @)]
         ELSE out[i]]
  ELSE Append(out, discovered(ep))

\* The rows that adb lists, then what is announced.
mergeByAddress(list, eps) ==
  LET out[i \in 0..Len(eps)] ==
        IF i = 0 THEN [k \in DOMAIN list |-> rowOf(list[k])] ELSE AddAnnounced(out[i - 1], eps[i])
  IN  out[Len(eps)]

----------------------------------------------------------------------------
(* The merge by id: consolidateManagedDevices. *)

appendCSV(current, value) == IF value \in Elements(current) THEN current ELSE Append(current, value)

\* (Mutant) The status of the row that comes last wins.
AbsorbLast(row, other) ==
  [row EXCEPT !.addresses = appendCSV(@, other.addresses[1]),
              !.name = IF @ = NoModel THEN other.name ELSE @,
              !.inst = IF @ = NoName THEN other.inst ELSE @,
              !.status = other.status]

\* (Mutant) The address of the second row is dropped.
AbsorbDrops(row, other) ==
  [row EXCEPT !.name = IF @ = NoModel THEN other.name ELSE @,
              !.inst = IF @ = NoName THEN other.inst ELSE @,
              !.status = IF other.status = "connected" THEN "connected" ELSE @]

\* row takes in another row of the same device.
Absorb(row, other) ==
  [row EXCEPT !.addresses = appendCSV(@, other.addresses[1]),
              !.name = IF @ = NoModel THEN other.name ELSE @,
              !.inst = IF @ = NoName THEN other.inst ELSE @,
              !.status = IF other.status = "connected" THEN "connected" ELSE @]

AddRow(out, row) ==
  IF \E i \in DOMAIN out : out[i].id = row.id
  THEN [i \in DOMAIN out |-> IF out[i].id = row.id THEN Absorb(out[i], row) ELSE out[i]]
  ELSE Append(out, row)

consolidate(all) ==
  LET out[i \in 0..Len(all)] == IF i = 0 THEN <<>> ELSE AddRow(out[i - 1], all[i])
  IN  out[Len(all)]

mergeManagedDevices(list, eps) == consolidate(mergeByAddress(list, eps))

\* (Mutant) Only the first address of a row is compared.
selectManagedDevicesFirst(all) ==
  IF filter \in {NoDevice, BlankDevice} THEN all
  ELSE Keep(all, {row \in Elements(all) : filter \in {row.id, row.inst, row.name, row.addresses[1]}})

selectManagedDevices(all) ==
  IF filter \in {NoDevice, BlankDevice} THEN all
  ELSE Keep(all, {row \in Elements(all) :
                    filter \in {row.id, row.inst, row.name} \cup Elements(row.addresses)})

----------------------------------------------------------------------------
DevicesInit ==
  /\ filter \in Filters
  /\ step = "list"
  /\ connected = <<>>
  /\ announced = <<>>
  /\ rows = <<>>
  /\ shown = <<>>

List(list) ==
  /\ step = "list"
  /\ connected' = list
  /\ step' = "scan"
  /\ UNCHANGED <<filter, announced, rows, shown>>

ListFails ==
  /\ step = "list"
  /\ step' = "failed"
  /\ UNCHANGED <<filter, connected, announced, rows, shown>>

\* A scan that fails, or is interrupted, only has no endpoints.
Scanned(eps) ==
  /\ step = "scan"
  /\ announced' = eps
  /\ rows' = mergeManagedDevices(connected, eps)
  /\ shown' = selectManagedDevices(rows')
  /\ step' = "shown"
  /\ UNCHANGED <<filter, connected>>

DevicesDone == step \in {"shown", "failed"} /\ UNCHANGED dvars

DevicesNext ==
  \/ \E list \in Lists : List(list)
  \/ ListFails
  \/ \E eps \in Discoverable \cup {<<>>} : Scanned(eps)
  \/ DevicesDone

DevicesSpec == DevicesInit /\ [][DevicesNext]_dvars

----------------------------------------------------------------------------
(* Properties. *)

Serials   == {connected[i].serial : i \in DOMAIN connected}
Announced == {Addr(announced[i]) : i \in DOMAIN announced}

\* The device an address belongs to, as far as the scan tells: the one whose id is
\* announced for it, or one that is known by nothing but this address.
Owner(a) ==
  LET ids == {endpointID[announced[i].inst] : i \in {j \in DOMAIN announced : Addr(announced[j]) = a}}
  IN  IF ids \subseteq {NoID} THEN a ELSE CHOOSE id \in ids : id # NoID

Holding(a) == {i \in DOMAIN rows : a \in Elements(rows[i].addresses)}

\* Every device that adb or the network knows is in the table, each of its addresses
\* in one place of it, and nothing else is: two merges lose and double nothing.
EachAddressOnce ==
  step = "shown" =>
    /\ \A a \in Serials \cup Announced : Cardinality(Holding(a)) = 1
    /\ \A i \in DOMAIN rows : Elements(rows[i].addresses) \subseteq Serials \cup Announced
    /\ \A i \in DOMAIN rows : Cardinality(Elements(rows[i].addresses)) = Len(rows[i].addresses)

\* Two addresses share a row exactly when they belong to one device: its USB serial,
\* its wireless connection and a port it had before come together, and no other's.
OneRowPerDevice ==
  step = "shown" =>
    \A a, b \in Serials \cup Announced : Holding(a) = Holding(b) <=> Owner(a) = Owner(b)

\* README.md: "Connected USB and Wi-Fi devices keep their adb state and model; an
\* endpoint that is announcing but not connected is shown as discovered" - whatever
\* other transports of the same device say, and in whatever order they come.
KeepsWhatAdbKnows ==
  step = "shown" => \A i \in DOMAIN rows :
    LET known == {k \in DOMAIN connected : connected[k].serial \in Elements(rows[i].addresses)}
    IN  /\ rows[i].status = "discovered" <=> known = {}
        /\ rows[i].status = "connected" <=> \E k \in known : connected[k].state = "device"
        /\ known # {} /\ rows[i].status # "connected" =>
             \E k \in known : connected[k].state = rows[i].status
        /\ rows[i].name # NoModel <=> \E k \in known : connected[k].model # NoModel

\* skills/wadb/SKILL.md: "use the IDs from devices".  Passed to connect or disconnect
\* while the network stays as it is, an id selects the announced addresses of its
\* row and no others; an id that is an address is dialled as it is.
IdSelectsItsRow ==
  step = "shown" => \A i \in DOMAIN rows :
    IF rows[i].id \in Host \X Port
    THEN rows[i].id \in Elements(rows[i].addresses)
    ELSE {Addr(ep) : ep \in Elements(selectEndpoints(announced, rows[i].id))}
           = Elements(rows[i].addresses) \cap Announced

\* Filtered by an id or an address, the table still shows the device that the same
\* selector would connect.
FilterAgreesWithConnect ==
  step = "shown" /\ filter \in ID \cup (Host \X Port) =>
    \A ep \in Elements(selectEndpoints(announced, filter)) :
      \E i \in DOMAIN shown : Addr(ep) \in Elements(shown[i].addresses)

\* The addresses of a row are printed as one text, with commas.  Taken as a selector
\* it is an address only when there is one.
selectedByAddress(row) ==
  IF Len(row.addresses) = 1 THEN Elements(row.addresses) \cap Announced ELSE {}

\* device_manager.go: "Run wadb devices --output json and select an id or address
\* from the result."
AddressSelectsItsRow ==
  step = "shown" => \A i \in DOMAIN rows :
    Elements(rows[i].addresses) \cap Announced # {} => selectedByAddress(rows[i]) # {}

==============================================================================
