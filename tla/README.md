# A verification model of wadb

`wadb` pairs Android phones with this machine over Wi-Fi and connects `adb` to
them. It is one short-lived process per command: it finds `adb`, browses the
local network by mDNS, asks the adb server what it knows, and runs `adb pair`,
`adb connect` or `adb disconnect` as child processes. These modules model that
process and what surrounds it; TLC checks them on small networks, and TLAPS
proves the main properties for networks of any size.

## The system

| Part | State it keeps | Operations | What makes it correct |
|---|---|---|---|
| Connect browse, `internal/mdns/browse.go:192` | collected endpoints, addresses seen, settle timer | receive an entry; end by deadline, timer or closed channel | each address once, nothing heard is lost, error only when nothing was heard, ends in time and not too early |
| Pairing browse, `browse.go:156` | nothing until the match | receive an entry; end by deadline or closed channel | only the phone that scanned our code |
| Discovery, `device_manager.go:20-99` | adb's cached endpoints, live endpoints | ask adb, browse, merge, put a host first | union of both sources, newest name, preferred host first, time limits of the live browse |
| Connecting, `device_manager.go:128` | results so far | one `adb connect` per endpoint | at most one device without `--all`, every endpoint tried before giving up |
| Device table, `device_manager.go:271-427` | rows merged so far | list, scan, merge by address, merge by id, filter | one row per device with all its addresses; its ids select it |
| Commands, `main.go`, `device_manager.go` | options, results | pair, QR pairing, connect, disconnect, devices, doctor | does what was asked and no more, reports it truly |
| Structured output, `output.go`, `main.go:152` | - | one envelope on stdout, exit status | exactly one object, agreeing with the exit status |
| adb client, `internal/adb/adb.go` | - (the adb server keeps the connections) | child processes bound to the context | an interrupted call may have taken effect |
| `doctor`, `main.go:369` | its result | look at adb, interfaces, server, services | what fails is a warning, except the server |
| Command line, `main.go:59-310,543-653` | normalized arguments, flag values | read the environment, sort and parse the line, dispatch | flags anywhere; errors in the form asked for, at every stage |
| Credentials, `internal/pairing/creds.go` | buffer, characters so far | draw bytes, reject, take | unbiased characters, each from a byte of its own |
| QR rendering, `capabilities`, `schema` | - | print | - |
| Several runs, with adb and phones in between | adb's connections and cache, ports of the phones | run again | success means the right phone; repeating gets it back |

The parts interact by calls. `executeCLI` reads the environment and the arguments
and calls one command. A command calls `setupADB`, then discovery, which
calls `adb mdns services` and the browse; the endpoints go to the selection and
from there to the connect or disconnect loop. All of them share one context: a
SIGINT or SIGTERM cancels it, and a deadline on it bounds each browse - a browse, and
not the call of `adb mdns services` before it. The only
goroutine besides the command's is zeroconf's, which sends entries into the
channel of a browse.

What is hard here, and hard to reach in a test: the `select` of a browse with
several ready cases; time limits that depend on what was heard; sources that
repeat, rename and contradict each other (a phone gets a new port and may get a
new name on each reconnect, while adb still has the old ones cached); an
interrupt between any two steps, or in the middle of an adb call whose server
acts on it all the same; and the many ways a command ends, each of which must
write one object and one exit status; a line that is read three times, by two
tables of flags; and runs that follow one another while phones change their ports
and adb's cache keeps the old ones. `PROJECT.json` lists these hazards with
the line where each bites and the properties that watch it.

## The modules

`Endpoints` holds the data: entries, addresses, endpoints, and the operators on
them (`pickAddr`, `PreferHost`). A host is an IP with a zone; two endpoints are
the same when host and port are. Everything else extends it.

`Browse` is the connect browse. `chan`, `closed` and `announced` are zeroconf's
side; `timeout`, `now` and `interrupted` are the context's; `endpoints`, `seen`
and `settleAt` are the local variables of `browseCandidates`; `status` is its
return. Each case of the `select` is an action (`CtxExpired`, `SettleElapsed`,
`ChannelClosed`, `Receive`), and when several are enabled any may be taken, as Go
does. `heard` is a history variable that only the properties read. `Tick` is a
discrete clock that stops while a timer is due - the code reacts to a timer
within one unit of time - but not while entries wait in the channel.

`Discovery` is what a caller may rely on, in two variables: it finds endpoints
one by one with distinct addresses, and returns all of them, or an error if there
are none. `Browse` implements it (`ImplementsDiscovery`, with the return value
and the endpoints as the mapping).

`BrowsePairing` extends `Browse` with `browseUntil`: the same network and clock,
its own two cases.

`Scan` composes the live browse with adb's cache. Before it, `CacheReport` or
`CacheFails` stands for `adb mdns services`; `Live` is any step of the browse;
`Finish` is the merge, of module `Merging`, and `PreferHost`. The report is any of a set of parsed
tables: rows that do not parse are not in it. `CacheWaits` is the time that adb takes.
The code creates the context of the timeout after that call, so this time is not part
of what the caller asked for: `elapsed` counts all of it, `answered` is when the call
returned, and `LiveBound` bounds the difference. A bound on the whole scan does not hold.

`Selection` is how `--device` selects among endpoints. Names are compared without
regard to case by the code; here, names that differ only in case or surrounding
space are one value. An empty `--device` is the same as none, and white space
alone is the value `BlankDevice`.

`Devices` is the table of the `devices` command: `AddAnnounced` is a turn of the loop
that merges by address (`mergeByAddress`), `AddRow` with `Absorb` one of the loop that
merges by id (`consolidate`), and `selectManagedDevices` the filter. The columns transport and
source, which nothing depends on, are left out.

`TryConnect` is the loop of `adb connect`, shared by all commands that connect.
`adb` is the set of addresses the server is connected to and `trusted` the hosts
whose phones accept this machine. A call may succeed, fail, or be killed by the
interrupt with or without the server having acted. `gained` is a history
variable: what the server connected to on our behalf.

`Commands` extends it to one run of the program. `opts` is the parsed command
line; `pc` says where the process is; `code`, `exit` and `objects` are what the
caller sees. `devices` lists (`List`), scans and prints (`ShowTable`); the error of
printing a table in text is the only one of its kind that the code looks at. Discovery
is what `Scan` promises its caller: some sequence of
endpoints with distinct addresses, or none. An action is a call with everything
that follows it up to the next call. `found`, `sent` and `lost` are history
variables. An option that looks like `host:port` is one that parses as such.

`doctor` is the actions `Inspect`, `StartServer`, `StartServerFails` and `Services`;
`report` is its result, down to whether the list of services is empty, null or
filled, and which warnings it carries.

`RunContract` is what any run may do to the outside, in seven variables and five
actions: pair once and before it connects, touch one device unless told all, do
nothing after an interrupt, and exit with 0 only when it did what it is for and with
2 only when it did nothing. `Commands` implements it (`ImplementsContract`):
`purpose` maps the command line to what the run is for, `sent` to how often a code
was given, `interrupted` to the cut, and `exit` to the status.

`Session` extends `Commands` and `Merging` to one run after another. `again` has the
next command lines of somebody who wants one phone connected: by its id after pairing
or after `multiple_devices`, else the same once more, as README.md (Troubleshooting)
and `skills/wadb/SKILL.md` tell. A plain `wadb connect` in text mode stops at the first
phone that accepts it, which may be another one (`unselective`): who gets that may go on
by id, or repeat the same for ever. A new process starts from nothing; `adb`, `trusted`
and the ports of the phones (`listens`) stay. Discovery is no longer any sequence:
`Discover` merges what adb has cached - any of what was ever `announced`, so former
ports too - with what a browse hears now. `Loses` and `Moves` drop a connection and
change a port, at any time. An address is taken to stay with its phone.

`CliArgs` is `executeCLI` up to the command: `stage` names the call it makes next,
`normalized`, `setting` and `words` are the results of `normalizeCLIArgs` and of the
flag package. A line is a sequence of tokens: words, and options with their dashes,
name and value. `Look`, `Sort` and `ReadToken` are turns of the three loops that read
it, and `Fold` is a loop; the third is Go's flag package, which
is external and modelled as far as the code uses it. What a flag value means is left
to its type: text, boolean or duration, good or bad. `String` is the set of what an
argument can hold, a constant, since the prover does not know that a literal is a string.
Strings that differ in case only are one value. White space around a string is kept,
and `trimmed` says what `strings.TrimSpace` makes of it: the environment is trimmed
where it is read (`Getenv`), the parsed `--output` where it is used (`structuredJSON`,
`validateOutput`), and the line that `wantsStructuredJSON` looks through is not.

`Credentials` is `randString`, called for the name and then for the password: `buf`,
`pos` and `out` are its variables, a character is its index in the alphabet. All
arithmetic that the code does in `uint8` is taken modulo `Bytes`. `Startup` composes
it with `CliArgs`: QR pairing is the command that generates credentials, and it
succeeds only when it has shown them.

The `MC` modules give the constants their values. The `_proofs` modules hold the
theorems. Operators whose comment begins with *(Mutant)* are faulty variants of
the definition that follows them, and serve to confirm that a property would
notice the fault; no action uses them.

## What the runs check

| Run | States | What it shows |
|---|---|---|
| `MCBrowse` | 60,742 | A device under several names, families and interfaces is one endpoint (`UniqueAddresses`), nothing heard is lost or invented (`ReportsAllHeard`), the order and the name are those of the first announcement (`InHeardOrder`). The browse ends within the settle delay of the first find (`SettleBound`), no sooner unless cut short (`NoEarlyReturn`), always (`Terminates`), and as `Discovery` allows (`ImplementsDiscovery`). |
| `MCBrowsePairing` | 40,542 | The phone found is the one that scanned the code (`PairsWithScanner`); giving up means it was not heard in time (`GivesUpLate`); the wait ends, though strangers announce themselves meanwhile (`PairingTerminates`). |
| `MCScan` | 178,764 | `MergeIsUnion`, `NewestName`, `PreferredFirst`: merging a stale cache with a live browse. `EmptyOnlyAfterTimeout`: coming up empty has taken the whole time asked for; `LiveBound`: from adb's answer on, a scan keeps to the time asked for and, with something cached, to the scan timeout. |
| `MCCommands` | 45,392 | `OneAnswer`, `ExitTellsOutcome`: what the caller is told is true. `ReportedFaithfully`: what a run prints as connected or disconnected is, and nothing it did goes untold unless an interrupt or a broken stdout cut the report off - but for a `disconnect` that failed for one of its addresses, whose JSON leaves out the others. `AtMostOneGained`, `StructuredNeverChooses`, `TouchesOnlySelected`, `RefusalChangesNothing`: a run does no more than it was asked. `NothingLeftUntried`: and no less. `NothingAfterInterrupt`, `Exits`: interrupts. `ImplementsContract`: pairing at most once and before connecting, and all that `RunContract` says. |
| `MCSession` | 118,680 | Over any number of runs with two disturbances: a `connect` by id that exits with 0 has connected that phone where it listens now (`SuccessIsThePhone`), and repeating the command gets the phone back for good (`ComesBack`), whatever earlier runs, drops, port changes and interrupts have left. Whoever leaves the choice to a plain `connect` in text mode, each time, is only promised some paired phone: with another one listed first every time, the wanted one never gets its turn. |
| `MCDevices` | 6,282 | `EachAddressOnce`, `OneRowPerDevice`: the two merges lose, double and confuse no device, against a reference that knows only which id is announced for an address. `KeepsWhatAdbKnows`: state and model survive the merge in any order. `IdSelectsItsRow`, `FilterAgreesWithConnect`: what the table prints is what `connect` selects. |
| `MCStartup` | 489,440 | `FlagsAnywhere`: a command runs with the values its author asked for and the words that are no values, wherever the options stand. `AnswersAsAsked`: JSON on stdout exactly when it was asked for, once, agreeing with the exit status, for errors found before parsing too; a format with white space around it on the line counts from when the flags are parsed. `Unbiased`, `OwnByteEach`: the credentials. `StartupEnds`: every line comes to an exit status. |

Five runs find a disagreement between the code and what the repository says of it.

- `MCCommands_blank` (`DisconnectIsExplicit`): `disconnect --device " "` passes
  the test that refuses an empty selector, is trimmed later, and disconnects
  every device a scan finds. (`connect --device " "` gets past the refusal of
  several devices in the same way.)
- `MCCommands_doctor` (`DoctorListsServices`): `mdns_services` is `null` in
  `doctor`'s result when adb lists nothing; the schema demands an array.
- `MCCommands_ports` (`RefusesBetweenDevices`): `multiple_devices` counts
  endpoints. A device that adb has cached under its former port counts twice.
- `MCCommands_host` (`HostSelectsConnected`): a connected device that does not
  announce itself cannot be disconnected by its host. The loop that asks adb for
  the connected devices compares them with a selector that is never an address.
- `MCDevices_address` (`AddressSelectsItsRow`): the address of a device that has
  several is printed with commas, and that text selects nothing, though the error
  message of `connect` suggests an address from this table.

The README of the repository (line 184) calls adb's cache the fallback of the
browse. The code asks it first and puts its endpoints first, and so does `Scan`.

### Bounds, and why they are enough

- `MCBrowse`: two phones in four kinds of entry - plain; renamed, with an
  unusable address first and a second family; moved to another port; link-local
  only - and at most three announcements into a channel of two. Three suffice for
  a first find, a duplicate of it and a second device in any order, and for the
  sender to block on a full channel. The timeouts 0, 2 and 4 lie below, at and
  above the settle delay of 2 counted from a find at each time. The code's
  channel holds eight entries; the size matters only for how far the reader lags.
- `MCBrowsePairing`: the scanner's phone unusable, link-local and plain, and a
  stranger; four announcements; the browse is bound to an interface, so zones
  occur.
- `MCScan`: adb reports nothing, a pairing service, a renamed device, or a table
  with a duplicate and a stale port; two announcements; the timeouts 2 and 4 are
  below and above the scan timeout of 3. adb takes up to two units of time to answer
  (`MaxAdb`), enough to exceed each timeout together with the browse; `LiveBound` does
  not depend on how long it is, and its proof has no such limit but a natural number.
- `MCDevices`: a phone on USB, on Wi-Fi and under a former port, one without an
  id, and an unnamed endpoint; adb lists up to two transports in any order and
  state, a scan returns up to three endpoints. Two rows are enough for every pair
  that can merge, and the scan adds the third.
- `MCSession`: two phones and two ports, so that a phone's former address is still
  cached when it listens on the other; the wanted phone paired already or to be paired
  first, by code or QR; connecting with and without its id, in JSON and in text, and to
  all. Two
  disturbances, of any kind and at any time: a failure that leaves the connection to
  the wrong port, and a move in the middle of the next run. The number of runs is not
  bounded.
- `MCStartup`: lines of up to four tokens around a command; every option that is
  parsed in its own way (boolean, text, duration, unknown, help, `--`, one dash); the
  environment empty, set, and unreadable; a format with white space around it in the
  environment, in one token and as a separate value; stdout writable or not. Two tokens are
  enough for an option to take the next as its value, the third and fourth for what
  that shifts. The alphabets of two and three characters and five byte values leave
  one and two values to reject; a name of one character and a password of two, with
  one rejection, refill the buffer in either. The proofs cover every other size.
- `MCCommands`: two phones, one of them under a stale port too, and one under a
  name without an id; every command, output mode and selector kind, and the
  options that change its course; any of the phones paired or connected already.
  The largest discovery has three endpoints, enough for a success between two
  failures.

### Fairness

Assumed of the program: the goroutine that runs is scheduled and a timer
that is due fires. Go's `select` picks at random among ready cases, so a case
that stays ready is taken in the end: `CtxExpired` and `SettleElapsed` stay
enabled once they are, and weak fairness of each is what the random choice gives.
`Tick` is fair because time passes. In `Scan`, `Commands` and `Session`, adb calls return:
wadb puts no timeout of its own on them, so this is an assumption about adb.
Nothing is assumed of the network, of the user, or of the zeroconf goroutine, except
in `Session`, whose question is what repeating achieves: there the user types the code
and runs the command again (weak fairness of `Again`), and of runs that browse and
connect for ever, some hear the phone and some reach it (strong fairness of
`HearsPhone` and `ReachesPhone`: the network loses announcements and connections, but
not all of them). In `Startup` the source of randomness yields a byte that is not
rejected in the end: its model draws at most `MaxRejected` others.
Nobody has to type a pairing code, and so `Exits` allows a run to wait for one for
ever: the read of stdin does not look at the context, and an interrupt does not
end it.

## What is proved

Every invariant and action property that a passing run checks is also a theorem, for
every set of entries, timeouts, options, endpoints, devices and command lines that the
named assumptions allow (`AddressAssumption`, `BrowseAssumption`, `WantAssumption`, `ScanAssumption`, `SelectionAssumption`,
`CommandsAssumption`, `DevicesAssumption`, `SessionAssumption`, `CredentialsAssumption`,
`CliAssumption`, `TrimAssumption`):

- `Endpoints_proofs`: what `pickAddr` returns (`PickAddrSound`) and that
  `PreferHost` loses nothing (`PreferHostKeepsAll`) and keeps the order of the others
  (`PreferHostOrder`). These go through `KeepSound`, an induction over the prefixes of
  a sequence, done by induction on a set of naturals (`SetInduction`). `Keep` and
  `mergeEndpoints` are recursive functions for this reason: the prover cannot look into
  `SelectSeq` and the folds. `LoopExists` says that a function defined by recursion over
  the turns of a loop is there at all, and `PrefixInduction` that what holds before the
  first turn and is kept by each holds after the last. Every proof about a loop below
  goes through these two, with a predicate on what the loop has after `n` turns.
- `Browse_proofs`: all safety properties of `Browse`, and that it implements the
  safety part of `Discovery` (`BrowseIsDiscovery`). The invariant is `IndInv`.
  `UniqueAddresses` and `ReportsAllHeard` are inductive together, because `seen`
  is at once the addresses heard and the addresses collected. The time bounds
  need `Settling`: the timer runs from the first usable entry, and the clock does
  not pass what is due. `Reason` ties a return to what caused it.
- `Commands_proofs`: `CommandsTypeOK`, `AtMostOneGained`, `CodeGivenOnce`,
  `PairsFirst`, `ReportedFaithfully`, `OneAnswer`, `RefusalChangesNothing` and
  `NothingAfterInterrupt`. The invariant is `CommandsIndInv`. `ResultsFaithful` and
  `Accounted` tie the results a run keeps to what it did, and how it ended to which of
  them it has told of. `Stages` says where
  each command can be and what it has by then, `Untouched` what it has not done
  yet, and `OneAtATime` carries `AtMostOneGained`: once something is connected
  and not all are wanted, either a result says so and ends the loop, or the run
  is interrupted and no attempt has an effect any more. On the same invariant rest
  two more theorems. `SelectorIsKept` (`TouchesOnlySelected`) adds `TargetsNamed`:
  what is about to be tried is named by the selector, and a refused command never gets
  there. `CommandsImplementContract` shows the refinement: every step is a step of
  `RunContract` or none, by what the steps do inside a run (`InnerStep`) and, for
  those that end it (`OverStep`), that the status is truthful (`TruthfulStep`).
- `Outcome_proofs`: `ExitTellsOutcome`, `NothingLeftUntried` and
  `StructuredNeverChooses`, on the invariant of `Commands_proofs` and `OutcomeInv`. Its
  part `Progress` says that the results are those of the first targets, in order, and
  that `disconnect` tries no address twice - two endpoints at one address would make
  the number of successes mean something else. That holds because discovery returns
  distinct addresses and `Keep` leaves them so (`KeepDistinct`). The same module proves
  `SuccessIsThePhone` of `Session`, for any number of phones, ports and runs. Its
  invariant `SessionInv` says that adb is connected to addresses where phones listen and
  that all it has cached was announced by one (`Air`), that a run told the id of a phone
  tries only endpoints of that phone and keeps what it connected while nobody takes it
  away (`Efforts`), and that exit 0 of a connect means a success among the results
  (`Course`). A stale endpoint may be tried; it cannot succeed, since nobody
  listens there. `SessionAssumption` has finitely many phones, so that every cache
  and every discovery is a finite list, and a serial number that nothing another phone announces
  is selected by.
- `Devices_proofs`: all five properties of `Devices`. `Announces` says what the rows are
  after the first `n` announced endpoints: one per address, with the id that is announced
  for the address, or the address itself. `Consolidates` says what the table is after the
  first `n` rows: each id once, and each of its rows sums up all rows with that id - their
  addresses, whether any is connected, and a model if any has one. The properties
  follow from the two at the end (`TableSound`); `DevicesInv`, that the table is what the
  merges return, carries them over the steps. `IdSelectsItsRow` and
  `FilterAgreesWithConnect` need that ids, instance names and addresses cannot be
  mistaken for one another, which `DevicesAssumption` takes from their forms.
- `BrowsePairing_proofs`: `PairsWithScanner` and `GivesUpLate`. The invariant
  `PairingInv` adds to the two properties that nothing was heard of the phone before the
  wait ends (`Waiting`); `ScannerHeard` says what one entry more changes in that.
- `Scan_proofs`: all safety properties of `Scan`. The invariant `ScanInv` is that of the
  browse, and that it was given no more time than it may have (`Timing`), that its clock runs from
  adb's answer on (`Clocked`) and why it failed if it did (`Giving`); a returned scan holds the merge of what both sources
  found. What that merge is, `Merged` says for every prefix of the two lists: which
  addresses, in the order of their first mention, under the last name.
- `Startup_proofs`: `Unbiased` and `OwnByteEach`, for every number of byte values,
  every alphabet whose length does not divide it and any number of rejections. For
  the first, the limit is the last multiple of the alphabet's length, so adding the
  distance of two characters maps the bytes of one onto the bytes of the other
  (`YieldingMoves`), one to one. For the second the invariant `CredentialsInv` says
  more than the property: the bytes used so far are among those looked at, and the
  rest of the buffer is the end of what was drawn. The same module proves
  `FlagsAnywhere` and `AnswersAsAsked`, for lines of any length and any environment.
  What a line means is stated of the line as a whole (`Asked`, `plainWords`), and what
  the code does is three loops, so each loop gets a predicate that ties its state after
  `i` tokens to the first `i` tokens: `SortedUpTo` (the words so far, in order),
  `ReadUpTo` (each flag has the last value given so far) and `LookUpTo` (so has
  `--output`). A token whose value is still to come is the difficult case in all three,
  and `Said` leaves such an option out until its value is read. The flag package reads
  the output of the sorter, not the line; that the options stand there in the order of
  the line (`LineIsSorted`, `Begins`) lets `LineIsRead` follow both at once. The invariant
  `CliInv` carries the result through the stages, with the fact that nothing has been
  written before the exit and nothing set before the flags are parsed, which tells the
  two kinds of exit apart that see white space differently.

Only model-checked: liveness (`Terminates`, `PairingTerminates`, `Exits`, `ComesBack`,
`StartupEnds`), which the prover does not treat under fairness, and the liveness part of
`ImplementsDiscovery`. `FlagsAnywhere` and `AnswersAsAsked` speak of lines in which no
option lacks its value (`Plain`); of the others they promise nothing, and nothing is
proved but that the run keeps to its stages.

## What is not modelled

- Texts: parsing of adb's tables and versions, prompts, error messages, rendering
  of the QR code, the JSON encoding itself. Where a text decides the course - a
  success that adb words as a failure - the model has the outcome as the code
  classifies it.
- The search for the adb binary and the inspection of interfaces: sequential code
  that reads its surroundings once. `Commands` keeps what follows from them, an adb
  that is missing and an `--iface` that is unusable.
- What `capabilities` and `schema` print, which is constant.

## Seen while reading

Observations that are no runs, because the documents promise less than it would take
or the text is about something else:

- `devices --device <host>` shows nothing, although `man/wadb.1` lists the host among
  the selectors and says that `--device` also filters devices.
- Raising `--connect-timeout` (README.md, flags) does not help a slow device when
  another one, or adb's cache, answers first.
- `normalizeCLIArgs` drops `--`, so a word with dashes after it is read as a flag.
- `adb mdns services` has no timeout. It runs before the context of the browse is
  created (`device_manager.go:32,37`), so an adb server that hangs holds a scan longer
  than `--scan-timeout` or `--connect-timeout` say.
- A `disconnect` in JSON of several addresses that fails for one answers with an error
  that does not list those it disconnected (`device_manager.go:488`).
- `--output " json"` is accepted as JSON (`main.go:544,552`), but `wantsStructuredJSON`
  compares it untrimmed (`main.go:178,182`): with an unknown flag beside it, the error
  comes out as text. `WADB_OUTPUT` is trimmed by both.
- The README's `wadb connect` after a reconnect connects, in text mode, whichever paired
  phone is listed first, and exits with 0; only `--device` says which.
- `wantsStructuredJSON` knows `--output` with two dashes only; with one dash the flag
  package accepts it, and errors found before that are in text. `--device --output
  json` makes `--output` the device for one reading and a flag for the other.
- An unexpected argument after a command is reported with the action `unknown`.
- With an alphabet whose length divides 256 the limit wraps to 0 and `randString`
  never ends; the program's alphabets have 62 characters.
- `pair` reports success when the phone it paired does not connect but another one
  does: the results name the address, the exit status does not tell.
- `device_not_found` is marked as not retryable, though the device may only not have
  announced itself yet. An `<address>` given as `--device` goes stale with the next
  reconnect, an id does not.
- A `devices` run that is interrupted in its scan still answers `ok`;
  `invalid_pairing_code` exits with 1 although the documented meaning of 2 is invalid
  input.

## Plan

In this order; the first nine are done.

1. `Endpoints`, `Discovery`, `Browse` with its proofs; `BrowsePairing`.
2. `Scan`: discovery from two sources.
3. `TryConnect`, `Commands`, with the proofs of its main safety properties.
4. `Selection`, `Devices`: the table and the selectors taken from it.
5. `RunContract`: what any run may do, implemented by `Commands`, with its proof.
6. `CliArgs`, `Credentials`, `Startup`, with the proofs about the credentials.
7. `Session`: several runs against phones that reconnect on new ports.
8. The proofs of `BrowsePairing`, of `Scan` with `mergeEndpoints`, and of what the exit
   status tells.
9. The proofs about `Devices`, with its merges written as recursive functions, about
   `Session` and about the command line.
10. Left: the part of the liveness properties that is a matter of steps and not of
    fairness, that every step of a run brings it closer to its end (fewer entries to
    wait for, fewer targets to try, fewer stages to go).
