--------------------------------- MODULE Scan ---------------------------------
(***************************************************************************)
(* discoverConnectEndpoints of device_manager.go: every command that looks *)
(* for devices first asks the adb server for the services it has cached,   *)
(* then browses itself - for a shorter time if the cache had something -   *)
(* and merges the two, putting the host it prefers first.                  *)
(***************************************************************************)
EXTENDS Browse, Merging

CONSTANTS
  Reports,     \* what adb mdns services can answer: sequences of table rows
  Preferred,   \* the preferred hosts callers pass: a host, or NoHost for none
  ScanTimeout, \* defaultScanTimeout
  MaxAdb       \* bound on the time adb mdns services takes, which the code does not limit

\* A parsed row of adb mdns services: the service and the endpoint it names.
\* Rows that do not parse are not in the report.
Row == [service : {"connect", "pairing"}, ep : Endpoint]

ASSUME ScanAssumption ==
  /\ Reports \subseteq Seq(Row)
  /\ Preferred \subseteq Host \cup {NoHost}
  /\ ScanTimeout \in Nat /\ MaxAdb \in Nat

VARIABLES
  phase,        \* "cache", "live", then "done"
  asked,        \* the timeout the caller asked for
  preferred,    \* the host the caller prefers
  cached,       \* endpoints adb reported
  result,       \* endpoints returned; none is an error
  elapsed,      \* time since the call
  answered      \* (history) the time adb answered or failed, at which the browse begins

browse == vars
times  == <<elapsed, answered>>
scan   == <<phase, asked, preferred, cached, result>>
svars  == <<browse, scan, times>>

----------------------------------------------------------------------------
ScanInit ==
  /\ Init
  /\ phase = "cache"
  /\ asked = timeout
  /\ preferred \in Preferred
  /\ cached = <<>>
  /\ result = <<>>
  /\ elapsed = 0 /\ answered = 0

\* The rows of _adb-tls-connect._tcp.
connectRows(rows) ==
  LET kept == Keep(rows, {row \in Elements(rows) : row.service = "connect"})
  IN  [i \in DOMAIN kept |-> kept[i].ep]

\* (Mutant) A non-empty cache does not shorten the browse.
liveTimeoutFull(c) == asked

\* A browse that has something to fall back on is not given longer than a scan.
liveTimeout(c) == IF c # <<>> /\ asked > ScanTimeout THEN ScanTimeout ELSE asked

\* adb mdns services takes its time, before the context of the timeout exists.
CacheWaits ==
  /\ phase = "cache"
  /\ elapsed < MaxAdb
  /\ elapsed' = elapsed + 1
  /\ UNCHANGED <<browse, scan, answered>>

\* adb mdns services answered; the context of the live browse starts now.
CacheReport(rows) ==
  /\ phase = "cache"
  /\ ~interrupted
  /\ cached' = connectRows(rows)
  /\ timeout' = liveTimeout(connectRows(rows))
  /\ phase' = "live"
  /\ answered' = elapsed
  /\ UNCHANGED <<now, interrupted, network, reader, status, asked, preferred, result, elapsed>>

\* adb mdns services failed, or the interrupt killed it.
CacheFails ==
  /\ phase = "cache"
  /\ phase' = "live"
  /\ answered' = elapsed
  /\ UNCHANGED <<browse, asked, preferred, cached, result, elapsed>>

\* The user may interrupt adb mdns services too.
CacheInterrupt ==
  /\ phase = "cache"
  /\ Interrupt
  /\ UNCHANGED <<scan, times>>

Live ==
  /\ phase = "live"
  /\ Next
  /\ elapsed' = elapsed + (now' - now)
  /\ UNCHANGED <<scan, answered>>

\* (Mutant) A failed browse is an error even when the cache had something.
FinishNeedsLive ==
  /\ phase = "live"
  /\ status \in {"found", "failed"}
  /\ \E merged \in {mergeEndpoints(cached, endpoints)} :
       result' = IF status = "failed" THEN <<>> ELSE PreferHost(merged, preferred)
  /\ phase' = "done"
  /\ UNCHANGED <<browse, asked, preferred, cached, times>>

\* The browse returned.  Its error counts only when the merge is empty.
Finish ==
  /\ phase = "live"
  /\ status \in {"found", "failed"}
  /\ \E merged \in {mergeEndpoints(cached, endpoints)} :
       result' = PreferHost(merged, preferred)
  /\ phase' = "done"
  /\ UNCHANGED <<browse, asked, preferred, cached, times>>

Done == phase = "done" /\ UNCHANGED svars

ScanNext ==
  \/ \E rows \in Reports : CacheReport(rows)
  \/ CacheFails
  \/ CacheWaits
  \/ CacheInterrupt
  \/ Live
  \/ Finish
  \/ Done

\* adb mdns services answers or fails: the adb server is taken not to hang.
ScanFairness ==
  /\ WF_svars(CacheFails \/ \E rows \in Reports : CacheReport(rows))
  /\ WF_svars(Live /\ (Start \/ StartFails))
  /\ WF_svars(Live /\ Tick)
  /\ WF_svars(Live /\ CtxExpired)
  /\ WF_svars(Live /\ SettleElapsed)
  /\ WF_svars(Finish)

ScanSpec == ScanInit /\ [][ScanNext]_svars /\ ScanFairness

----------------------------------------------------------------------------
(* Properties. *)

Finished == phase = "done"

Addresses(eps) == {Addr(eps[i]) : i \in DOMAIN eps}

\* Merging two discoveries loses no address, invents none and repeats none.
MergeIsUnion ==
  Finished =>
    /\ Addresses(result) = Addresses(cached) \cup Addresses(endpoints)
    /\ Cardinality(Addresses(result)) = Len(result)

\* The last of the names an address was reported under, if it was given any.
NewestNamed(ep) ==
  LET all   == cached \o endpoints
      named == {i \in DOMAIN all : Addr(all[i]) = Addr(ep) /\ all[i].inst # Unnamed}
  IN  IF named = {} THEN ep.inst = Unnamed
      ELSE ep.inst = all[CHOOSE i \in named : \A j \in named : j <= i].inst

\* What wadb's own browse calls an address overrides the name adb has cached,
\* which may be from before the phone's last reconnect; and a name is never
\* lost to an announcement without one.
NewestName == Finished => \A i \in DOMAIN result : NewestNamed(result[i])

\* The place of an address in the order the sources reported it.
Place(ep) ==
  CHOOSE i \in DOMAIN (cached \o endpoints) :
    /\ Addr((cached \o endpoints)[i]) = Addr(ep)
    /\ \A j \in 1..(i - 1) : Addr((cached \o endpoints)[j]) # Addr(ep)

\* The phone just paired is tried first: its host precedes all others, and
\* within each group the order of discovery is kept.
PreferredFirst ==
  Finished => \A i, j \in DOMAIN result :
    i < j =>
      /\ result[j].host = preferred => result[i].host = preferred
      /\ (result[i].host = preferred <=> result[j].host = preferred) =>
           Place(result[i]) < Place(result[j])

\* A scan comes up empty only if both sources did, and then the browse has used the
\* whole timeout the caller asked for, however long adb took before it, unless
\* something cut it short or it did not start.
EmptyOnlyAfterTimeout ==
  Finished /\ result = <<>> =>
    /\ cached = <<>> /\ Usable = {}
    /\ \/ elapsed - answered = asked
       \/ interrupted \/ closed \/ elapsed = answered

\* Once adb has answered, a scan takes no longer than was asked for, nor than the scan
\* timeout when the answer holds something to connect to.  adb's own time comes on top
\* of that, and no timeout limits it.
LiveBound ==
  phase # "cache" =>
    /\ elapsed - answered <= asked
    /\ cached # <<>> => elapsed - answered <= ScanTimeout

===============================================================================
