------------------------------- MODULE AuthIp -------------------------------
(***************************************************************************)
(* Loading the address list (authip/authip.go): the goroutine of watchYml  *)
(* re-reads the file on every Write or Rename event for its name, while    *)
(* the event loop validates new clients against IpMap.                     *)
(***************************************************************************)
EXTENDS Integers, Sequences, FiniteSets

CONSTANTS
  Addresses,
  MaxSaves     \* bound on how often the file is saved

VARIABLES
  file,      \* what the file holds
  events,    \* fsnotify events for the file's name, oldest first
  alive,     \* the watching goroutine runs
  todo,      \* addresses the reload under way still inserts
  enable,    \* IpMap.enable
  ipMap,     \* the keys of IpMap
  saves,     \* number of saves
  last       \* how the file was last saved: "write" or "replace"

vars == <<file, events, alive, todo, enable, ipMap, saves, last>>

Contents == [enable : BOOLEAN, list : SUBSET Addresses, valid : {TRUE}]
Empty == [enable |-> FALSE, list |-> {}, valid |-> TRUE]
Malformed == [enable |-> FALSE, list |-> {}, valid |-> FALSE]

(* Bug: a file that is not enabled is skipped altogether. *)
ParseEnabledOnly(f) ==
  IF f.valid /\ f.enable THEN enable' = TRUE /\ todo' = f.list
  ELSE UNCHANGED <<enable, todo>>

(* parseAuthIp before the loop over the list: a file that cannot be read   *)
(* or parsed changes nothing; enable is set before any address is added.   *)
Parse(f) ==
  IF f.valid THEN enable' = f.enable /\ todo' = IF f.enable THEN f.list ELSE {}
  ELSE UNCHANGED <<enable, todo>>

(* LoopIPWhiteList loads the file once before the proxy serves. *)
Init ==
  /\ file \in Contents
  /\ events = <<>> /\ alive = TRUE /\ todo = {}
  /\ enable = file.enable
  /\ ipMap = IF file.enable THEN file.list ELSE {}
  /\ saves = 0 /\ last = "write"

(* Saving in place truncates the file and then writes it (external); each  *)
(* of the two is a Write event, and the reload of the first may read the   *)
(* file before or after the second.                                        *)
Truncate ==
  /\ saves < MaxSaves
  /\ saves' = saves + 1
  /\ file' = Empty
  /\ events' = Append(events, "Write")
  /\ last' = "truncate"
  /\ UNCHANGED <<alive, todo, enable, ipMap>>

WriteContents ==
  /\ last = "truncate"
  /\ file' \in Contents \union {Malformed}
  /\ events' = Append(events, "Write")
  /\ last' = "write"
  /\ UNCHANGED <<alive, todo, enable, ipMap, saves>>

(* Saving by renaming a new file over the old one is a Create event. *)
Replace ==
  /\ saves < MaxSaves /\ last # "truncate"
  /\ saves' = saves + 1
  /\ file' \in Contents
  /\ events' = Append(events, "Create")
  /\ last' = "replace"
  /\ UNCHANGED <<alive, todo, enable, ipMap>>

(* The select of watchYml takes an event; the goroutine is in the loop of  *)
(* parseAuthIp until todo is empty.                                        *)
HandleEvent ==
  /\ alive /\ todo = {} /\ events # <<>>
  /\ events' = Tail(events)
  /\ IF Head(events) \in {"Write", "Rename"} THEN Parse(file) ELSE UNCHANGED <<enable, todo>>
  /\ UNCHANGED <<file, alive, ipMap, saves, last>>

Insert ==
  \E ip \in todo :
    /\ todo' = todo \ {ip}
    /\ ipMap' = ipMap \union {ip}
    /\ UNCHANGED <<file, events, alive, enable, saves, last>>

(* An error from the watcher ends the goroutine. *)
WatchError ==
  /\ alive /\ todo = {}
  /\ alive' = FALSE
  /\ UNCHANGED <<file, events, todo, enable, ipMap, saves, last>>

Next == Truncate \/ WriteContents \/ Replace \/ HandleEvent \/ Insert \/ WatchError

Spec == Init /\ [][Next]_vars

-----------------------------------------------------------------------------
(* OnCOpened keeps the connection of this address. *)
Validate(ip) == enable => ip \in ipMap

(* The list in force.  When the watcher has nothing left to do, a file     *)
(* saved in place is in force: enable is the file's, and every address it  *)
(* lists is admitted, whichever half-written states the reloads in between *)
(* have read (watchYml, parseAuthIp).                                      *)
LoadedWhenQuiet ==
  alive /\ todo = {} /\ events = <<>> /\ last = "write" /\ file.valid =>
    enable = file.enable /\ \A ip \in file.list : Validate(ip)
=============================================================================
