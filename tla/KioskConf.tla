------------------------------ MODULE KioskConf ------------------------------
(***************************************************************************)
(* /etc/bluebird/kiosk.conf as config.py writes it.  write_config reads    *)
(* the file, merges its keys and replaces the file by kiosk.tmp: two       *)
(* processes that write at a time, the admin server and the heartbeat,     *)
(* share that one temporary file and no lock.  A file is an inode here: a  *)
(* writer holds the one it opened, whatever name it has by now.            *)
(***************************************************************************)
EXTENDS Naturals

CONSTANTS
    Display,    \* what a kiosk without per-output content can be told to show
    Wall,       \* the Legacy Wall, one of them
    Names,      \* of schools: 1 with an apostrophe, 0 without
    MaxServerOps, MaxQuotes   \* bounds: requests that write the file, quotings that count

ASSUME WallAssumption == Wall \in Display
ASSUME NamesAssumption == Names \subseteq {0, 1}
ASSUME ServerOpsAssumption == MaxServerOps \in Nat /\ MaxQuotes \in Nat \ {0}

VARIABLES
    conf,       \* kiosk.conf, as read_config returns it
    tmp,        \* kiosk.tmp, or Absent
    writer,     \* of each process: how far its write_config is
    overlap,    \* observer: two writes have run at a time and one still does
    op,         \* the request the server handles
    licensed,   \* license.token exists
    configured, \* the marker /etc/bluebird/configured exists
    serverOps   \* bound

confVars == <<conf, tmp, writer, overlap, op, licensed, configured, serverOps>>

Process == {"server", "heartbeat"}

(* Of TENANT_NAME only its apostrophe: 0 without one, otherwise one more   *)
(* than how often the name has been quoted and read.                       *)
Content == [slug : BOOLEAN, id : BOOLEAN, name : 0..MaxQuotes, display : Display,
            layout : {"mirror", "independent"}]

Key == {"slug", "id", "name", "display", "layout"}

(* An empty file reads as _DEFAULTS.                                       *)
Defaults == [slug |-> FALSE, id |-> FALSE, name |-> 0, display |-> Wall, layout |-> "mirror"]

(* What read_config makes of what write_config quoted: an apostrophe comes *)
(* back as the five characters that stand for it.                          *)
Reread(k, value) == IF k = "name" /\ value \in 1..(MaxQuotes - 1) THEN value + 1 ELSE value

Absent == [absent |-> TRUE]

(* fd: the name the opened inode has now.                                  *)
Quiet == [at |-> "idle", text |-> Defaults, keys |-> {}, fd |-> "none"]

Writer == [at : {"idle", "merged", "open", "filled"}, text : Content,
           keys : SUBSET Key, fd : {"none", "tmp", "conf", "gone"}]

Op == {"none", "id", "code", "slug", "reset", "reboot"}

ConfTypeOK ==
    /\ conf \in Content /\ tmp \in Content \cup {Absent}
    /\ writer \in [Process -> Writer]
    /\ overlap \in BOOLEAN /\ licensed \in BOOLEAN /\ configured \in BOOLEAN
    /\ op \in Op
    /\ serverOps \in 0..MaxServerOps
    /\ \A p \in Process : writer[p].fd = "tmp" => tmp # Absent

ConfInit ==
    /\ licensed \in BOOLEAN
    /\ \E name \in (IF licensed THEN Names ELSE {0}) :
           conf = [Defaults EXCEPT !.slug = licensed, !.id = licensed, !.name = Reread("name", name)]
    /\ configured \in {FALSE, licensed}
    /\ tmp = Absent
    /\ writer = [p \in Process |-> Quiet]
    /\ overlap = FALSE /\ op = "none" /\ serverOps = 0

-----------------------------------------------------------------------------
(* write_config *)

Writing(p) == writer[p].at # "idle"

Merged_Fresh(changes) ==
    [k \in Key |-> Reread(k, IF k \in DOMAIN changes THEN changes[k] ELSE Defaults[k])]

(* The text that is written, as it will be read.                           *)
Merged(changes) ==
    [k \in Key |-> Reread(k, IF k \in DOMAIN changes THEN changes[k] ELSE conf[k])]

BeginWrite(p, changes) ==
    /\ ~Writing(p)
    /\ writer' = [writer EXCEPT ![p] =
           [at |-> "merged", text |-> Merged(changes), keys |-> DOMAIN changes, fd |-> "none"]]
    /\ overlap' = \E q \in Process : q # p /\ Writing(q)

OpenTmp(p) ==
    /\ writer[p].at = "merged"
    /\ tmp' = Defaults
    /\ writer' = [writer EXCEPT ![p].at = "open", ![p].fd = "tmp"]
    /\ UNCHANGED <<conf, overlap, op, licensed, configured, serverOps>>

(* Over a longer text of the other process the last line of that remains.  *)
Overwritten(old, new) == {new} \cup (IF overlap THEN {[new EXCEPT !.layout = old.layout]} ELSE {})

FillTmp(p) ==
    /\ writer[p].at = "open"
    /\ \/ /\ writer[p].fd = "tmp" /\ tmp' \in Overwritten(tmp, writer[p].text)
          /\ UNCHANGED conf
       \/ /\ writer[p].fd = "conf" /\ conf' \in Overwritten(conf, writer[p].text)
          /\ UNCHANGED tmp
       \/ writer[p].fd = "gone" /\ UNCHANGED <<conf, tmp>>
    /\ writer' = [writer EXCEPT ![p].at = "filled"]
    /\ UNCHANGED <<overlap, op, licensed, configured, serverOps>>

(* What the rename does to the inodes the others hold.                     *)
Renamed(fd) == CASE fd = "tmp" -> "conf" [] fd = "conf" -> "gone" [] OTHER -> fd

Ended(p) ==
    /\ writer' = [q \in Process |->
           IF q = p THEN Quiet
           ELSE IF tmp = Absent THEN writer[q] ELSE [writer[q] EXCEPT !.fd = Renamed(@)]]
    /\ overlap' = (overlap /\ \E q \in Process : q # p /\ Writing(q))

Replaces(p) ==
    /\ writer[p].at = "filled" /\ tmp # Absent
    /\ conf' = tmp /\ tmp' = Absent
    /\ Ended(p)

(* The other process has renamed kiosk.tmp away: FileNotFoundError.        *)
ReplaceRaises(p) ==
    /\ writer[p].at = "filled" /\ tmp = Absent
    /\ Ended(p)
    /\ UNCHANGED <<conf, tmp>>

(* The process dies; what it wrote so far stays.                           *)
Killed(p) == [writer EXCEPT ![p] = Quiet]

-----------------------------------------------------------------------------
(* The requests that write kiosk.conf; the server handles one at a time.   *)

Request ==
    /\ op = "none" /\ ~Writing("server")
    /\ serverOps < MaxServerOps /\ serverOps' = serverOps + 1

(* /firstboot/license/redeem: ensure_device_id, the answer of the backend, *)
(* license.token, then the slug.                                           *)
RedeemNew ==
    /\ Request /\ ~configured /\ ~conf.id
    /\ op' = "id"
    /\ BeginWrite("server", [id |-> TRUE])
    /\ UNCHANGED <<conf, tmp, licensed, configured>>

RedeemAgain ==
    /\ Request /\ ~configured /\ conf.id
    /\ op' = "code"
    /\ UNCHANGED <<conf, tmp, writer, overlap, licensed, configured>>

CodeRefused ==
    /\ op = "code"
    /\ op' = "none"
    /\ UNCHANGED <<conf, tmp, writer, overlap, licensed, configured, serverOps>>

CodeAccepted ==
    /\ op = "code"
    /\ licensed' = TRUE /\ op' = "slug"
    /\ \E name \in Names : BeginWrite("server", [slug |-> TRUE, name |-> name])
    /\ UNCHANGED <<conf, tmp, configured, serverOps>>

(* /firstboot/finalize; the page reboots the box some seconds later.       *)
Finalize ==
    /\ op = "none" /\ ~configured /\ conf.slug /\ licensed
    /\ configured' = TRUE
    /\ UNCHANGED <<conf, tmp, writer, overlap, op, licensed, serverOps>>

(* /admin/kiosk/slug, to another school or the same.                       *)
ChangeSlug ==
    /\ Request /\ configured
    /\ op' = "slug"
    /\ BeginWrite("server", [slug |-> TRUE])
    /\ UNCHANGED <<conf, tmp, licensed, configured>>

(* The marker goes first; license.token, mode and layout stay.             *)
FactoryReset ==
    /\ Request /\ configured
    /\ configured' = FALSE /\ op' = "reset"
    /\ BeginWrite("server", [slug |-> FALSE, id |-> FALSE])
    /\ UNCHANGED <<conf, tmp, licensed>>

AfterServerWrite ==
    CASE op = "id" -> "code" [] op = "reset" -> "reboot" [] OTHER -> "none"

ServerWrites ==
    /\ Writing("server")
    /\ \/ OpenTmp("server") \/ FillTmp("server")
       \/ /\ Replaces("server") /\ op' = AfterServerWrite
          /\ UNCHANGED <<licensed, configured, serverOps>>
       \/ /\ ReplaceRaises("server") /\ op' = "none"
          /\ UNCHANGED <<licensed, configured, serverOps>>

ServerStep ==
    \/ RedeemNew \/ RedeemAgain \/ CodeRefused \/ CodeAccepted
    \/ Finalize \/ ChangeSlug \/ FactoryReset \/ ServerWrites
=============================================================================
