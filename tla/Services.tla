------------------------------ MODULE Services ------------------------------
(* Start-up: the kernel starts core.service, core.service the services of   *)
(* /config/services.list, and driver.service the drivers of its own list,   *)
(* while any of them may die.  Nobody waits for them: a process that died   *)
(* stays in the process table as a zombie.                                  *)
(*                                                                          *)
(* A name is a sequence of pieces, cut so that a name that occurs inside    *)
(* another one is a run of its pieces.                                      *)
EXTENDS Integers, Sequences, SequencesExt

CONSTANTS
    ServiceLines,   \* lines that may stand in /config/services.list
    MaxLines,       \* bound: lines of it
    DriverLists,    \* what /config/drivers.list may hold
    Missing,        \* paths without a file
    MaxProcs        \* MAX_PROCESSES

VARIABLE
    table           \* PROCESS_TABLE: slot -> process, with the program it runs

svcVars == <<table>>

AllowedDirs == {"/system/services/", "/bin/", "/bin/drivers/"}
OtherDirs == {"/config/", "../"}
Core == <<"core", ".service">>
Driver == <<"driver", ".service">>

ends_with(name, piece) == name # <<>> /\ Last(name) = piece
contains(name, part) ==
    \E i \in 0 .. Len(name) - Len(part) : SubSeq(name, i + 1, i + Len(part)) = part
service_name_from_path(path) ==
    SelectSeq(path, LAMBDA x : x \notin AllowedDirs \cup OtherDirs)

Process(name) == [name |-> name, alive |-> TRUE, pc |-> "start", todo |-> <<>>]

-----------------------------------------------------------------------------
(* The kernel *)

First(names) ==
    LET found == {s \in DOMAIN table : table[s].name \in names}
    IN  IF found = {} THEN 0 ELSE CHOOSE s \in found : \A r \in found : s <= r

(* ProcessTable::find_by_name: the first slot under the first rule that any *)
(* slot meets; zombies are found as well.  (Its second and third rule are   *)
(* the same; a name that does not end in "drv" has no base, and no process  *)
(* has an empty name.)                                                      *)
find_by_name(name) ==
    LET elf(n) == Append(n, ".elf")
        driver(n) == <<"/bin/drivers/">> \o elf(n)
        base == IF ends_with(name, "drv") /\ Len(name) > 1 THEN Front(name) ELSE <<>>
        holding == {n \in {table[s].name : s \in DOMAIN table} : contains(n, name)}
        rules == <<First({name}), First({elf(name)}), First({driver(name)}),
                   First({base, elf(base)}), First({driver(base)}), First(holding)>>
        hit == SelectInSeq(rules, LAMBDA s : s # 0)
    IN  IF hit = 0 THEN 0 ELSE rules[hit]

(* The system call answers with a thread of that process: a zombie has none.*)
find_process_by_name(name) ==
    LET s == find_by_name(name) IN s # 0 /\ table[s].alive

(* SERVICE_MANAGER_PID is core.service, the first process.                  *)
caller_can_launch_service(s) == s = 1

(* exec_internal names a process after its file, the network driver netdrv. *)
process_name(path) ==
    LET name == service_name_from_path(path)
    IN  IF name \in {<<"net">>, <<"net", ".elf">>} THEN <<"net", "drv">> ELSE name

(* exec_kernel by process s.  core.service is refused a second time.        *)
Exec(s, path) ==
    /\ path \notin Missing
    /\ ends_with(path, ".service") => caller_can_launch_service(s)
    /\ process_name(path) # Core
    /\ Len(table) < MaxProcs
    /\ table' = Append([table EXCEPT ![s].todo = Tail(@)], Process(process_name(path)))

(* A call that started nothing, for want of a file, a right or memory.      *)
Nothing(s) == table' = [table EXCEPT ![s].todo = Tail(@)]

kernel_main == <<Process(Core)>>

-----------------------------------------------------------------------------
(* core.service *)

is_allowed_service_path(path) ==
    Head(path) \in AllowedDirs /\ ~contains(path, <<"../">>)

(* Mutant: only the path of the service is looked up.                       *)
path_already_running(path) == find_process_by_name(path)

service_already_running(path) ==
    LET name == service_name_from_path(path)
    IN  \/ find_process_by_name(path)
        \/ find_process_by_name(name)
        \/ find_process_by_name(<<"/system/services/">> \o name)

(* exec_file_via_fs_service: the path, and when that fails the bare name.   *)
exec_file_via_fs_service(s, path) ==
    Exec(s, path) \/ Exec(s, service_name_from_path(path)) \/ Nothing(s)

(* Up to the list, as there are no critical services to wait for; without   *)
(* a list the background services are started.                              *)
read_services_list(s) ==
    /\ table[s].pc = "start"
    /\ \/ \E n \in 0 .. MaxLines : \E lines \in [1 .. n -> ServiceLines] :
              table' = [table EXCEPT ![s].pc = "list", ![s].todo = lines]
       \/ table' = [table EXCEPT ![s].pc = "background",
                                 ![s].todo = <<<<"/system/services/">> \o Driver>>]

(* One turn of the loop over the list.                                      *)
start_listed(s) ==
    LET path == Head(table[s].todo)
    IN  /\ table[s].pc = "list" /\ table[s].todo # <<>>
        /\ IF is_allowed_service_path(path) /\ ~service_already_running(path)
           THEN exec_file_via_fs_service(s, path)
           ELSE Nothing(s)

(* start_background_service; start_service tries the path once more.        *)
start_background_service(s) ==
    /\ table[s].pc = "background" /\ table[s].todo # <<>>
    /\ exec_file_via_fs_service(s, Head(table[s].todo))

-----------------------------------------------------------------------------
(* driver.service *)

(* An unreadable or empty list is the default one.                          *)
load_driver_list(s) ==
    /\ table[s].pc = "start"
    /\ \E lines \in DriverLists :
          table' = [table EXCEPT ![s].pc = "list", ![s].todo =
                       IF lines = <<>> THEN <<<<"/bin/drivers/", "usb", ".elf">>>> ELSE lines]

start_driver(s) ==
    /\ table[s].pc = "list" /\ table[s].todo # <<>>
    /\ Exec(s, Head(table[s].todo)) \/ Nothing(s)

notify_ready_to_core(s) ==
    /\ table[s].pc = "list" /\ table[s].todo = <<>>
    /\ table' = [table EXCEPT ![s].pc = IF find_process_by_name(Core) THEN "ready"
                                        ELSE "unannounced"]

-----------------------------------------------------------------------------
(* A fault or an exit: the process stays as a zombie.                       *)
die(s) == table' = [table EXCEPT ![s].alive = FALSE, ![s].todo = <<>>, ![s].pc = "dead"]

SvcInit == table = kernel_main

SvcNext ==
    \E s \in DOMAIN table :
        /\ table[s].alive
        /\ \/ table[s].name = Core /\ read_services_list(s)
           \/ table[s].name = Core /\ start_listed(s)
           \/ table[s].name = Core /\ start_background_service(s)
           \/ table[s].name = Driver /\ load_driver_list(s)
           \/ table[s].name = Driver /\ start_driver(s)
           \/ table[s].name = Driver /\ notify_ready_to_core(s)
           \/ die(s)

-----------------------------------------------------------------------------
(* A service runs once: two live processes of one service exist only when   *)
(* an earlier one died, whose zombie find_by_name then finds instead of the *)
(* live one.  Lists that name a service twice, fallbacks to the bare name   *)
(* and drivers.list all go through this.                                    *)
OneProcessPerService ==
    \A r, s \in DOMAIN table :
        /\ r < s
        /\ table[r].alive /\ table[s].alive
        /\ table[r].name = table[s].name
        /\ ends_with(table[r].name, ".service")
        => \E z \in 1 .. r - 1 : table[z].name = table[r].name /\ ~table[z].alive
=============================================================================
