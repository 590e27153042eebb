-------------------------------- MODULE Boot --------------------------------
(***************************************************************************)
(* The boot from the first driver to the shell: load_builtin_drivers,      *)
(* init_platform_services and start_network of kernel/main.c, and          *)
(* ai_bootstrap (kernel/ai_bootstrap.c) with the downloads it makes        *)
(* through ai/marketplace.c.  Any driver may fail to start, any network    *)
(* operation may fail, and a download may stop anywhere.                   *)
(*                                                                         *)
(* A device is its vendor and device id, which name the kind of device.    *)
(* The boot is one thread; a step is a device, a driver that is tried, or  *)
(* a network operation.                                                    *)
(***************************************************************************)
EXTENDS DriverLoader

CONSTANTS
    Machines,       \* the machines looked at: the devices in bus order
    Packages,       \* the packages the server may send
    MaxSize,        \* MAX_DRIVER_SIZE
    TestBytes       \* the buffers of the storage test

ASSUME BootAssumption ==
    /\ \A p \in Packages : p.code > 0 /\ HeaderBytes + p.code < p.size
    /\ {MaxSize, TestBytes} \subseteq Nat \ {0}

VARIABLES
    machine, pc,
    i,                  \* the device a loop is at
    mounted,            \* fs_init_default succeeded
    choice,             \* network-choice.txt: "absent", "empty" or a driver's name
    g_preferred_network,
    wifi_ready,
    candidates, tried,  \* network drivers to try, and those tried
    netUp,              \* the driver over which dhcp_init succeeded
    manifest,           \* has_driver of each device
    g_state, g_persist_dirty,
    conns,              \* open connections: the session and the request
    dl                  \* the download: package, body length, bytes received, address

netVars == <<mounted, choice, g_preferred_network, wifi_ready, candidates, tried, netUp>>
aiVars == <<manifest, g_state, g_persist_dirty, conns, dl>>
vars == <<dmaVars, loaderVars, machine, pc, i, netVars, aiVars>>

NoBlock == [addr |-> 0, size |-> 0]
NoDownload == [pkg |-> NoPackage, total |-> 0, received |-> 0, block |-> NoBlock]

-----------------------------------------------------------------------------
(* load_builtin_drivers. *)

\* The built-in driver of a device, and the category its PCI class stands for.
DriverOf(k) == IF k \in DOMAIN Category THEN k ELSE "none"
ClassOf(k) == CASE k \in {"usb"} -> "input" [] k = "vga" -> "display" [] k = "nic" -> "network"
                [] k = "touch" -> "none" [] k \in DOMAIN Category -> Category[k] [] OTHER -> "none"
HasUsb == \E d \in 1 .. Len(machine) : machine[d] = "usb"

\* load_usb_network_stack: xhci unless loaded, then usb-net unless loaded.
load_usb_network_stack(l) ==
    UNION {IF driver_find_by_name(x, "xhci") # 0 /\ driver_find_by_name(x, "usb_net") = 0 /\ HasUsb
           THEN driver_load_builtin(x, "usb_net") ELSE {x} :
              x \in IF driver_find_by_name(l, "xhci") = 0 /\ HasUsb
                    THEN driver_load_builtin(l, "xhci") ELSE {l}}

load_device ==
    /\ pc = "drivers" /\ i <= Len(machine)
    /\ g_loaded' \in CASE machine[i] = "usb" -> load_usb_network_stack(g_loaded)
                       [] DriverOf(machine[i]) # "none" -> driver_load_builtin(g_loaded, machine[i])
                       [] OTHER -> {g_loaded}
    /\ i' = i + 1
    /\ UNCHANGED <<dmaVars, g_active_network, g_key_set, machine, pc, netVars, aiVars>>

\* The storage test takes two buffers and keeps them.
TestBlocks ==
    LET p == PagesFor(TestBytes)
    IN  {[addr |-> dma_next + k * p, size |-> p] : k \in {n \in 0 .. 1 : dma_next + (n + 1) * p <= RegionPages}}
storage_test ==
    /\ pc = "drivers" /\ i > Len(machine)
    /\ pc' = "services"
    /\ IF driver_find(g_loaded, "storage") # 0
       THEN /\ live' = live \cup TestBlocks
            /\ dma_next' = dma_next + Cardinality(TestBlocks) * PagesFor(TestBytes)
       ELSE UNCHANGED dmaVars
    /\ UNCHANGED <<loaderVars, machine, i, netVars, aiVars>>

-----------------------------------------------------------------------------
(* init_platform_services and start_network. *)

init_platform_services ==
    /\ pc = "services"
    /\ mounted' \in {FALSE, driver_find(g_loaded, "storage") # 0}
    /\ g_preferred_network' = IF mounted' /\ choice \notin {"absent", "empty"} THEN choice ELSE "none"
    /\ pc' = "network"
    /\ UNCHANGED <<dmaVars, loaderVars, machine, i, choice, wifi_ready, candidates, tried, netUp, aiVars>>

refresh_usb_network_candidates(l) ==
    UNION {IF driver_find_by_name(x, "xhci") # 0 THEN load_usb_network_stack(x) ELSE {x} :
              x \in IF driver_find_by_name(l, "xhci") = 0 THEN load_usb_network_stack(l) ELSE {l}}

network_driver_rank(n) ==
    CASE n = g_preferred_network -> 0 [] n = "usb_net" -> 1 [] n = "intel_wifi" -> 2 [] OTHER -> 3

\* The order in which the four passes over the table come to the drivers.
Passes == <<0, 1, 2, 3>>
Ranked(l) ==
    FlattenSeq([p \in 1 .. Len(Passes) |->
        SelectSeq(l, LAMBDA d : d.cat = "network" /\ network_driver_rank(d.name) = Passes[p])])

\* USB once more, then Wi-Fi, with the credentials of wifi.conf.
start_network ==
    /\ pc = "network"
    /\ g_loaded' \in refresh_usb_network_candidates(g_loaded)
    /\ wifi_ready' \in {FALSE, mounted /\ driver_find_by_name(g_loaded', "intel_wifi") # 0}
    /\ g_active_network' = IF wifi_ready' THEN FirstNetwork(g_loaded', "intel_wifi") ELSE g_active_network
    /\ candidates' = Ranked(g_loaded')
    /\ pc' = "dhcp"
    /\ UNCHANGED <<dmaVars, g_key_set, machine, i, mounted, choice, g_preferred_network, tried, netUp, aiVars>>

\* save_preferred_network_driver: the result of fs_create is taken for a
\* descriptor, so the name is not written, and an existing file is left alone.
save_preferred_network_driver(n) ==
    \/ /\ mounted /\ choice = "absent"
       /\ choice' = "empty" /\ g_preferred_network' = n
    \/ UNCHANGED <<choice, g_preferred_network>>

\* One driver of the passes.
Usable(n) == n # "intel_wifi" \/ wifi_ready
try_network ==
    /\ pc = "dhcp" /\ candidates # <<>>
    /\ candidates' = Tail(candidates)
    /\ LET n == Head(candidates).name
       IN  IF Usable(n)
           THEN /\ g_active_network' = FirstNetwork(g_loaded, n)
                /\ tried' = Append(tried, n)
                /\ \/ UNCHANGED <<pc, netUp, choice, g_preferred_network>>
                   \/ /\ netUp' = n /\ pc' = "manifest"
                      /\ save_preferred_network_driver(n)
           ELSE UNCHANGED <<g_active_network, tried, pc, netUp, choice, g_preferred_network>>
    /\ UNCHANGED <<dmaVars, g_loaded, g_key_set, machine, i, mounted, wifi_ready, aiVars>>

no_network ==
    /\ pc = "dhcp" /\ candidates = <<>>
    /\ pc' = "manifest"
    /\ UNCHANGED <<dmaVars, loaderVars, machine, i, netVars, aiVars>>

-----------------------------------------------------------------------------
(* ai_bootstrap. *)

\* device_has_driver looks at the category only.
device_has_driver(k) ==
    CASE ClassOf(k) = "network" -> driver_get_network(g_loaded) # 0
      [] ClassOf(k) \in {"storage", "display", "input"} -> driver_find(g_loaded, ClassOf(k)) # 0
      [] OTHER -> FALSE
NeedDrivers == \E d \in DOMAIN manifest : ~manifest[d]

\* persist_text_file: best effort.
Persist == g_persist_dirty' \in {g_persist_dirty, mounted}
\* The end of ai_bootstrap: marketplace_disconnect, flush_persisted_state.
ClosedSession == conns \ {"session"}
End(state) ==
    /\ conns' = ClosedSession
    /\ g_persist_dirty' = FALSE
    /\ g_state' = state /\ pc' = "shell"

build_manifest ==
    /\ pc = "manifest"
    /\ manifest' = [d \in 1 .. Len(machine) |-> device_has_driver(machine[d])]
    /\ IF driver_get_network(g_loaded) = 0
       THEN End("FAILED")
       ELSE Persist /\ g_state' = "NET_UP" /\ pc' = "connect" /\ UNCHANGED conns
    /\ UNCHANGED <<dmaVars, loaderVars, machine, i, netVars, dl>>

marketplace_connect ==
    /\ pc = "connect"
    /\ \/ End("FAILED")
       \/ /\ conns' = {"session"} /\ g_state' = "CONNECTED" /\ pc' = "sync"
          /\ UNCHANGED g_persist_dirty
    /\ UNCHANGED <<dmaVars, loaderVars, machine, i, netVars, manifest, dl>>

\* Registered or not, the boot goes on.  The request's own connection is closed
\* on every path, here and in marketplace_send_manifest.
marketplace_sync_system ==
    /\ pc = "sync"
    /\ IF NeedDrivers
       THEN Persist /\ pc' = "send" /\ UNCHANGED <<g_state, conns>>
       ELSE End("COMPLETE")
    /\ UNCHANGED <<dmaVars, loaderVars, machine, i, netVars, manifest, dl>>

marketplace_send_manifest ==
    /\ pc = "send"
    /\ \/ End("FAILED") /\ UNCHANGED i
       \/ /\ g_state' = "DOWNLOADING" /\ pc' = "entry" /\ i' = 1
          /\ UNCHANGED <<conns, g_persist_dirty>>
    /\ UNCHANGED <<dmaVars, loaderVars, machine, netVars, manifest, dl>>

\* The loop over the manifest.
next_entry ==
    /\ pc = "entry" /\ i <= Len(machine)
    /\ IF manifest[i] THEN i' = i + 1 /\ UNCHANGED pc ELSE pc' = "get" /\ UNCHANGED i
    /\ UNCHANGED <<dmaVars, loaderVars, machine, netVars, aiVars>>

\* After the loop: marketplace_check_updates changes nothing here.
check_updates ==
    /\ pc = "entry" /\ i > Len(machine)
    /\ End("COMPLETE")
    /\ UNCHANGED <<dmaVars, loaderVars, machine, i, netVars, manifest, dl>>

-----------------------------------------------------------------------------
(* marketplace_get_driver. *)

ClosedRequest == conns \ {"request"}
\* The device is skipped.
Skip == conns' = ClosedRequest /\ i' = i + 1 /\ pc' = "entry" /\ dl' = NoDownload

get_driver_connect ==
    /\ pc = "get"
    /\ \/ Skip
       \/ conns' = conns \cup {"request"} /\ pc' = "header" /\ UNCHANGED <<i, dl>>
    /\ UNCHANGED <<dmaVars, loaderVars, machine, netVars, manifest, g_state, g_persist_dirty>>

\* No answer, or not one with status 200 and a body.
get_driver_refused ==
    /\ pc = "header"
    /\ Skip
    /\ UNCHANGED <<dmaVars, loaderVars, machine, netVars, manifest, g_state, g_persist_dirty>>

\* The first segment carries the header and initial bytes of the body.  Without a
\* Content-Length those are the body.
Clamped(initial, total) == IF initial > total THEN total ELSE initial
get_driver_header(pkg, declared, initial) ==
    /\ pc = "header"
    /\ LET total == IF declared > 0 THEN declared ELSE initial
       IN  IF total = 0 \/ total > MaxSize \/ ~Fits(total)
           THEN Skip /\ UNCHANGED dmaVars
           ELSE /\ hal_dma_alloc(total)
                /\ dl' = [pkg |-> pkg, total |-> total, received |-> Clamped(initial, total),
                          block |-> NewBlock(total)]
                /\ pc' = "body"
                /\ UNCHANGED <<conns, i>>
    /\ UNCHANGED <<loaderVars, machine, netVars, manifest, g_state, g_persist_dirty>>

get_driver_body ==
    /\ pc = "body" /\ dl.received < dl.total
    /\ dl' = [dl EXCEPT !.received = @ + 1]
    /\ UNCHANGED <<dmaVars, loaderVars, machine, pc, i, netVars, manifest, g_state, g_persist_dirty, conns>>

\* The connection is closed or silent: more than half is taken for enough.
Enough == dl.received > dl.total \div 2
Stalled_Enough == dl.received < dl.total /\ Enough
Stalled == dl.received < dl.total
get_driver_stalls ==
    /\ pc = "body" /\ Stalled
    /\ IF Enough
       THEN conns' = ClosedRequest /\ pc' = "load" /\ UNCHANGED <<dmaVars, i, dl>>
       ELSE Skip /\ hal_dma_free(dl.block)
    /\ UNCHANGED <<loaderVars, machine, netVars, manifest, g_state, g_persist_dirty>>

get_driver_done ==
    /\ pc = "body" /\ dl.received = dl.total
    /\ conns' = ClosedRequest /\ pc' = "load"
    /\ UNCHANGED <<dmaVars, loaderVars, machine, i, netVars, manifest, g_state, g_persist_dirty, dl>>

\* driver_load_runtime, and the release of the download by its received size.
FreedDownload(n) == AfterFree([dl.block EXCEPT !.size = PagesFor(dl.received)], n)
load_driver ==
    /\ pc = "load"
    /\ \E r \in driver_load_runtime(dl.pkg, dl.received) :
          /\ g_loaded' = r.table
          /\ live' = r.blocks \ {dl.block}
          /\ dma_next' = FreedDownload(r.next)
          /\ manifest' = [manifest EXCEPT ![i] = r.ok]
    /\ Skip
    /\ UNCHANGED <<g_active_network, g_key_set, machine, netVars, g_state, g_persist_dirty>>

-----------------------------------------------------------------------------
Init ==
    /\ DMAInit /\ LoaderInit
    /\ machine \in Machines
    /\ pc = "drivers" /\ i = 1
    /\ mounted = FALSE /\ g_preferred_network = "none" /\ wifi_ready = FALSE
    /\ choice \in {"absent", "empty"} \cup {n \in DOMAIN Category : Category[n] = "network"}
    /\ candidates = <<>> /\ tried = <<>> /\ netUp = "none"
    /\ manifest = <<>> /\ g_state = "INIT" /\ g_persist_dirty = FALSE
    /\ conns = {} /\ dl = NoDownload

Shell == pc = "shell" /\ UNCHANGED vars
Step ==
    \/ load_device \/ storage_test \/ init_platform_services
    \/ start_network \/ try_network \/ no_network
    \/ build_manifest \/ marketplace_connect \/ marketplace_sync_system
    \/ marketplace_send_manifest \/ next_entry \/ check_updates
    \/ get_driver_connect \/ get_driver_refused
    \/ \E p \in Packages : \E d, n \in 0 .. p.size : get_driver_header(p, d, n)
    \/ get_driver_stalls \/ get_driver_done \/ load_driver
Next == Step \/ get_driver_body \/ Shell

\* The boot runs on: every network operation has a timeout, and the server need
\* not send anything.
Spec == Init /\ [][Next]_vars /\ WF_vars(Step)

-----------------------------------------------------------------------------
\* The memory of every downloaded driver in the table, its code and what its init
\* took, is not given back by any later download, failed load or release; and
\* unless the table was full, nothing else but the two buffers of the storage
\* test is held between two downloads.  Whichever way ai_bootstrap ends, no
\* connection is left open, no download is left allocated and nothing is left to
\* be written.
ResourcesAccounted ==
    LET held == UNION {g_loaded[n].blocks : n \in 1 .. Len(g_loaded)}
    IN  /\ held \subseteq live
        /\ pc \in {"entry", "shell"} /\ Len(g_loaded) < MaxDrivers =>
              Cardinality(live \ held) <= 2
        /\ pc = "shell" => conns = {} /\ ~g_persist_dirty /\ dl = NoDownload

\* What is received stays inside the buffer it was allocated for.  A driver is run
\* only from bytes that were received, and with a trusted key only from a whole
\* package with a valid signature: a download that stopped, or whose length the
\* server did not give, is never run in part.
RunsWhatArrived ==
    /\ dl.received <= dl.total /\ PagesFor(dl.total) = dl.block.size
    /\ \A n \in 1 .. Len(g_loaded) : LET d == g_loaded[n] IN
          IsRuntime(d) => /\ HeaderBytes + d.pkg.code <= d.got
                          /\ g_key_set => d.pkg.signed /\ d.got = d.pkg.size

\* From the moment DHCP succeeds over a driver, that driver carries the traffic,
\* whatever drivers are loaded after it.  When start_network gives up instead,
\* DHCP has been tried over every network driver in the table that could carry it,
\* the preferred one before all others.
NetworkSettled ==
    /\ netUp # "none" => g_loaded[driver_get_network(g_loaded)].name = netUp
    /\ pc = "manifest" /\ netUp = "none" =>
          \A n \in 1 .. Len(g_loaded) :
              g_loaded[n].cat = "network" /\ Usable(g_loaded[n].name) => g_loaded[n].name \in ToSet(tried)
    /\ pc = "dhcp" => \A a, b \in 1 .. Len(tried) :
          a < b => network_driver_rank(tried[a]) <= network_driver_rank(tried[b])

\* The file system, the log and the update find the storage driver the file
\* system was mounted on, also after a storage driver has been downloaded.
StorageStays ==
    [][mounted => g_loaded'[driver_find(g_loaded', "storage")] = g_loaded[driver_find(g_loaded, "storage")]]_vars

\* The boot reaches the shell without a network, without a server, and with
\* downloads that stop anywhere.
BootEnds == <>(pc = "shell")
=============================================================================
