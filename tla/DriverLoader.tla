---------------------------- MODULE DriverLoader ----------------------------
(***************************************************************************)
(* The table of loaded drivers, kernel/driver_loader.c: loading of the     *)
(* built-in drivers and of packages downloaded at run time, whose code is  *)
(* copied into memory taken from the DMA region, and the queries.          *)
(*                                                                         *)
(* A driver is its name, its category and, for a downloaded one, the       *)
(* package it came from, how much of it, and its memory.  A package is a *)
(* header of HeaderBytes, pkg.code bytes of code and a signature.          *)
(***************************************************************************)
EXTENDS DMA, FiniteSets, Sequences, SequencesExt

CONSTANTS
    MaxDrivers,     \* MAX_DRIVERS
    HeaderBytes     \* sizeof(ajdrv_header_t) and the name

ASSUME DriverLoaderAssumption ==
    MaxDrivers \in Nat \ {0} /\ HeaderBytes \in Nat \ {0}

VARIABLES
    g_loaded,           \* the table, up to g_loaded_count
    g_active_network,   \* index of the selected network driver, 0 for none
    g_key_set           \* a trusted key is configured

loaderVars == <<g_loaded, g_active_network, g_key_set>>

Category ==
    [nvme |-> "storage", ahci |-> "storage", virtio_blk |-> "storage",
     e1000 |-> "network", rtl8169 |-> "network", virtio_net |-> "network",
     intel_wifi |-> "network", usb_net |-> "network",
     xhci |-> "input", touch |-> "input"]

NoPackage == [size |-> 0, code |-> 0, signed |-> FALSE, cat |-> "none"]
Builtin(n) == [name |-> n, cat |-> Category[n], pkg |-> NoPackage, got |-> 0, blocks |-> {}]
IsRuntime(d) == d.name = "runtime"

\* An entry is added while there is room; the load succeeds either way.
Added_Front(l, d) == <<d>> \o l
Added(l, d) == IF Len(l) < MaxDrivers THEN Append(l, d) ELSE l

\* driver_load_builtin: the tables it may leave, for an init that succeeds or not.
driver_load_builtin(l, n) == {l, Added(l, Builtin(n))}

\* The queries: index of the first match, 0 for NULL.
driver_find(l, cat) == SelectInSeq(l, LAMBDA d : d.cat = cat)
driver_find_by_name(l, n) == SelectInSeq(l, LAMBDA d : d.name = n)
FirstNetwork(l, n) == SelectInSeq(l, LAMBDA d : d.cat = "network" /\ d.name = n)
driver_get_network_First(l) == driver_find(l, "network")
driver_get_network(l) ==
    IF g_active_network \in 1 .. Len(l) /\ l[g_active_network].cat = "network"
    THEN g_active_network
    ELSE driver_find(l, "network")

-----------------------------------------------------------------------------
(* driver_load_runtime, on the first got bytes of package pkg. *)

CodeInside(pkg, got) == got >= HeaderBytes /\ HeaderBytes + pkg.code <= got

\* The signature is at the end of the package, and covers all before it.
ajdrv_verify_NoLength(pkg, got) == pkg.signed
ajdrv_verify(pkg, got) == pkg.signed /\ got = pkg.size
Accepted(pkg, got) == CodeInside(pkg, got) /\ (g_key_set => ajdrv_verify(pkg, got))

CodeBlock(pkg) == NewBlock(pkg.code)
Runtime(pkg, got, own) ==
    [name |-> "runtime", cat |-> pkg.cat, pkg |-> pkg, got |-> got, blocks |-> own \cup {CodeBlock(pkg)}]

\* What the driver's init takes through the dma_alloc it is handed: nothing or a
\* page, when one is left.
DriverMemory(n) == {{}} \cup {{[addr |-> a, size |-> 1]} : a \in {n} \cap 0 .. RegionPages - 1}

\* What the loader does to the table, the blocks in use and the bump pointer: it
\* refuses the package, finds no memory, gives the code block back because entry
\* or init failed, or adds the driver.
Unloaded == [ok |-> FALSE, table |-> g_loaded, blocks |-> live, next |-> dma_next]
KeptBlocks_NoCode(pkg, own) == live \cup own
KeptBlocks(pkg, own) == live \cup own \cup {CodeBlock(pkg)}
driver_load_runtime(pkg, got) ==
    LET code == CodeBlock(pkg)
        failed == [Unloaded EXCEPT !.next = AfterFree(code, EndOf(code))]
        added == {[ok |-> TRUE,
                   table |-> Added(g_loaded, Runtime(pkg, got, own)),
                   blocks |-> KeptBlocks(pkg, own),
                   next |-> EndOf(code) + Cardinality(own)] : own \in DriverMemory(EndOf(code))}
    IN  IF Accepted(pkg, got) /\ Fits(pkg.code) THEN added \cup {failed} ELSE {Unloaded}

LoaderInit ==
    /\ g_loaded = <<>> /\ g_active_network = 0
    /\ g_key_set \in BOOLEAN
=============================================================================
