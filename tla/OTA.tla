--------------------------------- MODULE OTA --------------------------------
(***************************************************************************)
(* The over-the-air update pipeline, kernel/ota.c: check, download,        *)
(* verify, apply, called one by one or through ota_run, with a network     *)
(* that may fail anywhere, storage writes that may fail, and power loss    *)
(* between any two writes.                                                 *)
(*                                                                         *)
(* Data is counted in storage sectors.  The package of version v is the    *)
(* sequence of pairs <<v, i>>; a CRC32 stands for the content it was       *)
(* computed from, and 0 for "not given".  OTA_SECTOR_SIZE is Ratio storage *)
(* sectors: 1 on a 4096-byte namespace, 8 on a 512-byte disk.              *)
(***************************************************************************)
EXTENDS Integers, Sequences, SequencesExt

CONSTANTS
    Versions,       \* versions the server has packages for
    Old,            \* the version that is running
    Length,         \* Length[v]: storage sectors of the package of v
    Signed,         \* the versions whose package is signed with the trusted key
    Staging,        \* OTA_STAGING_SIZE
    Ratio,
    MaxCalls,       \* bound: calls of the public functions
    MaxFaults       \* bound: storage writes that fail

ASSUME OTAAssumption ==
    /\ Old \notin Versions /\ Signed \subseteq Versions
    /\ Length \in [Versions \cup {Old} -> Nat \ {0}]
    /\ {Staging, Ratio, MaxCalls, MaxFaults} \subseteq Nat /\ Ratio > 0

VARIABLES
    g_status, g_staging,
    info,           \* what the last ota_check returned to the caller
    pc,             \* where the running function is; "idle" between calls
    content_len,    \* local of ota_download
    got,            \* local of ota_download: the response body still on its way
    i,              \* local of ota_apply
    run,            \* the call in progress is ota_run
    flag,           \* the rollback flag on disk
    kernel,         \* the storage sectors from OTA_KERNEL_START_LBA on
    calls, faults,
    applied         \* history: what the call that just ended installed

vars == <<g_status, g_staging, info, pc, content_len, got, i, run, flag, kernel, calls, faults, applied>>
disk == <<flag, kernel>>
locals == <<content_len, got, i>>

Package(v) == [k \in 1 .. Length[v] |-> <<v, k>>]
Zero == <<Old, 0>>              \* a sector of padding
Header == <<Old, -1>>           \* response header bytes taken for body
MaxLen == Staging + Ratio
NotApplied == [version |-> Old, byRun |-> FALSE, summed |-> FALSE]
NoInfo == [version |-> Old, url |-> FALSE, size |-> 0, crc |-> <<>>]
Area(img) == [k \in 1 .. MaxLen |-> IF k <= Len(img) THEN img[k] ELSE Zero]

\* The image of v is in the kernel area from its first to its last sector.
Holds(v) == \A k \in 1 .. Length[v] : kernel[k] = <<v, k>>

Return(status) ==
    /\ g_status' = status /\ pc' = "idle" /\ run' = FALSE
    /\ content_len' = 0 /\ got' = <<>> /\ i' = 0
\* A step that succeeds: ota_run goes on with the next function.
Continue(status, next) ==
    /\ g_status' = status
    /\ pc' = IF run THEN next ELSE "idle"
    /\ content_len' = 0 /\ got' = <<>> /\ i' = 0
    /\ UNCHANGED run

\* The staging buffer is static.
TooLarge(n) == n > Staging

-----------------------------------------------------------------------------
\* A call of a public function, or of ota_run.
Call(f, viaRun) ==
    /\ pc = "idle" /\ calls < MaxCalls
    /\ calls' = calls + 1
    /\ pc' = f /\ run' = viaRun
    /\ applied' = NotApplied
    /\ UNCHANGED <<g_status, g_staging, info, locals, disk, faults>>

Begin ==
    \/ Call("ota_check", TRUE)
    \/ \E f \in {"ota_check", "ota_download", "ota_verify", "ota_apply"} : Call(f, FALSE)

\* ota_check: no connection, no answer or a bad one; no update (204, 404); or an
\* announcement, whose url, size and crc32 fields may be missing.
ota_check ==
    /\ pc = "ota_check"
    /\ \/ info' = NoInfo /\ \E s \in {"ERROR", "NONE"} : Return(s)
       \/ /\ \E v \in Versions, url \in BOOLEAN, sized \in BOOLEAN, summed \in BOOLEAN :
                info' = [version |-> v, url |-> url,
                         size |-> IF sized THEN Length[v] ELSE 0,
                         crc |-> IF summed THEN Package(v) ELSE <<>>]
          /\ Continue("AVAILABLE", "ota_download")
    /\ UNCHANGED <<g_staging, disk, calls, faults, applied>>

\* ota_download up to the response header.  A missing url returns with the
\* status as it was.
download_refused ==
    /\ pc = "ota_download"
    /\ IF ~info.url THEN Return(g_status) ELSE TooLarge(info.size) /\ Return("ERROR")
    /\ UNCHANGED <<g_staging, info, disk, calls, faults, applied>>

download_fails ==
    /\ pc = "ota_download" /\ info.url /\ ~TooLarge(info.size)
    /\ Return("ERROR")
    /\ UNCHANGED <<g_staging, info, disk, calls, faults, applied>>

\* A 200 response: the server sends the package of some version, with or without
\* a Content-Length; the first segment ends anywhere, also inside the header.
Expected(v, given) == IF given THEN Length[v] ELSE info.size
download_header ==
    /\ pc = "ota_download" /\ info.url /\ ~TooLarge(info.size)
    /\ \E v \in Versions, given \in BOOLEAN, whole \in BOOLEAN, n \in 0 .. 1 :
          LET body == IF whole THEN Package(v) ELSE <<Header>> \o Package(v)
              initial == IF whole THEN n ELSE 0
          IN  IF TooLarge(Expected(v, given))
              THEN Return("ERROR") /\ UNCHANGED g_staging
              ELSE /\ content_len' = Expected(v, given)
                   /\ g_staging' = SubSeq(body, 1, initial)
                   /\ got' = SubSeq(body, initial + 1, Len(body))
                   /\ g_status' = "DOWNLOADING" /\ pc' = "download_body"
                   /\ UNCHANGED <<i, run>>
    /\ UNCHANGED <<info, disk, calls, faults, applied>>

download_body ==
    /\ pc = "download_body" /\ Len(g_staging) < content_len /\ got # <<>>
    /\ g_staging' = Append(g_staging, Head(got))
    /\ got' = Tail(got)
    /\ UNCHANGED <<g_status, info, pc, content_len, i, run, disk, calls, faults, applied>>

\* A timeout or a close before content_len bytes.
Stalls_OnlyEmpty == g_staging = <<>> /\ content_len > 0
Stalls == Len(g_staging) < content_len
download_stalls ==
    /\ pc = "download_body" /\ Stalls
    /\ Return("ERROR")
    /\ UNCHANGED <<g_staging, info, disk, calls, faults, applied>>

CrcOk_Always == TRUE
CrcOk == info.crc # <<>> => g_staging = info.crc

download_done ==
    /\ pc = "download_body" /\ Len(g_staging) >= content_len
    /\ IF CrcOk THEN Continue(g_status, "ota_verify") ELSE Return("ERROR")
    /\ UNCHANGED <<g_staging, info, disk, calls, faults, applied>>

\* The signature covers the whole package.
SignatureOk == \E v \in Signed : g_staging = Package(v)
ota_verify ==
    /\ pc = "ota_verify"
    /\ IF g_staging # <<>> /\ SignatureOk THEN Continue("READY", "ota_apply") ELSE Return("ERROR")
    /\ UNCHANGED <<g_staging, info, disk, calls, faults, applied>>

-----------------------------------------------------------------------------
(* ota_apply: the rollback flag, the image, the flag again.  A storage write
   that fails is one step of its own.  Each write hands the driver a buffer of
   OTA_SECTOR_SIZE and a count of 1, so the driver stores its first sector.  *)

MayApply_NotError == g_status # "ERROR"
MayApply == g_status = "READY"
apply_begin ==
    /\ pc = "ota_apply"
    /\ IF MayApply
       THEN /\ g_status' = "APPLYING" /\ i' = 0 /\ pc' = "apply_flag"
            /\ UNCHANGED <<content_len, got, run>>
       ELSE Return(g_status)
    /\ UNCHANGED <<g_staging, info, disk, calls, faults, applied>>

\* driver_get_storage finds none.
apply_no_storage ==
    /\ pc = "apply_flag"
    /\ Return("ERROR")
    /\ UNCHANGED <<g_staging, info, disk, calls, faults, applied>>

SetFlag_Late == FALSE
SetFlag == TRUE
apply_flag ==
    /\ pc = "apply_flag"
    /\ flag' = SetFlag
    /\ pc' = "apply_image"
    /\ UNCHANGED <<g_status, g_staging, info, locals, run, kernel, calls, faults, applied>>

OtaSectors == (Len(g_staging) + Ratio - 1) \div Ratio

apply_image ==
    /\ pc = "apply_image" /\ i < OtaSectors
    /\ kernel' = [kernel EXCEPT ![i + 1] = g_staging[i * Ratio + 1]]
    /\ i' = i + 1
    /\ UNCHANGED <<g_status, g_staging, info, pc, content_len, got, run, flag, calls, faults, applied>>

\* The last write's result is not looked at.
ClearFlag(ok) == IF ok THEN FALSE ELSE flag
apply_done ==
    /\ pc = "apply_image" /\ i >= OtaSectors
    /\ \E ok \in BOOLEAN :
          /\ ok \/ faults < MaxFaults
          /\ flag' = ClearFlag(ok)
          /\ faults' = IF ok THEN faults ELSE faults + 1
    /\ applied' = [version |-> info.version, byRun |-> run, summed |-> info.crc # <<>>]
    /\ Return("DONE")
    /\ UNCHANGED <<g_staging, info, kernel, calls>>

\* stor->write fails in step 1 or step 2.
apply_fails ==
    /\ pc \in {"apply_flag", "apply_image"} /\ faults < MaxFaults
    /\ pc = "apply_image" => i < OtaSectors
    /\ faults' = faults + 1
    /\ Return("ERROR")
    /\ UNCHANGED <<g_staging, info, disk, calls, applied>>

\* Power loss: memory is gone, the disk stays.
Booted == /\ g_status' = "NONE" /\ g_staging' = <<>> /\ info' = NoInfo /\ pc' = "idle"
          /\ content_len' = 0 /\ got' = <<>> /\ i' = 0 /\ run' = FALSE
PowerLoss ==
    /\ pc # "idle"
    /\ Booted
    /\ applied' = NotApplied
    /\ UNCHANGED <<disk, calls, faults>>

-----------------------------------------------------------------------------
Init ==
    /\ g_status = "NONE" /\ g_staging = <<>> /\ info = NoInfo /\ pc = "idle"
    /\ content_len = 0 /\ got = <<>> /\ i = 0 /\ run = FALSE
    /\ flag = FALSE /\ kernel = Area(Package(Old))
    /\ calls = 0 /\ faults = 0
    /\ applied = NotApplied

Download == download_refused \/ download_fails \/ download_header \/ download_body \/ download_stalls \/ download_done
Apply == apply_begin \/ apply_no_storage \/ apply_flag \/ apply_image \/ apply_done \/ apply_fails
Running == ota_check \/ Download \/ ota_verify \/ Apply
Finished == pc = "idle" /\ calls = MaxCalls /\ UNCHANGED vars
Next == Begin \/ Running \/ PowerLoss \/ Finished

\* Each function runs on; the network calls have timeouts.
Spec == Init /\ [][Next]_vars /\ WF_vars(Running)

-----------------------------------------------------------------------------
Statuses == {"NONE", "AVAILABLE", "DOWNLOADING", "READY", "APPLYING", "DONE", "ERROR"}
TypeOK ==
    /\ g_status \in Statuses
    /\ pc \in {"idle", "ota_check", "ota_download", "download_body", "ota_verify", "ota_apply",
               "apply_flag", "apply_image"}
    /\ Len(g_staging) <= Staging /\ content_len \in 0 .. Staging
    /\ i \in 0 .. Staging /\ flag \in BOOLEAN /\ run \in BOOLEAN
    /\ kernel \in [1 .. MaxLen -> (Versions \cup {Old}) \X (-1 .. MaxLen)]

\* Whatever order the functions are called in, what ota_apply writes is a whole
\* package with a valid signature: nothing the server or a stalled download left
\* in the staging buffer after the verification.  And whatever length the server
\* announces, what is stored stays inside the staging buffer.
OnlySignedApplied ==
    /\ g_status \in {"READY", "APPLYING"} => SignatureOk
    /\ Len(g_staging) <= Staging

\* A boot that finds the rollback flag clear finds a whole kernel image, also
\* after power loss or a failed write at any point.  (Of a disk whose sectors are
\* OTA_SECTOR_SIZE: with smaller ones only the first of each Ratio is stored.)
ClearFlagMeansWhole == Ratio = 1 /\ flag = FALSE => \E v \in Signed \cup {Old} : Holds(v)

\* ota_run that ends in OTA_DONE has installed the version ota_check announced,
\* when the announcement carried a CRC32 (on such a disk).
RunInstallsAnnounced ==
    Ratio = 1 /\ applied.byRun /\ applied.summed /\ applied.version # Old /\ g_status = "DONE" => Holds(applied.version)

\* No call hangs, whatever the network does.
CallsReturn == pc # "idle" ~> pc = "idle"
=============================================================================
