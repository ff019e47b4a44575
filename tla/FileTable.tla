----------------------------- MODULE FileTable ------------------------------
(***************************************************************************)
(* The descriptor table of the Nios HAL (HAL/src/alt_open.c, alt_close.c,  *)
(* alt_get_fd.c, alt_release_fd.c, alt_fd_lock.c, alt_fd_unlock.c,         *)
(* alt_ioctl.c, alt_fcntl.c, alt_io_redirect.c, alt_dev.c): descriptors    *)
(* that name a device, and the TIOCEXCL lock that gives a device to one of *)
(* them.  The build has one thread, so each call is one step.              *)
(***************************************************************************)
EXTENDS Integers, FiniteSets

CONSTANTS
  ALT_MAX_FD,        \* entries of alt_fd_list (32)
  Devices,           \* the registered devices
  DevNull,           \* alt_dev_null
  NoDevice,          \* a null dev
  StdoutDevice,      \* what ALT_STDOUT, ALT_STDIN and ALT_STDERR name,
  StdinDevice,       \* NoDevice when nothing of that name is registered
  StderrDevice

ASSUME TableAssumption == ALT_MAX_FD \in Nat /\ ALT_MAX_FD > 3
ASSUME DeviceAssumption ==
  /\ DevNull \in Devices /\ NoDevice \notin Devices
  /\ {StdoutDevice, StdinDevice, StderrDevice} \subseteq
       Devices \union {NoDevice}

Fds == 0 .. ALT_MAX_FD - 1
Std == 0 .. 2
Flags == {"ALT_FD_DEV", "ALT_FD_EXCL", "O_NONBLOCK"}

VARIABLES
  dev,          \* alt_fd_list[fd].dev
  fd_flags,     \* alt_fd_list[fd].fd_flags
  alt_max_fd,
  boot,         \* the stream alt_io_redirect is at, or "main"
  owned         \* history: the descriptors open returned and nobody closed

tableVars == << dev, fd_flags, alt_max_fd, boot, owned >>

TableInit ==
  /\ dev = [fd \in Fds |-> IF fd \in Std THEN DevNull ELSE NoDevice]
  /\ fd_flags = [fd \in Fds |-> {}]
  /\ alt_max_fd = -1
  /\ boot = "stdout"
  /\ owned = {}
----------------------------------------------------------------------------
Free == {fd \in Fds : dev[fd] = NoDevice}

(* alt_get_fd: the first free descriptor, if there is one.                 *)
FirstFree == {fd \in Free : \A other \in Free : fd <= other}

(* Mutant of HighMark: the comparison is the wrong way round.              *)
HighMarkSwapped(fd) == IF fd < alt_max_fd THEN fd ELSE alt_max_fd

(* The mark of alt_get_fd, which only rises.                               *)
HighMark(fd) == IF fd > alt_max_fd THEN fd ELSE alt_max_fd

(* alt_file_locked, for a descriptor that is not itself exclusive.         *)
Locked(d) ==
  \E fd \in 0 .. alt_max_fd :
     dev[fd] = d /\ "ALT_FD_EXCL" \in fd_flags[fd]

(* open succeeds: the descriptor is allocated, and belongs to a device.    *)
OpenDevice(fd, d, flags) ==
  /\ boot = "main" /\ ~Locked(d)
  /\ dev' = [dev EXCEPT ![fd] = d]
  /\ fd_flags' = [fd_flags EXCEPT ![fd] = flags \union {"ALT_FD_DEV"}]
  /\ alt_max_fd' = HighMark(fd)
  /\ owned' = owned \union {fd}
  /\ UNCHANGED boot

(* Mutant of OpenLocked: the descriptor is not released.                   *)
OpenLockedKeeps(fd, d, flags) ==
  /\ boot = "main" /\ Locked(d)
  /\ dev' = [dev EXCEPT ![fd] = d]
  /\ fd_flags' = [fd_flags EXCEPT ![fd] = flags \union {"ALT_FD_DEV"}]
  /\ alt_max_fd' = HighMark(fd)
  /\ UNCHANGED << boot, owned >>

(* open fails with EACCES: the descriptor taken for the call is released,  *)
(* and the high-water mark stays where it took it.  An open that fails     *)
(* with EMFILE or ENODEV changes nothing.                                  *)
OpenLocked(fd, d, flags) ==
  /\ boot = "main" /\ Locked(d)
  /\ fd_flags' = [fd_flags EXCEPT ![fd] = {}]
  /\ alt_max_fd' = HighMark(fd)
  /\ UNCHANGED << dev, boot, owned >>

Released(fd) ==
  /\ dev' = [dev EXCEPT ![fd] = NoDevice]
  /\ fd_flags' = [fd_flags EXCEPT ![fd] = {}]

(* close of a descriptor that is open: it is released whatever the close   *)
(* of the driver answers, so also when that fails with EWOULDBLOCK.  A     *)
(* standard stream is never released.                                      *)
Close(fd) ==
  /\ boot = "main"
  /\ fd \in owned
  /\ Released(fd)
  /\ owned' = owned \ {fd}
  /\ UNCHANGED << alt_max_fd, boot >>

(* What alt_fd_lock does not look at: its loop stops before alt_max_fd.    *)
Unseen(fd) == {fd} \union {g \in Fds : g >= alt_max_fd}

(* ioctl TIOCEXCL, which only a descriptor marked ALT_FD_DEV passes on to  *)
(* alt_fd_lock; a refused lock changes nothing.                            *)
Lock(fd) ==
  /\ boot = "main"
  /\ fd \in owned \union Std /\ "ALT_FD_DEV" \in fd_flags[fd]
  /\ \A other \in Fds \ Unseen(fd) : dev[other] # dev[fd]
  /\ fd_flags' = [fd_flags EXCEPT ![fd] = @ \union {"ALT_FD_EXCL"}]
  /\ UNCHANGED << dev, alt_max_fd, boot, owned >>

(* ioctl TIOCNXCL.                                                         *)
Unlock(fd) ==
  /\ boot = "main"
  /\ fd \in owned \union Std /\ "ALT_FD_DEV" \in fd_flags[fd]
  /\ fd_flags' = [fd_flags EXCEPT ![fd] = @ \ {"ALT_FD_EXCL"}]
  /\ UNCHANGED << dev, alt_max_fd, boot, owned >>

(* fcntl F_SETFL reaches only the flags of its mask.                       *)
SetFlags(fd, flags) ==
  /\ boot = "main"
  /\ fd \in owned \union Std
  /\ fd_flags' = [fd_flags EXCEPT ![fd] = (@ \ {"O_NONBLOCK"}) \union flags]
  /\ UNCHANGED << dev, alt_max_fd, boot, owned >>

(* alt_open_fd for one stream: an ordinary open, whose descriptor is       *)
(* copied to the stream and released; without the device, nothing.         *)
Redirect(stream, fd, d, then) ==
  /\ boot = stream
  /\ boot' = then
  /\ IF d = NoDevice
       THEN UNCHANGED << dev, fd_flags, alt_max_fd >>
       ELSE /\ dev' = [dev EXCEPT ![fd] = d]
            /\ fd_flags' = [fd_flags EXCEPT ![fd] = {"ALT_FD_DEV"}]
            /\ \E first \in FirstFree : alt_max_fd' = HighMark(first)
  /\ UNCHANGED owned

alt_io_redirect ==
  \/ Redirect("stdout", 1, StdoutDevice, "stdin")
  \/ Redirect("stdin", 0, StdinDevice, "stderr")
  \/ Redirect("stderr", 2, StderrDevice, "main")

OpenFlags == SUBSET {"O_NONBLOCK"}

TableNext ==
  \/ alt_io_redirect
  \/ \E fd \in FirstFree, d \in Devices, flags \in OpenFlags :
        OpenDevice(fd, d, flags) \/ OpenLocked(fd, d, flags)
  \/ \E fd \in Fds : Close(fd) \/ Lock(fd) \/ Unlock(fd)
  \/ \E fd \in Fds, flags \in OpenFlags : SetFlags(fd, flags)

TableSpec == TableInit /\ [][TableNext]_tableVars
----------------------------------------------------------------------------
(* The types of the variables.                                             *)
TableTypeOK ==
  /\ dev \in [Fds -> Devices \union {NoDevice}]
  /\ fd_flags \in [Fds -> SUBSET Flags]
  /\ alt_max_fd \in -1 .. ALT_MAX_FD - 1
  /\ boot \in {"stdout", "stdin", "stderr", "main"}
  /\ owned \subseteq Fds \ Std

Exclusive(fd) == "ALT_FD_EXCL" \in fd_flags[fd]
Sharing(fd) == {other \in Fds \ {fd} : dev[other] = dev[fd]}

(* A device has at most one exclusive holder, in any order of opens,       *)
(* closes, locks and unlocks (alt_fd_lock.c, alt_open.c).  It depends on   *)
(* the two scans together: alt_fd_lock misses the highest descriptor and   *)
(* alt_file_locked does not.                                               *)
OneExclusiveHolder ==
  \A fd, other \in Fds :
     Exclusive(fd) /\ Exclusive(other) /\ dev[fd] = dev[other]
       => fd = other

(* alt_fd_lock.c:43-45: the lock is granted "if there are no other open    *)
(* file descriptors which reference the same device", and opens of the     *)
(* device fail until it is released: its holder shares the device with     *)
(* nobody.  alt_fd_lock never looks at the highest descriptor.             *)
LockIsExclusive == \A fd \in Fds : Exclusive(fd) => Sharing(fd) = {}

(* Every allocated descriptor is a standard stream or one an open returned *)
(* and nobody closed: the failing paths of open give their descriptor back *)
(* (alt_open.c, alt_release_fd.c), as do the three redirections.           *)
NothingLeaked == {fd \in Fds : dev[fd] # NoDevice} = owned \union Std

=============================================================================
