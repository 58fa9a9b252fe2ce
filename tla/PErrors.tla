------------------------------ MODULE PErrors ------------------------------
(***************************************************************************)
(* lib/perror.c: how the error codes of a system become those of the       *)
(* library.  A code is written as its name; a name stands for the numbers  *)
(* of every build that has it.                                             *)
(***************************************************************************)

Systems == {"unix", "win", "os2"}

\* A table has, for a code of the library, the codes of the system that become it.
Becomes(tables, code) ==
    {v \in UNION {DOMAIN T : T \in tables} : \E T \in tables : v \in DOMAIN T /\ code \in T[v]}
LookUp(tables, code) ==
    IF Becomes(tables, code) = {} THEN "FAILED" ELSE CHOOSE v \in Becomes(tables, code) : TRUE

-----------------------------------------------------------------------------
(* zerror_get_io_from_system() *)

WinIo ==
    [ADDRESS_IN_USE |-> {"WSAEADDRINUSE"}, WOULD_BLOCK |-> {"WSAEWOULDBLOCK"},
     ACCESS_DENIED |-> {"WSAEACCES", "ERROR_ACCESS_DENIED"},
     INVALID_ARGUMENT |-> {"WSA_INVALID_HANDLE", "WSA_INVALID_PARAMETER", "WSAEBADF", "WSAENOTSOCK",
                           "WSAEINVAL", "ERROR_INVALID_HANDLE", "ERROR_INVALID_PARAMETER"},
     NOT_SUPPORTED |-> {"WSAESOCKTNOSUPPORT", "WSAEOPNOTSUPP", "WSAEPFNOSUPPORT", "WSAEAFNOSUPPORT",
                        "WSAEPROTONOSUPPORT", "ERROR_NOT_SUPPORTED"},
     ABORTED |-> {"WSAECANCELLED"}, EXISTS |-> {"ERROR_ALREADY_EXISTS"},
     NOT_EXISTS |-> {"ERROR_FILE_NOT_FOUND"}, NO_MORE |-> {"ERROR_NO_MORE_FILES"},
     NO_RESOURCES |-> {"ERROR_OUTOFMEMORY", "ERROR_NOT_ENOUGH_MEMORY"}]

\* No socket code is among those of OS/2.
Os2Io ==
    [NOT_EXISTS |-> {"ERROR_FILE_NOT_FOUND", "ERROR_PATH_NOT_FOUND"},
     NO_RESOURCES |-> {"ERROR_TOO_MANY_OPEN_FILES", "ERROR_NOT_ENOUGH_MEMORY"},
     ACCESS_DENIED |-> {"ERROR_ACCESS_DENIED"}, NO_MORE |-> {"ERROR_NO_MORE_FILES"},
     INVALID_ARGUMENT |-> {"ERROR_INVALID_HANDLE", "ERROR_INVALID_PARAMETER",
                           "ERROR_INVALID_ADDRESS"}, NOT_SUPPORTED |-> {"ERROR_NOT_SUPPORTED"},
     EXISTS |-> {"ERROR_FILE_EXISTS"}]

UnixIoArguments ==
    [ACCESS_DENIED |-> {"EACCES", "EPERM"},
     NO_RESOURCES |-> {"ENOMEM", "ENOSR", "ENOBUFS", "ENFILE", "ENOSPC", "EMFILE"},
     INVALID_ARGUMENT |-> {"EINVAL", "EBADF", "ENOTSOCK", "EFAULT", "EPROTOTYPE"},
     NOT_SUPPORTED |-> {"ENOTSUP", "ENOPROTOOPT", "EPROTONOSUPPORT", "EAFNOSUPPORT", "EOPNOTSUPP"},
     NOT_AVAILABLE |-> {"EADDRNOTAVAIL", "ENETUNREACH", "ENETDOWN", "EHOSTDOWN", "ENONET",
                        "EHOSTUNREACH"}]
UnixIoStates ==
    [IN_PROGRESS |-> {"EINPROGRESS", "EALREADY"}, CONNECTED |-> {"EISCONN"},
     CONNECTION_REFUSED |-> {"ECONNREFUSED"}, NOT_CONNECTED |-> {"ENOTCONN"},
     ABORTED |-> {"ECONNABORTED"}, ADDRESS_IN_USE |-> {"EADDRINUSE"}, TIMED_OUT |-> {"ETIMEDOUT"},
     QUOTA |-> {"EDQUOT"}, IS_DIRECTORY |-> {"EISDIR"}, NOT_DIRECTORY |-> {"ENOTDIR"},
     EXISTS |-> {"EEXIST"}, NOT_EXISTS |-> {"ENOENT"}, NAMETOOLONG |-> {"ENAMETOOLONG"},
     NOT_IMPLEMENTED |-> {"ENOSYS"}, WOULD_BLOCK |-> {"EAGAIN", "EWOULDBLOCK"}]

IoFromSystem(system, code) ==
    LookUp(CASE system = "win" -> {WinIo} [] system = "os2" -> {Os2Io}
             [] OTHER -> {UnixIoArguments, UnixIoStates}, code)

\* What the socket calls of the other systems report where Unix reports these.
WinSocket ==
    [EAGAIN |-> "WSAEWOULDBLOCK", EINPROGRESS |-> "WSAEWOULDBLOCK", EALREADY |-> "WSAEALREADY",
     EISCONN |-> "WSAEISCONN", ECONNREFUSED |-> "WSAECONNREFUSED", ENOTCONN |-> "WSAENOTCONN",
     EBADF |-> "WSAENOTSOCK", EINVAL |-> "WSAEINVAL", EPIPE |-> "WSAESHUTDOWN"]
Os2Socket ==
    [EAGAIN |-> "SOCEWOULDBLOCK", EINPROGRESS |-> "SOCEINPROGRESS", EALREADY |-> "SOCEALREADY",
     EISCONN |-> "SOCEISCONN", ECONNREFUSED |-> "SOCECONNREFUSED", ENOTCONN |-> "SOCENOTCONN",
     EBADF |-> "SOCENOTSOCK", EINVAL |-> "SOCEINVAL", EPIPE |-> "SOCEPIPE"]

-----------------------------------------------------------------------------
(* zerror_get_ipc_from_system() *)

WinIpc ==
    [EXISTS |-> {"ERROR_ALREADY_EXISTS"},
     NOT_EXISTS |-> {"ERROR_SEM_OWNER_DIED", "ERROR_SEM_NOT_FOUND"},
     NO_RESOURCES |-> {"ERROR_SEM_USER_LIMIT", "ERROR_TOO_MANY_SEMAPHORES",
                       "ERROR_TOO_MANY_SEM_REQUESTS", "ERROR_TOO_MANY_POSTS", "ERROR_OUTOFMEMORY",
                       "ERROR_NOT_ENOUGH_MEMORY"},
     ACCESS |-> {"ERROR_ACCESS_DENIED", "ERROR_EXCL_SEM_ALREADY_OWNED"},
     INVALID_ARGUMENT |-> {"ERROR_INVALID_HANDLE", "ERROR_INVALID_PARAMETER"},
     NOT_IMPLEMENTED |-> {"ERROR_NOT_SUPPORTED"}]
Os2Ipc ==
    [NO_RESOURCES |-> {"ERROR_NOT_ENOUGH_MEMORY", "ERROR_TOO_MANY_HANDLES", "ERROR_TOO_MANY_OPENS",
                       "ERROR_TOO_MANY_SEM_REQUESTS"},
     INVALID_ARGUMENT |-> {"ERROR_INVALID_PARAMETER", "ERROR_INVALID_NAME", "ERROR_INVALID_HANDLE",
                           "ERROR_INVALID_ADDRESS"},
     NOT_EXISTS |-> {"ERROR_FILE_NOT_FOUND", "ERROR_SEM_OWNER_DIED", "ERROR_SEM_NOT_FOUND"},
     ACCESS |-> {"ERROR_LOCKED", "ERROR_NOT_OWNER"}, EXISTS |-> {"ERROR_DUPLICATE_NAME"},
     FAILED |-> {"ERROR_GEN_FAILURE"}]
UnixIpc ==
    [ACCESS |-> {"EACCES", "EPERM"}, EXISTS |-> {"EEXIST"},
     INVALID_ARGUMENT |-> {"E2BIG", "EFAULT", "EFBIG", "EINVAL", "ELOOP", "ERANGE"},
     NO_RESOURCES |-> {"ENOMEM", "EMFILE", "ENFILE", "ENOSPC"}, NOT_EXISTS |-> {"EIDRM", "ENOENT"},
     OVERFLOW |-> {"EOVERFLOW"}, NOT_IMPLEMENTED |-> {"ENOSYS"}, DEADLOCK |-> {"EDEADLK"},
     NAMETOOLONG |-> {"ENAMETOOLONG"}]

IpcFromSystem(system, code) ==
    LookUp(CASE system = "win" -> {WinIpc} [] system = "os2" -> {Os2Ipc} [] OTHER -> {UnixIpc}, code)

=============================================================================
