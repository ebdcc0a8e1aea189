---------------------------- MODULE Conversions ----------------------------
(***************************************************************************)
(* Values of the host and of the protocol: file modes, open flags, access  *)
(* modes, rename flags and status codes (filesystem/*.cpp).                *)
(*                                                                         *)
(* A word is the set of the positions of its one bits, so that masks are   *)
(* intersections and a test against a mask is an inclusion.  Status codes  *)
(* are integers.                                                           *)
(***************************************************************************)
EXTENDS Integers

(* filemode.hpp: file types, and the types of sys/stat.h, which have the same
   numbers.                                                                 *)
FileTypes == [reg |-> {15}, dir |-> {14}, chr |-> {13}, blk |-> {13, 14},
              fifo |-> {12}, lnk |-> {13, 15}, sock |-> {14, 15}]
S_IF      == FileTypes
Permissions == 0 .. 11
TypeMask    == 12 .. 15

(* A known file type is replaced by its counterpart, an unknown one dropped. *)
Retype(value, from, to) ==
    (value \cap Permissions)
        \cup UNION {to[t] : t \in {u \in DOMAIN from : value \cap TypeMask = from[u]}}

from_mode(value) == Retype(value, S_IF, FileTypes)
to_mode(value)   == Retype(value, FileTypes, S_IF)

(* openflags.hpp. *)
OpenFlags ==
    [rdonly |-> {}, wronly |-> {0}, rdwr |-> {1}, append |-> {10}, async |-> {13},
     cloexec |-> {19}, creat |-> {6}, direct |-> {14}, directory |-> {16},
     dsync |-> {12}, excl |-> {7}, largefile |-> {15}, noatime |-> {18},
     noctty |-> {8}, nofollow |-> {17}, nonblock |-> {11}, ndelay |-> {11},
     path |-> {21}, sync |-> {12, 20}, tmpfile |-> {16, 22}, trunc |-> {9}]

(* fcntl.h of the machines the programs run on.  O_LARGEFILE is 0 on both. *)
O_Flags == [x86_64  |-> [OpenFlags EXCEPT !.largefile = {}],
            aarch64 |-> [OpenFlags EXCEPT !.largefile = {}, !.directory = {14},
                                          !.nofollow = {15}, !.direct = {16},
                                          !.tmpfile = {14, 22}]]

(* The flags of which every bit is set are replaced by their counterparts. *)
Translate(value, from, to) == UNION {to[f] : f \in {g \in DOMAIN from : from[g] \subseteq value}}

FaultyOpenflagsFromInt(value, host) == value
openflags_from_int(value, host) == Translate(value, O_Flags[host], OpenFlags)
openflags_to_int(value, host)   == Translate(value, OpenFlags, O_Flags[host])

(* accessmode.hpp and unistd.h. *)
AccessModes == [x_ok |-> {0}, w_ok |-> {1}, r_ok |-> {2}]
access_from_int(value) == Translate(value, AccessModes, AccessModes)
access_to_int(value)   == Translate(value, AccessModes, AccessModes)

(* RENAME_NOREPLACE and RENAME_EXCHANGE; other flags are dropped. *)
RenameFlags == [noreplace |-> {0}, exchange |-> {1}]
rename_flags(value) == Translate(value, RenameFlags, RenameFlags)

(* status.hpp: the codes of the protocol, without their sign. *)
StatusCodes == {1, 2, 4, 5, 6, 7, 9, 11, 12, 13, 14, 16, 17, 18, 19, 20, 21, 22, 23, 24,
                26, 27, 28, 30, 31, 32, 34, 36, 38, 39, 40, 61, 75, 89, 95, 122}

(* errno of the host that belongs to a code: asm-generic/errno.h, which x86
   and ARM use, has the numbers of the protocol.                            *)
errno(code) == code

to_fusestatus(value) == IF value < 0 /\ -value \in StatusCodes THEN -errno(-value) ELSE value
=============================================================================
