----------------------------- MODULE FcallLayout ----------------------------
(***************************************************************************)
(* The 9P messages: their types (fcall.rs), and the orders in which their  *)
(* fields are written and read (serialize.rs).                             *)
(*                                                                         *)
(* The two orders are transcribed separately, from Encodable and from      *)
(* Decodable; the types of the fields come from the declarations, as they  *)
(* do for the compiler.                                                    *)
(***************************************************************************)
EXTENDS Naturals, Sequences

(* The types of fcall.rs                                                   *)

\* MsgType; Tlerror has a number and no message
MsgType ==
    [Tlerror |-> 6, Rlerror |-> 7, Tstatfs |-> 8, Rstatfs |-> 9, Tlopen |-> 12, Rlopen |-> 13,
     Tlcreate |-> 14, Rlcreate |-> 15, Tsymlink |-> 16, Rsymlink |-> 17, Tmknod |-> 18,
     Rmknod |-> 19, Trename |-> 20, Rrename |-> 21, Treadlink |-> 22, Rreadlink |-> 23,
     Tgetattr |-> 24, Rgetattr |-> 25, Tsetattr |-> 26, Rsetattr |-> 27, Txattrwalk |-> 30,
     Rxattrwalk |-> 31, Txattrcreate |-> 32, Rxattrcreate |-> 33, Treaddir |-> 40,
     Rreaddir |-> 41, Tfsync |-> 50, Rfsync |-> 51, Tlock |-> 52, Rlock |-> 53, Tgetlock |-> 54,
     Rgetlock |-> 55, Tlink |-> 70, Rlink |-> 71, Tmkdir |-> 72, Rmkdir |-> 73,
     Trenameat |-> 74, Rrenameat |-> 75, Tunlinkat |-> 76, Runlinkat |-> 77, Tversion |-> 100,
     Rversion |-> 101, Tauth |-> 102, Rauth |-> 103, Tattach |-> 104, Rattach |-> 105,
     Tflush |-> 108, Rflush |-> 109, Twalk |-> 110, Rwalk |-> 111, Tread |-> 116, Rread |-> 117,
     Twrite |-> 118, Rwrite |-> 119, Tclunk |-> 120, Rclunk |-> 121, Tremove |-> 122,
     Rremove |-> 123]

\* bytes of an integer, and of the integer behind a set of flags
Width ==
    [u8 |-> 1, u16 |-> 2, u32 |-> 4, u64 |-> 8, QidType |-> 1, LockType |-> 1, LockFlag |-> 4,
     LockStatus |-> 1, GetattrMask |-> 8, SetattrMask |-> 4]

\* how many low bits can be set: in a set of flags, those that are named
Bits ==
    [u8 |-> 8, u16 |-> 16, u32 |-> 32, u64 |-> 64, QidType |-> 8, LockType |-> 2,
     LockFlag |-> 2, LockStatus |-> 2, GetattrMask |-> 14, SetattrMask |-> 9]

\* the structs, and their fields
QidFields == [typ |-> "QidType", version |-> "u32", path |-> "u64"]

StatfsFields ==
    [typ |-> "u32", bsize |-> "u32", blocks |-> "u64", bfree |-> "u64", bavail |-> "u64",
     files |-> "u64", ffree |-> "u64", fsid |-> "u64", namelen |-> "u32"]

TimeFields == [sec |-> "u64", nsec |-> "u64"]

StatFields ==
    [mode |-> "u32", uid |-> "u32", gid |-> "u32", nlink |-> "u64", rdev |-> "u64",
     size |-> "u64", blksize |-> "u64", blocks |-> "u64", atime |-> "Time", mtime |-> "Time",
     ctime |-> "Time"]

SetAttrFields ==
    [mode |-> "u32", uid |-> "u32", gid |-> "u32", size |-> "u64", atime |-> "Time",
     mtime |-> "Time"]

DirEntryFields == [qid |-> "Qid", offset |-> "u64", typ |-> "u8", name |-> "String"]

FlockFields ==
    [typ |-> "LockType", flags |-> "LockFlag", start |-> "u64", length |-> "u64",
     proc_id |-> "u32", client_id |-> "String"]

GetlockFields ==
    [typ |-> "LockType", start |-> "u64", length |-> "u64", proc_id |-> "u32",
     client_id |-> "String"]

Struct ==
    [Qid |-> QidFields, Statfs |-> StatfsFields, Time |-> TimeFields, Stat |-> StatFields,
     SetAttr |-> SetAttrFields, DirEntry |-> DirEntryFields, Flock |-> FlockFields,
     Getlock |-> GetlockFields]

\* Fcall: the fields of each kind of message
Fcall ==
    [Rlerror |-> [ecode |-> "u32"], Tstatfs |-> [fid |-> "u32"], Rstatfs |-> [statfs |-> "Statfs"],
     Tlopen |-> [fid |-> "u32", flags |-> "u32"], Rlopen |-> [qid |-> "Qid", iounit |-> "u32"],
     Tlcreate |-> [fid |-> "u32", name |-> "String", flags |-> "u32", mode |-> "u32",
                   gid |-> "u32"],
     Rlcreate |-> [qid |-> "Qid", iounit |-> "u32"],
     Tsymlink |-> [fid |-> "u32", name |-> "String", symtgt |-> "String", gid |-> "u32"],
     Rsymlink |-> [qid |-> "Qid"],
     Tmknod |-> [dfid |-> "u32", name |-> "String", mode |-> "u32", major |-> "u32",
                 minor |-> "u32", gid |-> "u32"],
     Rmknod |-> [qid |-> "Qid"],
     Trename |-> [fid |-> "u32", dfid |-> "u32", name |-> "String"], Rrename |-> << >>,
     Treadlink |-> [fid |-> "u32"], Rreadlink |-> [target |-> "String"],
     Tgetattr |-> [fid |-> "u32", req_mask |-> "GetattrMask"],
     Rgetattr |-> [valid |-> "GetattrMask", qid |-> "Qid", stat |-> "Stat"],
     Tsetattr |-> [fid |-> "u32", valid |-> "SetattrMask", stat |-> "SetAttr"],
     Rsetattr |-> << >>,
     Txattrwalk |-> [fid |-> "u32", newfid |-> "u32", name |-> "String"],
     Rxattrwalk |-> [size |-> "u64"],
     Txattrcreate |-> [fid |-> "u32", name |-> "String", attr_size |-> "u64", flags |-> "u32"],
     Rxattrcreate |-> << >>,
     Treaddir |-> [fid |-> "u32", offset |-> "u64", count |-> "u32"],
     Rreaddir |-> [data |-> "DirEntryData"], Tfsync |-> [fid |-> "u32"], Rfsync |-> << >>,
     Tlock |-> [fid |-> "u32", flock |-> "Flock"], Rlock |-> [status |-> "LockStatus"],
     Tgetlock |-> [fid |-> "u32", flock |-> "Getlock"], Rgetlock |-> [flock |-> "Getlock"],
     Tlink |-> [dfid |-> "u32", fid |-> "u32", name |-> "String"], Rlink |-> << >>,
     Tmkdir |-> [dfid |-> "u32", name |-> "String", mode |-> "u32", gid |-> "u32"],
     Rmkdir |-> [qid |-> "Qid"],
     Trenameat |-> [olddirfid |-> "u32", oldname |-> "String", newdirfid |-> "u32",
                    newname |-> "String"],
     Rrenameat |-> << >>,
     Tunlinkat |-> [dirfd |-> "u32", name |-> "String", flags |-> "u32"], Runlinkat |-> << >>,
     Tauth |-> [afid |-> "u32", uname |-> "String", aname |-> "String", n_uname |-> "u32"],
     Rauth |-> [aqid |-> "Qid"],
     Tattach |-> [fid |-> "u32", afid |-> "u32", uname |-> "String", aname |-> "String",
                  n_uname |-> "u32"],
     Rattach |-> [qid |-> "Qid"],
     Tversion |-> [msize |-> "u32", version |-> "String"],
     Rversion |-> [msize |-> "u32", version |-> "String"],
     Tflush |-> [oldtag |-> "u16"], Rflush |-> << >>,
     Twalk |-> [fid |-> "u32", newfid |-> "u32", wnames |-> "VecString"],
     Rwalk |-> [wqids |-> "VecQid"],
     Tread |-> [fid |-> "u32", offset |-> "u64", count |-> "u32"], Rread |-> [data |-> "Data"],
     Twrite |-> [fid |-> "u32", offset |-> "u64", data |-> "Data"], Rwrite |-> [count |-> "u32"],
     Tclunk |-> [fid |-> "u32"], Rclunk |-> << >>, Tremove |-> [fid |-> "u32"], Rremove |-> << >>]

\* members of Rgetattr in the protocol that Fcall leaves out
Reserved == [btime |-> "Time", btime_sec |-> "u64", btime_nsec |-> "u64", gen |-> "u64",
             data_version |-> "u64"]

\* strings, data and vectors: the type of their length, and of their elements
LenType == [String |-> "u16", Data |-> "u32", VecString |-> "u16", VecQid |-> "u16",
            DirEntryData |-> "u32"]
Element == [VecString |-> "String", VecQid |-> "Qid", DirEntryData |-> "DirEntry"]

-----------------------------------------------------------------------------
(* The order in which fields are written and read                          *)

\* the encode methods of the structs
EncStruct ==
    [Qid |-> <<"typ", "version", "path">>,
     Statfs |-> <<"typ", "bsize", "blocks", "bfree", "bavail", "files", "ffree", "fsid",
                  "namelen">>,
     Time |-> <<"sec", "nsec">>,
     Stat |-> <<"mode", "uid", "gid", "nlink", "rdev", "size", "blksize", "blocks",
                "atime", "mtime", "ctime">>,
     SetAttr |-> <<"mode", "uid", "gid", "size", "atime", "mtime">>,
     DirEntry |-> <<"qid", "offset", "typ", "name">>,
     Flock |-> <<"typ", "flags", "start", "length", "proc_id", "client_id">>,
     Getlock |-> <<"typ", "start", "length", "proc_id", "client_id">>]

\* Msg::encode, after the type and the tag
EncMsg ==
    [Rlerror |-> <<"ecode">>, Tstatfs |-> <<"fid">>, Rstatfs |-> <<"statfs">>,
     Tlopen |-> <<"fid", "flags">>, Rlopen |-> <<"qid", "iounit">>,
     Tlcreate |-> <<"fid", "name", "flags", "mode", "gid">>, Rlcreate |-> <<"qid", "iounit">>,
     Tsymlink |-> <<"fid", "name", "symtgt", "gid">>, Rsymlink |-> <<"qid">>,
     Tmknod |-> <<"dfid", "name", "mode", "major", "minor", "gid">>, Rmknod |-> <<"qid">>,
     Trename |-> <<"fid", "dfid", "name">>, Rrename |-> << >>, Treadlink |-> <<"fid">>,
     Rreadlink |-> <<"target">>, Tgetattr |-> <<"fid", "req_mask">>,
     Rgetattr |-> <<"valid", "qid", "stat", "btime_sec", "btime_nsec", "gen", "data_version">>,
     Tsetattr |-> <<"fid", "valid", "stat">>, Rsetattr |-> << >>,
     Txattrwalk |-> <<"fid", "newfid", "name">>, Rxattrwalk |-> <<"size">>,
     Txattrcreate |-> <<"fid", "name", "attr_size", "flags">>, Rxattrcreate |-> << >>,
     Treaddir |-> <<"fid", "offset", "count">>, Rreaddir |-> <<"data">>, Tfsync |-> <<"fid">>,
     Rfsync |-> << >>, Tlock |-> <<"fid", "flock">>, Rlock |-> <<"status">>,
     Tgetlock |-> <<"fid", "flock">>, Rgetlock |-> <<"flock">>,
     Tlink |-> <<"dfid", "fid", "name">>, Rlink |-> << >>,
     Tmkdir |-> <<"dfid", "name", "mode", "gid">>, Rmkdir |-> <<"qid">>,
     Trenameat |-> <<"olddirfid", "oldname", "newdirfid", "newname">>, Rrenameat |-> << >>,
     Tunlinkat |-> <<"dirfd", "name", "flags">>, Runlinkat |-> << >>,
     Tauth |-> <<"afid", "uname", "aname", "n_uname">>, Rauth |-> <<"aqid">>,
     Tattach |-> <<"fid", "afid", "uname", "aname", "n_uname">>, Rattach |-> <<"qid">>,
     Tversion |-> <<"msize", "version">>, Rversion |-> <<"msize", "version">>,
     Tflush |-> <<"oldtag">>, Rflush |-> << >>, Twalk |-> <<"fid", "newfid", "wnames">>,
     Rwalk |-> <<"wqids">>, Tread |-> <<"fid", "offset", "count">>, Rread |-> <<"data">>,
     Twrite |-> <<"fid", "offset", "data">>, Rwrite |-> <<"count">>, Tclunk |-> <<"fid">>,
     Rclunk |-> << >>, Tremove |-> <<"fid">>, Rremove |-> << >>]

\* the decode methods of the structs
DecStruct ==
    [Qid |-> <<"typ", "version", "path">>,
     Statfs |-> <<"typ", "bsize", "blocks", "bfree", "bavail", "files", "ffree", "fsid",
                  "namelen">>,
     Time |-> <<"sec", "nsec">>,
     Stat |-> <<"mode", "uid", "gid", "nlink", "rdev", "size", "blksize", "blocks",
                "atime", "mtime", "ctime">>,
     SetAttr |-> <<"mode", "uid", "gid", "size", "atime", "mtime">>,
     DirEntry |-> <<"qid", "offset", "typ", "name">>,
     Flock |-> <<"typ", "flags", "start", "length", "proc_id", "client_id">>,
     Getlock |-> <<"typ", "start", "length", "proc_id", "client_id">>]

\* Msg::decode, after the type and the tag
DecMsg ==
    [Rlerror |-> <<"ecode">>, Tstatfs |-> <<"fid">>, Rstatfs |-> <<"statfs">>,
     Tlopen |-> <<"fid", "flags">>, Rlopen |-> <<"qid", "iounit">>,
     Tlcreate |-> <<"fid", "name", "flags", "mode", "gid">>, Rlcreate |-> <<"qid", "iounit">>,
     Tsymlink |-> <<"fid", "name", "symtgt", "gid">>, Rsymlink |-> <<"qid">>,
     Tmknod |-> <<"dfid", "name", "mode", "major", "minor", "gid">>, Rmknod |-> <<"qid">>,
     Trename |-> <<"fid", "dfid", "name">>, Rrename |-> << >>, Treadlink |-> <<"fid">>,
     Rreadlink |-> <<"target">>, Tgetattr |-> <<"fid", "req_mask">>,
     Rgetattr |-> <<"valid", "qid", "stat", "btime", "gen", "data_version">>,
     Tsetattr |-> <<"fid", "valid", "stat">>, Rsetattr |-> << >>,
     Txattrwalk |-> <<"fid", "newfid", "name">>, Rxattrwalk |-> <<"size">>,
     Txattrcreate |-> <<"fid", "name", "attr_size", "flags">>, Rxattrcreate |-> << >>,
     Treaddir |-> <<"fid", "offset", "count">>, Rreaddir |-> <<"data">>, Tfsync |-> <<"fid">>,
     Rfsync |-> << >>, Tlock |-> <<"fid", "flock">>, Rlock |-> <<"status">>,
     Tgetlock |-> <<"fid", "flock">>, Rgetlock |-> <<"flock">>,
     Tlink |-> <<"dfid", "fid", "name">>, Rlink |-> << >>,
     Tmkdir |-> <<"dfid", "name", "mode", "gid">>, Rmkdir |-> <<"qid">>,
     Trenameat |-> <<"olddirfid", "oldname", "newdirfid", "newname">>, Rrenameat |-> << >>,
     Tunlinkat |-> <<"dirfd", "name", "flags">>, Runlinkat |-> << >>,
     Tauth |-> <<"afid", "uname", "aname", "n_uname">>, Rauth |-> <<"aqid">>,
     Tattach |-> <<"fid", "afid", "uname", "aname", "n_uname">>, Rattach |-> <<"qid">>,
     Tversion |-> <<"msize", "version">>, Rversion |-> <<"msize", "version">>,
     Tflush |-> <<"oldtag">>, Rflush |-> << >>, Twalk |-> <<"fid", "newfid", "wnames">>,
     Rwalk |-> <<"wqids">>, Tread |-> <<"fid", "offset", "count">>, Rread |-> <<"data">>,
     Twrite |-> <<"fid", "offset", "data">>, Rwrite |-> <<"count">>, Tclunk |-> <<"fid">>,
     Rclunk |-> << >>, Tremove |-> <<"fid">>, Rremove |-> << >>]

-----------------------------------------------------------------------------
\* A struct expression names every field of its type, and a pattern too: the
\* orders cover the declarations.
ASSUME OrdersCover ==
    /\ \A s \in DOMAIN Struct :
          /\ {EncStruct[s][i] : i \in DOMAIN EncStruct[s]} = DOMAIN Struct[s]
          /\ {DecStruct[s][i] : i \in DOMAIN DecStruct[s]} = DOMAIN Struct[s]
    /\ \A k \in DOMAIN Fcall :
          /\ k \in DOMAIN MsgType
          /\ {EncMsg[k][i] : i \in DOMAIN EncMsg[k]} \ DOMAIN Reserved = DOMAIN Fcall[k]
          /\ {DecMsg[k][i] : i \in DOMAIN DecMsg[k]} \ DOMAIN Reserved = DOMAIN Fcall[k]
=============================================================================
