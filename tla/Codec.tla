-------------------------------- MODULE Codec --------------------------------
(***************************************************************************)
(* MessageCodec: what a DataMessage becomes on the wire and what is read   *)
(* back.  A frame starts with the length of the rest; every field that may *)
(* be absent is preceded by its own length, an int or, for the method and  *)
(* the version, one signed byte.                                           *)
(*                                                                         *)
(* A text or an array of bytes is a value with its size.  The codec writes *)
(* null, and blank texts, which no caller has, as it writes no bytes.      *)
(***************************************************************************)
EXTENDS Integers

CONSTANTS
    None,       \* no value
    MaxByte     \* the largest signed byte, 127

Text(v, n) == [of |-> v, bytes |-> n]
Null == Text(None, 0)   \* Java null; also the empty defaults of DataMessage

\* The fields of a DataMessage besides its id and command.
TextFields == {"dstServer", "url", "method", "version", "heads", "bytes"}

\* An int as read by readByte after writeByte(n).
SignedByte(n) == ((n + MaxByte + 1) % (2 * (MaxByte + 1))) - (MaxByte + 1)

\* Mutant: every length is one byte.
writeIntAsByte(t) == [len |-> SignedByte(t.bytes), text |-> t]

writeInt(t) == [len |-> t.bytes, text |-> t]
writeByte(t) == [len |-> SignedByte(t.bytes), text |-> t]

\* The bytes of all lengths, of the type, the id and the command.
HeadBytes == 1 + 8 + 1 + 4 * 4 + 2 * 1

\* A SysMessage is written by Kryo, as a whole.
encodeSys(m, n) == [type |-> "SYS", length |-> 1 + n, msg |-> m]

encode(m) ==
    [type |-> "DATA",
     length |-> HeadBytes + m.dstServer.bytes + m.url.bytes + m.method.bytes
                  + m.version.bytes + m.heads.bytes + m.bytes.bytes,
     id |-> m.id, command |-> m.command,
     dstServer |-> writeInt(m.dstServer), url |-> writeInt(m.url),
     method |-> writeByte(m.method), version |-> writeByte(m.version),
     heads |-> writeInt(m.heads), bytes |-> writeInt(m.bytes)]

\* Every field ends where the writer ended it.  If one does not, readBytes
\* throws (a negative length) or the rest is read out of place.
InPlace(f) == \A k \in TextFields : f[k].len = f[k].text.bytes

\* A field of length 0 keeps its default.
read(field) == IF field.len = 0 THEN Null ELSE field.text

\* What is read of a frame that is InPlace.
decode(f) ==
    [id |-> f.id, command |-> f.command,
     dstServer |-> read(f.dstServer), url |-> read(f.url),
     method |-> read(f.method), version |-> read(f.version),
     heads |-> read(f.heads), bytes |-> read(f.bytes)]

DataMessage(id, command, dst, url, method, version, heads, bytes) ==
    [id |-> id, command |-> command, dstServer |-> dst, url |-> url,
     method |-> method, version |-> version, heads |-> heads, bytes |-> bytes]
==============================================================================
