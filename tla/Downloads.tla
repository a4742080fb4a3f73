----------------------------- MODULE Downloads -----------------------------
(***************************************************************************)
(* Downloads of a torrent's content from its engine (download_http.py,     *)
(* zipstream.py, routers/download.py): one file, with a Range to go on     *)
(* after a break, or an archive of all files that are ready, written while *)
(* it is sent and with a length promised before.  Meanwhile files arrive,  *)
(* shrink and disappear, and clients leave.                                *)
(*                                                                         *)
(* Lengths are counted in units: a piece of a file is one, a header or a   *)
(* field of 64 bits is one, and U32 stands for the largest number a field  *)
(* of 32 bits holds, which also says "see the extra field".                *)
(***************************************************************************)
EXTENDS Naturals, Sequences, FiniteSets

CONSTANTS Clients,
          Listing,      \* list_files: the torrent's files in their order
          Length,       \* [file -> Nat] the length of each in the torrent
          U32, U16,     \* the largest length and count of the plain format
          Parallel      \* SEEDING_DOWNLOAD_ZIP_PARALLEL

Content == {Listing[i] : i \in 1..Len(Listing)}

ASSUME DownloadAssumption ==
    /\ Listing \in Seq(Content) /\ Listing # <<>>
    /\ Length \in [Content -> Nat] /\ U32 \in Nat /\ U16 \in Nat /\ Parallel \in Nat \ {0}
    /\ \A i, j \in 1..Len(Listing) : Listing[i] = Listing[j] => i = j

VARIABLES
    onDisk,   \* [Content -> length of the file]
    gone,     \* the files that were removed; an open one can still be read
    arrived,  \* the files libtorrent has completely
    active,   \* zip_active
    client    \* the requests

downloadVars == <<onDisk, gone, arrived, active, client>>

(* entries: [f, size, off, z64] of the plan; where: where each local       *)
(* header came in the stream; holes: something unfinished was sent.        *)
Idle == [at |-> "out", kind |-> "zip", f |-> Listing[1], seen |-> {}, k |-> 1, entries |-> <<>>,
         total |-> 0, sent |-> 0, pos |-> 0, where |-> <<>>, whole |-> FALSE, holes |-> FALSE]

(* A file that has not arrived may be there in full length already.        *)
DownloadInit ==
    /\ arrived \in SUBSET Content
    /\ onDisk \in {d \in [Content -> {0} \union {Length[f] : f \in Content}] :
                     \A f \in Content : d[f] \in {Length[f]} \union (IF f \in arrived THEN {} ELSE {0})}
    /\ gone = {} /\ active = 0 /\ client = [c \in Clients |-> Idle]

Serve(c, rec) == client' = [client EXCEPT ![c] = rec]
Still == UNCHANGED <<onDisk, gone, arrived>>
Streaming(c) == client[c].kind = "zip" /\ client[c].at \in {"entry", "data"}

-----------------------------------------------------------------------------
(* ZipPlan: offsets and the choice of the 64-bit format, entry by entry.   *)
LocalLen(e) == IF e.z64 THEN 2 ELSE 1
DescriptorLen(e) == IF e.z64 THEN 2 ELSE 1
Big(n) == IF n >= U32 THEN 1 ELSE 0
CentralLen(e) == 1 + 2 * Big(e.size) + Big(e.off)

(* Mutant of Needs64: a size or an offset of U32 itself is taken as plain. *)
Needs64Above(size, off) == size > U32 \/ off > U32

Needs64(size, off) == size >= U32 \/ off >= U32

Ends(p) == LET e == p[Len(p)] IN e.off + LocalLen(e) + e.size + DescriptorLen(e)
DataEnd(p) == IF p = <<>> THEN 0 ELSE Ends(p)
Append64(p, f, n) ==
    LET off == DataEnd(p) IN Append(p, [f |-> f, size |-> n, off |-> off, z64 |-> Needs64(n, off)])

Directory(p) == LET sum[i \in 0..Len(p)] == IF i = 0 THEN 0 ELSE sum[i - 1] + CentralLen(p[i])
                IN  sum[Len(p)]
EndLen(p) == IF Len(p) >= U16 \/ DataEnd(p) >= U32 \/ Directory(p) >= U32 THEN 3 ELSE 1
Total(p) == DataEnd(p) + Directory(p) + EndLen(p)

-----------------------------------------------------------------------------
(* Tickets: an archive needs a file that is ready, and a torrent of one    *)
(* file is sent as it is; a ticket for one file asks for nothing.          *)
FileTicket(c, f) ==
    /\ client[c].at = "out"
    /\ Serve(c, [Idle EXCEPT !.at = "ticket", !.kind = "file", !.f = f, !.whole = f \in arrived])
    /\ Still /\ UNCHANGED active

ZipTicket(c) ==
    /\ client[c].at = "out" /\ arrived # {}
    /\ Serve(c, IF Len(Listing) > 1 THEN [Idle EXCEPT !.at = "ticket"]
             ELSE [Idle EXCEPT !.at = "ticket", !.kind = "file", !.whole = TRUE])
    /\ Still /\ UNCHANGED active

(* _zip_entries: the listing first, then the size of each file on disk.    *)
ZipList(c) ==
    /\ client[c].at = "ticket" /\ client[c].kind = "zip"
    /\ Serve(c, [client[c] EXCEPT !.at = "plan", !.seen = arrived]) /\ Still /\ UNCHANGED active

Fit(c, f) == f \in client[c].seen /\ f \notin gone /\ onDisk[f] = Length[f]

ZipLook(c) ==
    /\ client[c].at = "plan" /\ client[c].k <= Len(Listing)
    /\ LET f == Listing[client[c].k]
       IN  Serve(c, [client[c] EXCEPT !.k = @ + 1,
                    !.entries = IF Fit(c, f) THEN Append64(@, f, Length[f]) ELSE @])
    /\ Still /\ UNCHANGED active

(* The limit on archives is asked and counted without a pause in between.  *)
ZipStart(c) ==
    /\ client[c].at = "plan" /\ client[c].k > Len(Listing)
    /\ IF client[c].entries = <<>> \/ active >= Parallel
       THEN Serve(c, Idle) /\ UNCHANGED active
       ELSE /\ active' = active + 1
            /\ Serve(c, [client[c] EXCEPT !.at = "entry", !.k = 1, !.seen = {},
                                       !.total = Total(client[c].entries)])
    /\ Still

Current(c) == client[c].entries[client[c].k]
Break(c) == Serve(c, [Idle EXCEPT !.at = "broken"]) /\ active' = active - 1

(* The local header is sent, then the file is opened.                      *)
ZipOpen(c) ==
    /\ client[c].at = "entry" /\ client[c].k <= Len(client[c].entries)
    /\ IF Current(c).f \in gone THEN Break(c)
       ELSE /\ Serve(c, [client[c] EXCEPT !.at = "data", !.pos = 0, !.where = Append(@, client[c].sent),
                                       !.sent = @ + LocalLen(Current(c))])
            /\ UNCHANGED active
    /\ Still

(* A piece, as long as the open file has one.                              *)
ZipChunk(c) ==
    /\ Streaming(c) /\ client[c].at = "data" /\ client[c].pos < Current(c).size
    /\ IF client[c].pos >= onDisk[Current(c).f] THEN Break(c)
       ELSE /\ Serve(c, [client[c] EXCEPT !.pos = @ + 1, !.sent = @ + 1,
                                       !.holes = @ \/ Current(c).f \notin arrived])
            /\ UNCHANGED active
    /\ Still

ZipNext(c) ==
    /\ Streaming(c) /\ client[c].at = "data" /\ client[c].pos = Current(c).size
    /\ Serve(c, [client[c] EXCEPT !.at = "entry", !.k = @ + 1, !.sent = @ + DescriptorLen(Current(c))])
    /\ Still /\ UNCHANGED active

ZipEnd(c) ==
    /\ client[c].at = "entry" /\ client[c].k > Len(client[c].entries)
    /\ Serve(c, [client[c] EXCEPT !.at = "ended",
                !.sent = @ + Directory(client[c].entries) + EndLen(client[c].entries)])
    /\ active' = active - 1 /\ Still

-----------------------------------------------------------------------------
(* _parse_range for "bytes=lo-": the first piece and how many follow.      *)
RangeFrom(lo, size) ==
    LET start == IF lo < size THEN lo ELSE size IN [start |-> start, count |-> size - start]

(* One file, from where the client stopped; total is what is promised, sent *)
(* is what the client has.                                                 *)
FileStart(c) ==
    /\ client[c].at = "ticket" /\ client[c].kind = "file"
    /\ IF client[c].f \in gone \/ onDisk[client[c].f] = 0 THEN Serve(c, Idle)
       ELSE LET r == RangeFrom(client[c].sent, onDisk[client[c].f])
            IN  Serve(c, [client[c] EXCEPT !.at = "data", !.pos = r.start, !.total = r.start + r.count])
    /\ Still /\ UNCHANGED active

FileChunk(c) ==
    /\ client[c].kind = "file" /\ client[c].at = "data"
    /\ LET r == client[c]
       IN  Serve(c, CASE r.pos = r.total -> [r EXCEPT !.at = "ended"]
                      [] r.pos < r.total /\ r.pos >= onDisk[r.f] -> [r EXCEPT !.at = "ticket"]
                      [] OTHER -> [r EXCEPT !.pos = @ + 1, !.sent = @ + 1,
                                     !.holes = @ \/ r.f \notin arrived \/ r.sent # r.pos])
    /\ Still /\ UNCHANGED active

(* The connection breaks, or the client leaves.                            *)
Leave(c) ==
    /\ client[c].at # "out"
    /\ \/ /\ client[c].kind = "file" /\ client[c].at = "data"
          /\ Serve(c, [client[c] EXCEPT !.at = "ticket"])
       \/ Serve(c, Idle)
    /\ active' = IF Streaming(c) THEN active - 1 ELSE active
    /\ Still

-----------------------------------------------------------------------------
(* libtorrent completes a file; a file is cut; it is removed.              *)
Arrive(f) ==
    /\ f \notin arrived \union gone
    /\ arrived' = arrived \union {f} /\ onDisk' = [onDisk EXCEPT ![f] = Length[f]]
    /\ UNCHANGED <<gone, active, client>>

Cutoff(f, n) ==
    /\ f \notin gone /\ n < onDisk[f]
    /\ onDisk' = [onDisk EXCEPT ![f] = n] /\ UNCHANGED <<gone, arrived, active, client>>

Vanish(f) ==
    /\ f \notin gone /\ gone' = gone \union {f} /\ UNCHANGED <<onDisk, arrived, active, client>>

ZipStep(c) ==
    \/ ZipTicket(c) \/ ZipList(c) \/ ZipLook(c) \/ ZipStart(c)
    \/ ZipOpen(c) \/ ZipChunk(c) \/ ZipNext(c) \/ ZipEnd(c)

DownloadNext ==
    \/ \E c \in Clients : ZipStep(c) \/ FileStart(c) \/ FileChunk(c) \/ Leave(c)
                            \/ \E f \in Content : FileTicket(c, f)
    \/ \E f \in Content : Arrive(f) \/ Vanish(f) \/ \E n \in 0..onDisk[f] : Cutoff(f, n)

DownloadSpec == DownloadInit /\ [][DownloadNext]_downloadVars

DownloadTypeOK ==
    /\ onDisk \in [Content -> Nat] /\ gone \subseteq Content /\ arrived \subseteq Content
    /\ active \in 0..Parallel
    /\ \A c \in Clients :
         /\ client[c].at \in {"out", "ticket", "plan", "entry", "data", "ended", "broken"}
         /\ client[c].kind \in {"zip", "file"} /\ client[c].f \in Content
         /\ client[c].sent \in Nat /\ client[c].total \in Nat

-----------------------------------------------------------------------------
(* A reader goes from the directory to the local header at the offset, and *)
(* takes the width of the descriptor from whether the directory entry has  *)
(* a 64-bit field: the plan and _central decide that in two places.        *)
Found(e, at) == e.off = at /\ (e.z64 <=> Big(e.size) = 1 \/ Big(e.off) = 1)

(* Whatever happens to the files meanwhile, an archive that comes to its   *)
(* end has the length its header promised, holds only files that were      *)
(* complete, and each is found where its directory entry says, in the      *)
(* plain or the 64-bit format its numbers call for.  A file fetched in     *)
(* several attempts is put together without gap, unless it was incomplete. *)
DownloadSound ==
    \A c \in Clients : client[c].at = "ended" =>
        IF client[c].kind = "zip"
        THEN /\ client[c].sent = client[c].total /\ ~client[c].holes
             /\ \A i \in 1..Len(client[c].entries) :
                   Found(client[c].entries[i], client[c].where[i])
        ELSE client[c].whole /\ onDisk[client[c].f] = Length[client[c].f]
                => ~client[c].holes /\ client[c].sent = Length[client[c].f]
=============================================================================
