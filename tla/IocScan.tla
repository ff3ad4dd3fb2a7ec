------------------------------ MODULE IocScan -------------------------------
(***************************************************************************)
(* The hunt for the indicators of a list in the reports of a project       *)
(* (marlinspike/iocs.py).  An entry has a kind, a value and the way it was *)
(* written; written otherwise (dashes, capitals, leading zeros) it means   *)
(* the same.  A report yields at most so many places, and a hunt at most   *)
(* so many hits.                                                           *)
(***************************************************************************)
EXTENDS ReportData

CONSTANTS
  OuiOf,          \* the first three octets of a MAC
  Covers,         \* pairs: the domain, and a name that contains it
  PlacesCap, HitsCap

ASSUME CapsAreBounds == PlacesCap \in Nat /\ HitsCap \in Nat

Entry == [kind : {"ip", "mac", "oui", "domain", "hash"}, value : Addresses \cup STRING,
          plain : BOOLEAN]

NormAsWritten(entry) == IF entry.plain THEN entry.value ELSE "as written"
Norm(entry) == entry.value

(* The fields of the elements of a list that hold one of the values. *)
Along(list, seq, fields, values) ==
  FlattenSeq([i \in DOMAIN seq |->
    LET at == Among(fields, {f \in ToSet(fields) : seq[i][f] \in values})
    IN [k \in DOMAIN at |-> <<list, at[k]>>]])

PlacesOfIp(r, ip) ==
  Along("node", r.nodes, <<"ip">>, {ip})
    \o Along("conversation", r.convs, <<"sip", "dip">>, {ip})
    \o Along("c2_indicator", r.channels, <<"dst", "src">>, {ip})
    \o Along("risk_finding", r.findings, <<"nodes">>, {ns \in SUBSET Addresses : ip \in ns})

PlacesOfMacs(r, macs) ==
  Along("node", r.nodes, <<"mac">>, macs)
    \o Along("conversation", r.convs, <<"smac", "dmac">>, macs)
PlacesOfMac(r, mac) == PlacesOfMacs(r, {mac})
PlacesOfOui(r, oui) == PlacesOfMacs(r, {m \in MACs : OuiOf[m] = oui})

(* One for each name that contains the domain. *)
PlacesOfDomain(r, domain) ==
  FlattenSeq([i \in DOMAIN r.convs |->
    SetToSeq({<<"dns_queries", q>> : q \in {q \in r.convs[i].queries : <<domain, q>> \in Covers}})])

Places(r, entry) ==
  CASE entry.kind = "ip"     -> PlacesOfIp(r, Norm(entry))
    [] entry.kind = "mac"    -> PlacesOfMac(r, Norm(entry))
    [] entry.kind = "oui"    -> PlacesOfOui(r, Norm(entry))
    [] entry.kind = "domain" -> PlacesOfDomain(r, Norm(entry))
    [] entry.kind = "hash"   -> IF Norm(entry) \in r.hashes THEN <<"malware_finding">> ELSE <<>>

UpTo(n, seq) == SubSeq(seq, 1, Min({n, Len(seq)}))

(* The places of a report are shared by the entries, in their order. *)
TakeHit(acc, entry, found) ==
  IF found = <<>> THEN acc
  ELSE [left |-> acc.left - Len(found),
        hits |-> Append(acc.hits, [entry |-> entry, matches |-> found])]
ScanReport(r, entries) ==
  LET taken[i \in 0 .. Len(entries)] ==
        IF i = 0 THEN [left |-> PlacesCap, hits |-> <<>>]
        ELSE TakeHit(taken[i - 1], entries[i], UpTo(taken[i - 1].left, Places(r, entries[i])))
  IN taken[Len(entries)].hits

(* A hit is an entry found in a report, with its places.  Files that could *)
(* not be read are not among the files.                                    *)
TakeReport(acc, name, fresh) ==
  [hits |-> UpTo(HitsCap, acc.hits \o [i \in DOMAIN fresh |->
              [name |-> name, entry |-> fresh[i].entry, matches |-> fresh[i].matches]]),
   scanned |-> acc.scanned + 1, truncated |-> Len(acc.hits) + Len(fresh) > HitsCap]
ScanFile(acc, file, entries) ==
  IF Len(acc.hits) >= HitsCap THEN [acc EXCEPT !.truncated = TRUE]
  ELSE TakeReport(acc, file.name, ScanReport(file.report, entries))
ScanList(files, entries) ==
  LET scan[i \in 0 .. Len(files)] ==
        IF i = 0 THEN [hits |-> <<>>, scanned |-> 0, truncated |-> FALSE]
        ELSE ScanFile(scan[i - 1], files[i], entries)
  IN scan[Len(files)]

TotalHits(result) ==
  LET total[i \in 0 .. Len(result.hits)] ==
        IF i = 0 THEN 0 ELSE total[i - 1] + Len(result.hits[i].matches)
  IN total[Len(result.hits)]
=============================================================================
