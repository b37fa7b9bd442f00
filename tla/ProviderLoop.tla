--------------------------- MODULE ProviderLoop ---------------------------
(***************************************************************************)
(* The run loop over each of the DNS providers: Records, AdjustEndpoints,  *)
(* the plan, and ApplyChanges as the calls it makes on the service, one at *)
(* a time.  A call may fail, with or without effect, Records may leave out *)
(* what it could not read, the process may die between two calls, and      *)
(* somebody else may remove a record.                                      *)
(* Providers whose calls are transactions run below the TXT registry, with *)
(* one ownership record per record; Cloud Map below its own registry; the  *)
(* others below the no-op registry.  Two kinds are wrappers of a provider: *)
(* "cached" is the cache of provider/cached_provider.go, "webhook" the     *)
(* client and the server of provider/webhook/.                             *)
(***************************************************************************)
EXTENDS ProviderAPI, AlibabaCloudProvider, AWSProvider, AWSSDProvider, AzureProvider,
        CloudflareProvider, CoreDNSProvider, DigitalOceanProvider, DNSimpleProvider,
        GandiProvider, GoogleProvider, LinodeProvider, OVHProvider, PiholeProvider,
        PowerDNSProvider, RecordSetProviders, RFC2136Provider, ScalewayProvider

CONSTANTS
    Kinds,          \* the providers
    TXTKinds,       \* those below the TXT registry
    TypedLabel(_, _),   \* a label with a record type before it: "A" and "www" give "a-www"
    Desirable,      \* for each kind, the sets of endpoints the source may want
    InitService,    \* for each kind, the records of others
    MaxEdits,       \* times the source changes its mind
    MaxFaults,      \* calls that fail, readings with a part missing, processes that die
    MaxDrifts       \* records that somebody else removes

\* Kinds that keep names relative to their zone, and kinds without zones.
Relatively == {"digitalocean", "linode", "civo", "alibaba", "alibaba-private", "azure", "azure-private",
               "ovh", "godaddy", "scaleway", "dnsimple", "gandi", "exoscale", "transip", "awssd"}
Zoneless == {"pihole", "pihole6", "plural", "coredns", "coredns-strict"}

ASSUME LoopAssumption ==
    /\ MaxEdits \in Nat /\ MaxFaults \in Nat /\ MaxDrifts \in Nat
    /\ \A k \in Kinds : \A W \in Desirable[k] : IsFiniteSet(W) /\ \A e \in W : IsEndpoint(e)
    /\ \A k \in Kinds : IsFiniteSet(InitService[k]) /\ \A r \in InitService[k] : r.name \in Seq(STRING)
    /\ \A k \in Kinds \ Zoneless : \A r \in InitService[k] : \E z \in Zones : r.zone = z.id
    \* What services keep beside the records is no record type.
    /\ ManagedTypes \cap {"service", "instance", "regional-hostname", "custom-hostname", "ALIAS",
                        "unpublished"} = {}

VARIABLES
    kind,       \* the provider
    svc,        \* the records of the DNS service
    want,       \* what the source wants
    aim,        \* what it wanted when the changes in progress were planned
    scope,      \* names and types of the records that these changes are about
    phase,      \* "idle" or "applying"
    script,     \* the calls that are left
    failed,     \* "" or the kind of error ApplyChanges will return
    queue,      \* AWS: the failed changes queue, lost with the process
    partial,    \* whether the run in progress read the service with a part missing
    cache,      \* cached: <<>> or the one list of records it keeps; ovh: the zones it keeps
    stray,      \* webhook: calls the server still makes for a request that is lost
    edits, faults, drifts

vars == <<kind, svc, want, aim, scope, phase, script, failed, queue, partial, cache, stray,
          edits, faults, drifts>>

Me == "me"

-----------------------------------------------------------------------------
(***************************************************************************)
(* The providers, by their packages' names.                                *)
(***************************************************************************)

\* The wrappers are put around these.
Inner(k) == CASE k = "cached" -> "ns1" [] k = "webhook" -> "pdns" [] OTHER -> k

ProviderRecords(k, S) ==
    CASE k = "aws" -> AWS_records(S)
      [] k = "awssd" -> AWSSD_Records(S)
      [] k = "akamai" -> Akamai_Records(S)
      [] k = "alibaba" -> Alibaba_Records(S)
      [] k = "alibaba-private" -> Alibaba_privateZoneRecords(S)
      [] k = "azure" -> Azure_Records(S)
      [] k = "azure-private" -> Azure_PrivateRecords(S)
      [] k = "cloudflare" -> Cloudflare_Records(FALSE, S)
      [] k = "cloudflare-saas" -> Cloudflare_Records(TRUE, S)
      [] k = "coredns" -> CoreDNS_Records(FALSE, S)
      [] k = "coredns-strict" -> CoreDNS_Records(TRUE, S)
      [] k = "digitalocean" -> DigitalOcean_Records(S)
      [] k = "dnsimple" -> DNSimple_Records(S)
      [] k = "exoscale" -> Exoscale_Records(S)
      [] k = "gandi" -> Gandi_Records(S)
      [] k = "godaddy" -> GoDaddy_Records(S)
      [] k = "google" -> Google_Records(S)
      [] k = "linode" -> Linode_Records(S)
      [] k = "civo" -> CivoRecords(S)
      [] k = "ns1" -> NS1_Records(S)
      [] k = "oci" -> OCI_Records(S)
      [] k = "ovh" -> OVH_Records(S)
      [] k = "pdns" -> PDNS_Records(S)
      [] k = "pihole" -> Pihole_Records(FALSE, S)
      [] k = "pihole6" -> Pihole_Records(TRUE, S)
      [] k = "plural" -> PluralRecords(S)
      [] k = "rfc2136" -> RFC2136_Records(S)
      [] k = "scaleway" -> Scaleway_Records(S)
      [] k = "transip" -> TransIP_Records(S)
RecordsOf(k, S) == ProviderRecords(Inner(k), S)

Adjusted(k, E) ==
    CASE k = "aws" -> AWS_AdjustEndpoints(E)
      [] k = "cloudflare" -> Cloudflare_AdjustEndpoints(FALSE, E)
      [] k = "cloudflare-saas" -> Cloudflare_AdjustEndpoints(TRUE, E)
      [] k = "oci" -> OCI_AdjustEndpoints(E)
      [] k = "pdns" -> PDNS_AdjustEndpoints(E)
      [] k = "scaleway" -> Scaleway_AdjustEndpoints(E)
      [] OTHER -> E

\* --domain-filter, where it is what keeps the provider to its zones.
Managed(k, n) ==
    CASE k = "aws" -> GetDomainFilter(n)
      [] k \in {"exoscale", "transip", "pihole", "pihole6", "plural"} ->
             \E z \in ManagedZones : InZone(n, z)
      [] OTHER -> TRUE

ProviderScript(k, S, ch, q, tag) ==
    CASE k = "aws" -> AWS_ApplyChanges(ch, q, tag)
      [] k = "awssd" -> AWSSD_ApplyChanges(S, ch)
      [] k = "akamai" -> Akamai_ApplyChanges(S, ch)
      [] k = "alibaba" -> Alibaba_applyChangesForDNS(S, ch)
      [] k = "alibaba-private" -> Alibaba_applyChangesForPrivateZone(S, ch)
      [] k = "azure" -> Azure_ApplyChanges(ch)
      [] k = "azure-private" -> Azure_PrivateApplyChanges(ch)
      [] k = "cloudflare" -> Cloudflare_ApplyChanges(FALSE, ch)
      [] k = "cloudflare-saas" -> Cloudflare_ApplyChanges(TRUE, ch)
      [] k = "coredns" -> CoreDNS_ApplyChanges(FALSE, S, ch)
      [] k = "coredns-strict" -> CoreDNS_ApplyChanges(TRUE, S, ch)
      [] k = "digitalocean" -> DigitalOcean_ApplyChanges(S, ch)
      [] k = "dnsimple" -> DNSimple_ApplyChanges(ch)
      [] k = "exoscale" -> Exoscale_ApplyChanges(ch)
      [] k = "gandi" -> Gandi_ApplyChanges(ch)
      [] k = "godaddy" -> GoDaddy_ApplyChanges(S, ch)
      [] k = "google" -> Google_ApplyChanges(ch)
      [] k = "linode" -> Linode_ApplyChanges(S, ch)
      [] k = "civo" -> CivoApplyChanges(S, ch)
      [] k = "ns1" -> NS1_ApplyChanges(ch)
      [] k = "oci" -> OCI_ApplyChanges(ch)
      [] k = "ovh" -> OVH_ApplyChanges(S, ch)
      [] k = "pdns" -> PDNS_ApplyChanges(ch)
      [] k = "pihole" -> Pihole_ApplyChanges(FALSE, ch)
      [] k = "pihole6" -> Pihole_ApplyChanges(TRUE, ch)
      [] k = "plural" -> PluralApplyChanges(ch)
      [] k = "rfc2136" -> RFC2136_ApplyChanges(S, ch)
      [] k = "scaleway" -> Scaleway_ApplyChanges(S, ch)
      [] k = "transip" -> TransIP_ApplyChanges(ch)

\* The server of a webhook answers every error with a status that the client takes
\* for a soft error.
Softened(s) == [i \in DOMAIN s |-> [s[i] EXCEPT !.onFail = IF @ = "hard" THEN "soft" ELSE @]]
Script(k, S, ch, q, tag) ==
    LET s == ProviderScript(Inner(k), S, ch, q, tag)
    IN  IF k = "webhook" THEN Softened(s) ELSE s

\* The calls for x, for the providers that look at the service again before each.
Expand(k, S, x) ==
    CASE k \in {"cloudflare", "cloudflare-saas"} -> Cloudflare_Expand(S, x)
      [] k = "dnsimple" -> DNSimple_submitChange(S, x)
      [] k = "exoscale" -> Exoscale_submitChange(S, x)
      [] k = "transip" -> TransIP_submitChange(S, x)

\* What Records may read of the service S, where it goes on after an error.
Readings(k, S) ==
    CASE k = "akamai" -> Akamai_Readings(S)
      [] k = "alibaba" -> Alibaba_Readings(S)
      [] k = "rfc2136" -> AXFR_Readings(S)
      [] OTHER -> {S}

\* What Records of the provider changes, and what it may leave.
AfterListing(k, S) == IF k = "awssd" THEN DeleteService(S) ELSE S
Leavings(k, S) == IF k = "awssd" THEN AWSSD_Leavings(S) ELSE {S}

-----------------------------------------------------------------------------
(***************************************************************************)
(* The registries.                                                         *)
(***************************************************************************)

\* The name of the ownership record of a record of type t and name n: the type is put
\* before the first label, also at the apex of a zone, where it gives another zone's name.
ToTXTName(n, t) == [n EXCEPT ![1] = TypedLabel(t, @)]

\* The ownership record of e; that of an alias is named like that of a CNAME.
OwnershipTXT(e) ==
    LET t == IF e.type = "A" /\ <<"alias", "true">> \in e.props THEN "CNAME" ELSE e.type
    IN  [e EXCEPT !.key[1] = ToTXTName(@, t), !.type = "TXT", !.targets = RankOf({0}),
                  !.ttl = 0, !.owned = <<NameOf(e), e.type>>]

WithTXT(E) == E \cup {OwnershipTXT(e) : e \in E}

\* The changes of the registry; a TXT that is there is not created again.
RegistryChanges(k, R, ch) ==
    LET there == {e.key : e \in OfType(R, "TXT")}
    IN  IF k \in TXTKinds
        THEN [create |-> {e \in WithTXT(ch.create) : e.type = "TXT" => e.key \notin there},
              updateOld |-> WithTXT(ch.updateOld), updateNew |-> WithTXT(ch.updateNew),
              delete |-> WithTXT(ch.delete)]
        ELSE ch

\* Records of the registry, from those of the provider: an endpoint is this instance's
\* if its ownership record is there.
RegistryRecords(k, R) ==
    LET mine(e) == OwnershipTXT(e).key \in {o.key : o \in OfType(R, "TXT")}
    IN  IF k \in TXTKinds
        THEN {IF e.type \in ManagedTypes /\ mine(e) THEN [e EXCEPT !.owner = Me] ELSE e : e \in R}
        ELSE R

\* The planner's table has room for one current record of a name and type, the last
\* one listed; the records of a name that is not wanted are all deleted.
InTable(current, desired) ==
    {e \in current : \/ e = CHOOSE f \in current : SameRecord(e, f)
                     \/ \A d \in desired : d.key # e.key}

OwnerOf(k) == IF k \in TXTKinds \cup {"awssd"} THEN Me ELSE NoOwner

\* The plan of provider k for the records R and the wishes E.
Planned(k, R, E) ==
    LET keep(F) == {e \in F : Managed(k, NameOf(e))}
        desired == keep(Adjusted(k, E))
    IN  Calculate(OwnerOf(k), NoOwner, InTable(keep(RegistryRecords(k, R)), desired), desired)

\* The service as the provider knows it: OVH keeps zones in memory.
Known == IF kind = "ovh" THEN OVH_records(cache, svc) ELSE svc

\* A run reads the service: what Records reads, what it leaves, and what ApplyChanges
\* works on, which Alibaba Cloud reads again and OVH has from Records.  A part may be
\* missing.
Whole == [listed |-> Known, left |-> AfterListing(kind, svc),
          base |-> IF kind = "ovh" THEN Known ELSE AfterListing(kind, svc)]
Runs ==
    {[listed |-> L, left |-> S, base |-> IF kind \in {"alibaba", "ovh"} THEN M ELSE S] :
        L \in Readings(kind, Known), S \in Leavings(kind, svc),
        M \in IF kind = "alibaba" THEN Readings(kind, svc) ELSE {Known}}

\* The records that the provider reports to the run.
Listed(run) == IF kind = "cached" /\ cache # <<>> THEN cache[1] ELSE RecordsOf(kind, run.listed)

\* What is kept in memory when Records returns, and when ApplyChanges does.
Kept(run) ==
    CASE kind = "cached" -> <<Listed(run)>>
      [] kind = "ovh" -> OVH_Keep(Known)
      [] OTHER -> <<>>
KeptAfter(ch) == IF kind = "ovh" THEN invalidateCache(OVH_Keep(Known), OVH_Altered(ch)) ELSE <<>>

-----------------------------------------------------------------------------

Init ==
    /\ kind \in Kinds
    /\ svc = InitService[kind]
    /\ want \in Desirable[kind]
    /\ aim = {} /\ scope = {}
    /\ phase = "idle" /\ script = <<>> /\ failed = ""
    /\ queue = {} /\ partial = FALSE /\ cache = <<>> /\ stray = <<>>
    /\ edits = MaxEdits /\ faults = MaxFaults /\ drifts = MaxDrifts

\* The source changes its mind.
Edit ==
    /\ edits > 0
    /\ want' \in Desirable[kind] \ {want}
    /\ edits' = edits - 1
    /\ UNCHANGED <<kind, svc, aim, scope, phase, script, failed, queue, partial, cache, stray, faults, drifts>>

\* Somebody else removes a record that external-dns made, while it waits.  A zone of OVH
\* is published by that, and its serial number is not the one kept in memory.
Drift ==
    /\ drifts > 0 /\ phase = "idle" /\ OwnerOf(kind) = NoOwner
    /\ \E r \in svc \ InitService[kind] :
          IF kind = "ovh"
          THEN svc' = svc \ {r, Unpublished(r.zone)} /\ cache' = invalidateCache(cache, {ZoneWithId(r.zone)})
          ELSE svc' = svc \ {r} /\ UNCHANGED cache
    /\ drifts' = drifts - 1
    /\ UNCHANGED <<kind, want, aim, scope, phase, script, failed, queue, partial, stray, edits, faults>>

\* A reading with a part missing is a fault.
ReadingFaults(run) ==
    /\ run # Whole => faults > 0
    /\ faults' = IF run = Whole THEN faults ELSE faults - 1

\* RunOnce up to the calls of ApplyChanges, which empties the cache.
Reconcile ==
    /\ phase = "idle"
    /\ \E run \in Runs :
       \E ch \in {Planned(kind, Listed(run), want)} :
       \E all \in {RegistryChanges(kind, Listed(run), ch)} :
          /\ HasChanges(ch)
          /\ ReadingFaults(run) /\ partial' = (run # Whole)
          /\ aim' = want
          /\ scope' = {<<NameOf(e), e.type>> : e \in all.create \cup all.updateOld \cup all.updateNew \cup all.delete}
                         \cup IF stray # <<>> THEN scope ELSE {}
          /\ phase' = "applying"
          /\ script' = Script(kind, run.base, all, queue, MaxFaults - faults)
          /\ queue' = IF kind = "aws" THEN RemainingQueue(all, queue) ELSE {}
          /\ svc' = run.left
          /\ cache' = KeptAfter(all)
    /\ UNCHANGED <<kind, want, failed, stray, edits, drifts>>

\* RunOnce that finds nothing to change.
UpToDate ==
    /\ phase = "idle"
    /\ \E run \in Runs :
          /\ ~HasChanges(Planned(kind, Listed(run), want))
          /\ ReadingFaults(run)
          /\ svc' = run.left
          /\ cache' = Kept(run)
    /\ UNCHANGED <<kind, want, aim, scope, phase, script, failed, queue, partial, stray, edits, drifts>>

\* The refresh delay passes.
Expire ==
    /\ kind = "cached" /\ cache # <<>>
    /\ cache' = <<>>
    /\ UNCHANGED <<kind, svc, want, aim, scope, phase, script, failed, queue, partial, stray, edits, faults, drifts>>

\* The provider looks at the service again.
Look ==
    /\ script # <<>>
    /\ \E x \in Head(script).later : script' = Expand(kind, svc, x) \o Tail(script)
    /\ UNCHANGED <<kind, svc, want, aim, scope, phase, failed, queue, partial, cache, stray, edits, faults, drifts>>

CallSucceeds ==
    /\ script # <<>> /\ ~Head(script).refused /\ Head(script).later = {}
    /\ svc' = Effect(svc, Head(script))
    /\ script' = Tail(script)
    /\ UNCHANGED <<kind, want, aim, scope, phase, failed, queue, partial, cache, stray, edits, faults, drifts>>

\* What may be left of calls made in parallel, after one of the group failed: any of
\* them, and a closing call if all of its group are made.
Meanwhile(rest, group) ==
    {s \in AllSubSeqs(rest) :
        \A c \in Range(s) : c.closing =>
            /\ c.group # group
            /\ \A d \in Range(rest) : d.group = c.group => d \in Range(s)}

\* What is left of the script and the error to return, after its first call failed.
AfterFailure ==
    LET call == Head(script)
        fails(how) == call.instead = <<>> /\ call.onFail = how
    IN  \/ call.instead # <<>> /\ script' = call.instead \o Tail(script) /\ UNCHANGED failed
        \/ fails("hard") /\ script' = <<>> /\ failed' = "hard"
        \/ fails("soft") /\ script' = <<>> /\ failed' = "soft"
        \/ fails("note") /\ script' = Tail(script) /\ failed' = "hard"
        \/ fails("softnote") /\ script' = Tail(script) /\ failed' = "soft"
        \/ fails("forget") /\ script' = Tail(script) /\ UNCHANGED failed
        \/ fails("parallel") /\ script' \in Meanwhile(Tail(script), call.group) /\ failed' = "soft"

\* A call fails.  It may have had its effect all the same: the answer is lost.
CallFails ==
    /\ script # <<>>
    /\ faults > 0 \/ Head(script).refused
    /\ AfterFailure
    /\ svc' \in {svc, Effect(svc, Head(script))}
    /\ queue' = queue \cup (IF Head(script).instead = <<>> THEN Head(script).queue ELSE {})
    /\ faults' = IF Head(script).refused THEN faults ELSE faults - 1
    /\ UNCHANGED <<kind, want, aim, scope, phase, partial, cache, stray, edits, drifts>>

\* The client of a webhook loses its connection, which is a hard error; the server
\* goes on.
Disconnect ==
    /\ kind = "webhook" /\ phase = "applying" /\ faults > 0 /\ stray = <<>>
    /\ stray' = script /\ script' = <<>> /\ failed' = "hard"
    /\ faults' = faults - 1
    /\ UNCHANGED <<kind, svc, want, aim, scope, phase, queue, partial, cache, edits, drifts>>

StrayCall ==
    /\ stray # <<>>
    /\ svc' = Effect(svc, Head(stray))
    /\ stray' = Tail(stray)
    /\ UNCHANGED <<kind, want, aim, scope, phase, script, failed, queue, partial, cache, edits, faults, drifts>>

\* MUTANT: ApplyChanges does not wait for the calls it started.
FinishEarly ==
    /\ phase = "applying"
    /\ phase' = "idle" /\ failed' = "" /\ aim' = {} /\ partial' = FALSE
    /\ queue' = IF failed = "hard" THEN {} ELSE queue
    /\ cache' = IF failed = "hard" THEN <<>> ELSE cache
    /\ UNCHANGED <<kind, svc, want, scope, script, stray, edits, faults, drifts>>

\* ApplyChanges returns.  A hard error ends the process, which is started again.
Finish ==
    /\ phase = "applying" /\ script = <<>>
    /\ phase' = "idle" /\ failed' = "" /\ aim' = {} /\ partial' = FALSE
    /\ queue' = IF failed = "hard" THEN {} ELSE queue
    /\ cache' = IF failed = "hard" THEN <<>> ELSE cache
    /\ UNCHANGED <<kind, svc, want, scope, script, stray, edits, faults, drifts>>

\* The process dies and is started again.
Kill ==
    /\ phase = "applying" /\ faults > 0
    /\ faults' = faults - 1
    /\ phase' = "idle" /\ script' = <<>> /\ failed' = "" /\ aim' = {}
    /\ queue' = {} /\ partial' = FALSE /\ cache' = <<>>
    /\ UNCHANGED <<kind, svc, want, scope, stray, edits, drifts>>

Next ==
    \/ Reconcile \/ UpToDate \/ Look \/ CallSucceeds \/ CallFails \/ Finish
    \/ Edit \/ Drift \/ Kill \/ Expire \/ Disconnect \/ StrayCall

Pending == phase = "idle" /\ HasChanges(Planned(kind, Listed(Whole), want))

\* The loop goes on, as long as the process is started again.  The first conjunct is
\* WF_vars(Reconcile) for runs that read everything, with its enabling condition
\* written out.
Fairness ==
    /\ []<>~Pending \/ []<><<phase = "idle" /\ phase' = "applying">>_vars
    /\ WF_vars(Look \/ CallSucceeds \/ CallFails)
    /\ WF_vars(Finish)
    /\ WF_vars(Expire)
    /\ WF_vars(StrayCall)

Spec == Init /\ [][Next]_vars /\ Fairness

-----------------------------------------------------------------------------
(***************************************************************************)
(* Properties.                                                             *)
(***************************************************************************)

\* The variables have their types, and no call is left over once ApplyChanges has returned
\* or its process has died.
TypeOK ==
    /\ kind \in Kinds
    /\ want \in Desirable[kind] /\ aim \in Desirable[kind] \cup {{}}
    /\ phase \in {"idle", "applying"}
    /\ phase = "idle" => script = <<>>
    /\ failed \in {"", "soft", "hard"} /\ partial \in BOOLEAN
    /\ edits \in 0 .. MaxEdits /\ faults \in 0 .. MaxFaults /\ drifts \in 0 .. MaxDrifts

\* Names that others have a record of, where records have owners.
Taken(e) ==
    /\ OwnerOf(kind) # NoOwner
    /\ \E o \in RecordsOf(kind, InitService[kind]) : o.key = e.key /\ o.type \in ManagedTypes

\* Kinds that report one endpoint per record: of two records of a name and type the
\* planner sees one, and one that a failure left behind may stay.
OneEndpointPerRecord == {"linode", "civo", "dnsimple", "exoscale", "gandi", "transip", "pihole"}

\* The service has what the source wants, the records of others, and nothing else.
AsWanted ==
    LET R == RegistryRecords(kind, RecordsOf(kind, svc))
        wanted == {e \in Adjusted(kind, want) : ~Taken(e)}
        agree(r, e) == SameRecord(r, e) /\ r.targets = e.targets /\ (e.ttl # 0 => r.ttl = e.ttl)
    IN  /\ \A e \in wanted : \E r \in R : agree(r, e) /\ r.owner = OwnerOf(kind)
        /\ \A r \in R : \/ r \in RecordsOf(kind, InitService[kind]) \/ r.type \notin ManagedTypes
                        \/ \E e \in wanted : agree(r, e) \/
                              (SameRecord(r, e) /\ kind \in OneEndpointPerRecord)

\* Whatever fails and whatever others remove, in the end the service has what the
\* source wants, and the loop has nothing more to do.
Converges ==
    <>[](phase = "idle" /\ AsWanted /\ ~HasChanges(Planned(kind, RecordsOf(kind, svc), want)))

\* Below the TXT registry a record that this instance made never is in the service
\* without its ownership record, not even between two calls of ApplyChanges, when the
\* process may die: it would have no owner, and nobody would change it any more.
OwnedTogether ==
    kind \in TXTKinds =>
        \A e \in RegistryRecords(kind, RecordsOf(kind, svc)) :
            e.type \in ManagedTypes /\ e \notin RecordsOf(kind, InitService[kind]) => e.owner = Me

\* Kinds that log a failed call and go on, that let a lost request run on, or that find
\* a custom hostname that was left behind in the next run only.
Reticent == {"linode", "civo", "azure", "azure-private", "alibaba", "alibaba-private", "webhook",
             "cloudflare-saas"}


\* Kinds that remove the old records of an updated endpoint before they write the new.
DeletesFirst == {"alibaba", "alibaba-private", "awssd", "cloudflare", "cloudflare-saas", "coredns",
                 "coredns-strict", "pihole", "pihole6", "transip"}

\* While ApplyChanges works, a name and type that is wanted and has records keeps some:
\* an update never makes a name disappear.  A kind that goes on when the new records
\* could not be written deletes the old ones all the same.
Seamless ==
    [][phase = "applying" /\ kind \notin DeletesFirst \cup Reticent =>
         \A e \in Adjusted(kind, aim) :
             (\E r \in RecordsOf(kind, svc) : SameRecord(r, e)) =>
                 \E r \in RecordsOf(kind, svc') : SameRecord(r, e)]_vars

\* The whole name of a record.
WholeName(k, r) == IF k \in Relatively THEN FullNameOf(r) ELSE r.name

\* Record r is in the most specific of the managed zones that its name is in.
InRightZone(k, r) ==
    LET z == ZoneWithId(r.zone)
        n == WholeName(k, r)
    IN  /\ z.managed /\ InZone(n, z)
        /\ \A y \in ManagedZones : InZone(n, y) => Len(y.name) <= Len(z.name)

\* Every record that external-dns made is in the most specific of the managed zones
\* its name is in, where resolvers look for it.
RightZone ==
    kind \notin Zoneless =>
        \A r \in {x \in svc \ InitService[kind] : x.type \notin {"custom-hostname", "unpublished"}} : InRightZone(kind, r)

\* The names and types that a record of the service may belong to.
About(k, r) ==
    LET types == CASE r.type \in {"service", "instance", "regional-hostname", "custom-hostname"} ->
                          {"A", "AAAA", "CNAME", "TXT"}
                   [] r.type = "ALIAS" -> {"CNAME"}
                   [] OTHER -> {r.type}
        names == IF r.type = "custom-hostname" THEN {p[2] : p \in r.props} ELSE {WholeName(k, r)}
    IN  names \X types

\* The records of names; a service of Cloud Map is none by itself.
Visible(S) ==
    {<<About(kind, r), r>> :
        r \in {x \in S : x.type # "unpublished" /\ (kind = "awssd" => x.type # "service")}}

Contract == INSTANCE ZoneContract WITH
    others <- Visible(InitService[kind]),
    records <- Visible(svc),
    goal <- scope

\* Each provider implements the contract: ApplyChanges writes to the record sets of its
\* plan only, and the records of others stay.
KeepsContract == Contract!Spec

\* --dry-run: "running in dry-run mode. No changes to DNS records will be made."
\* (controller/execute.go).  ApplyChanges leaves the service as it is.
NoChangesMade == [][DryRun /\ phase = "applying" => svc' = svc]_vars

\* OVH: "do not refresh zone if errors", "invalidating the cache to make sure next run
\* will start freshly" (provider/ovh/ovh.go).  What was written is published in the
\* end.
Published == <>[](\A r \in svc : r.type # "unpublished")

=============================================================================
