----------------------------- MODULE LayerLinks -----------------------------
(***************************************************************************)
(* What a layer links to, checked twice: by the resolver before anything   *)
(* boots (links.go, images.go) and again when the arguments of its `kraft  *)
(* run' are built (run.go).  The host is what a look finds at each path: it *)
(* may change between one layer's look and the next, and before the boot.  *)
(*                                                                         *)
(* A chart body is a record: sources is a function from the names the      *)
(* chart declares to data sources, topics the names of its events, layers  *)
(* a function from machine names to [stage, hard, soft, events, volumes].  *)
(***************************************************************************)
CONSTANT Paths

\* what access(2) allows the runner at a path
Access == {"missing", "closed", "readable", "writable"}

Hosts == [Paths -> Access]

\* resolveDataSource, for a hard link: R and W.  A soft link asks for R alone,
\* but what it finds is only logged.
Usable(ds, host) == ds.type = "file" /\ host[ds.path] = "writable"

\* Mutant of LinksVetted: a name the chart does not declare is passed over.
LinksVettedLoosely(body, layer, host) ==
  /\ \A n \in layer.hard \cap DOMAIN body.sources : Usable(body.sources[n], host)
  /\ layer.events \subseteq body.topics

\* resolveLinks.  A name the chart does not declare is a data source without a
\* type, hence unusable.
LinksVetted(body, layer, host) ==
  /\ \A n \in layer.hard : n \in DOMAIN body.sources /\ Usable(body.sources[n], host)
  /\ layer.events \subseteq body.topics

\* resolveVolumes.  A volume that is not of the form host:/guest is no path.
VolumesVetted(layer, host) ==
  \A v \in layer.volumes : v \in Paths /\ host[v] # "missing"

\* ResolveLayers looks at every layer, each at a time of its own, before the first
\* one boots.
ChartVetted(body) ==
  \A m \in DOMAIN body.layers : \E host \in Hosts :
    LinksVetted(body, body.layers[m], host) /\ VolumesVetted(body.layers[m], host)

\* dataSourceMounts, the second look.  It refuses nothing for what the host shows:
\* a soft source that is not there is left out, a hard one and a volume are passed
\* on to kraft, there or not.
UnknownSources(body, layer) == (layer.hard \cup layer.soft) \ DOMAIN body.sources

\* resolveEventLinks, for the triggers alone
UnknownEvents(body, layer) == IF layer.stage = 2 THEN layer.events \ body.topics ELSE {}

\* the links the second look refuses
Undeclared(body, layer) == UnknownSources(body, layer) \cup UnknownEvents(body, layer)
=============================================================================
