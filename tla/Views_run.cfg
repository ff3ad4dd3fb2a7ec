CONSTANTS
  MACs <- McMACs
  IPs <- McIPs
  None = "none"
  Main = "scan"
  Specs <- McSpecs
  Enabled = {"mitre", "arp", "cisa"}
  PluginFindings <- McPluginFindings
  MaxFaults = 1
  Projects <- McProjects
  Names <- McNames
  Changed <- McChanged
  Limit = 2
  Hunts <- McHunts
  OuiOf <- McOuiOf
  Covers <- McCovers
  PlacesCap = 4
  HitsCap = 4
SPECIFICATION Spec
CHECK_DEADLOCK FALSE
CONSTRAINT PageIsOpen
INVARIANTS FindingsOnce EnrichmentIsKept OverviewIsExact NoveltyIsCoherent HuntIsComplete
PROPERTY ReportOnlyGains
