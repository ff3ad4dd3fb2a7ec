INIT Init
NEXT Next
CONSTANTS
  None = None
  plc = plc
  hmi = hmi
  gw = gw
  cloud = cloud
  cloud2 = cloud2
  group = group
  bcast = bcast
  any = any
  v6 = v6
  mPlc = mPlc
  mHmi = mHmi
  mGw = mGw
  mGroup = mGroup
  IPs <- McIPs
  MACs <- McMACs
  V6 = {v6}
  Public = {cloud, cloud2}
  Multicast = {group}
  Broadcast = {bcast}
  OtPorts = {502, 102, 2222, 47808}
  KnownPorts = {80, 443}
  OtProtocols = {"Modbus TCP", "S7comm", "EtherNet/IP", "BACnet", "LLDP"}
  Ephemeral = 49152
  CommandLines <- McCommandLines
  Captures <- McCaptures
  TextRank <- McTextRank
  ServicePorts <- McServicePorts
  ArpCap = 3
  MaxToolFaults = 1
  OuiVendor <- McOui
  NetworkVendors = {"Moxa"}
  PrizedVendors = {"Rockwell"}
  EngineeringWrites = 1
  AuthCapable = {"Modbus TCP", "S7comm", "EtherNet/IP", "HTTP"}
  AllowedOnOt = {53}
  CleartextPorts = {23}
  ScanThreshold = 1
  HighPort = 10000
  WriteSources = 1
  ExfilRatio = 10
  ExfilBytes = 10
  MaxTargets = 2
  ArpDefaults <- McArpDefaults
  ArpPacks <- McArpPacks
  BroadcastMac = mGroup
  Unspecified = any
  AllHosts = bcast
  AptDefaults <- McAptDefaults
  AptPacks <- McAptPacks
  Families <- McFamilies
  Expected <- McExpected
  MitreRules <- McMitreRules
  Advisories <- McAdvisories
  AliasGroups <- McAliasGroups
INVARIANTS
  TrafficIsKept
  ChunksMatchOnePass
  ScansCollapse
  DirectionsMeet
  FieldDevicesListen
  ExposureIsReported
  ArpIsExact
  FanOutIsFound
CHECK_DEADLOCK FALSE
