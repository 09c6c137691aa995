SPECIFICATION FairSpec
CONSTANTS
    AskedLayers = {"udp", "ipv4"}
    AskedNames = {"dst_port", "src_ip"}
    CountTexts = {"missing", "==", "<"}
    CountValues = {0, 1}
    MaxFiles = 2
    MaxSteps = 2
    MaxPackets = 2
INVARIANTS VerdictJustified BatchCountsAgree
PROPERTIES BatchEnds
