SPECIFICATION ConnectorSpec
CONSTANTS
    Configs <- MCConfigs
    EmitTokenIds = TRUE
    Asks <- MCAsks
    Reports <- MCReports
    Wires <- MCWires
    Pages = {}
PROPERTY StreamedRepliesEnd
