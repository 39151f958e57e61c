\* Whether a receipt's text runs to the end of the body.
SPECIFICATION Spec
CONSTANTS
  OctetBase = 16
  TlvTags <- MCTlvTags
  INT_WIDTHS <- MCIntWidths
  U16 = 65536
  U32 = 1000000
  Hex <- MCHex
  BindNames <- MCBindNames
  Octets <- MCOctets
  Dicts <- MCDicts
  ReceiptPdus <- MCReceiptPdus
  OurIds <- MCOurIds
  Calls <- MCCalls
  PeerPdus <- MCPeerPdus
  Replies <- MCReplies
  PeerStatuses <- MCPeerStatuses
  Yamls <- MCYamls
  Envs <- MCEnvs
INVARIANT TextRunsToTheEnd
