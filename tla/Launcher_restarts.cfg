SPECIFICATION LauncherSpec
CONSTANTS
  Image = {"old", "new"}
  Tool = {"WxTCmd", "rla"}
  Asked = {"WXTCMD", "Rla", "list", "", "PECmd"}
  File = {"WxTCmd.dll", "rla.dll", "deps", "native"}
  ToLower <- MCToLower
  Files <- MCFiles
  Dll <- MCDll
  MaxLaunches = 3
INVARIANTS
  LauncherTypeOK
  RunsWhatItCopied
  FailsForCause
CHECK_DEADLOCK FALSE
