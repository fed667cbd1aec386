---------------------------- MODULE MCLauncher ----------------------------
(* WxTCmd and one other tool, of two images: the older one has no DLL for the
   second tool.  "native" is a file that only a running WxTCmd makes.        *)
EXTENDS Launcher

MCToLower == [n \in {"WxTCmd", "rla", "WXTCMD", "Rla", "list", "", "PECmd"} |->
  CASE n \in {"WxTCmd", "WXTCMD"} -> "wxtcmd"
    [] n = "Rla" -> "rla"
    [] n = "PECmd" -> "pecmd"
    [] OTHER -> n]
MCFiles == [p \in Image \X Tool |->
  IF p[2] = "WxTCmd" THEN {"WxTCmd.dll", "deps"}
  ELSE IF p[1] = "new" THEN {"rla.dll"} ELSE {"deps"}]
MCDll == [t \in Tool |-> IF t = "WxTCmd" THEN "WxTCmd.dll" ELSE "rla.dll"]
=============================================================================
