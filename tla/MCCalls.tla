------------------------------- MODULE MCCalls -------------------------------
EXTENDS Calls
FourSubdevs == {"remote", "ram", "ctrl", "dsp"}
ThreeRemotes == {"vme", "camac", "lvd"}
=============================================================================
