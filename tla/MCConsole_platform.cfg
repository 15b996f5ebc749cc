\* Two saves of the permissions of a role or of a switch, another administrator, every order of fetches and answers.
SPECIFICATION Spec
CONSTANTS
  Live = {"permissions", "switch"}
  Saves = {1, 2}
  Others = {9}
INVARIANT FreshMeansTrue
PROPERTY NoSilentRevert
